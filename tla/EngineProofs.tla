---------------------------- MODULE EngineProofs ----------------------------
(***************************************************************************)
(* Proofs about the decision engine, for every set of rules (finite or     *)
(* not), every table of decision types and every case; and about what      *)
(* stands beside it: the compilation of a rule, a run of an agent, the     *)
(* audit of a trace and the metrics over the spans.                        *)
(***************************************************************************)
EXTENDS MCEngine, SequenceTheorems, FiniteSetTheorems, WellFoundedInduction, TLAPS

-----------------------------------------------------------------------------
(* What the rules that fired conclude.                                     *)

LEMMA TopTypes ==
    ASSUME NEW d \in [Rules -> DecisionTypes], NEW res
    PROVE  Top(d, res) \subseteq DecisionTypes
  BY DEF Top, Winners, Returned

\* A non-empty set of numbers under a bound has a greatest element: its least bound.
LEMMA Greatest ==
    ASSUME NEW bound \in Nat, NEW P \in SUBSET Nat, P # {},
           \A p \in P : p <= bound
    PROVE  \E p \in P : \A q \in P : q <= p
  <1> DEFINE Bounds == {b \in Nat : \A p \in P : p <= b}
  <1>1. PICK least \in Bounds : \A b \in Bounds : ~ (<<b, least>> \in OpToRel(<, Nat))
    <2>1. Bounds \subseteq Nat /\ Bounds # {}
      OBVIOUS
    <2> HIDE DEF Bounds
    <2> QED BY <2>1, NatLessThanWellFounded, WFMin
  <1>2. \A b \in Bounds : ~ (b < least)
    BY <1>1 DEF OpToRel
  <1>3. least \in P
    <2> SUFFICES ASSUME least \notin P PROVE FALSE
      OBVIOUS
    <2>1. PICK p \in P : TRUE
      OBVIOUS
    <2>2. least - 1 \in Nat /\ \A q \in P : q <= least - 1
      BY <2>1
    <2> QED
      BY <1>2, <2>2
  <1> QED
    BY <1>3

\* If any rule fired, one of them has the highest priority.
LEMMA SomeRuleWins ==
    ASSUME NEW d \in [Rules -> DecisionTypes], NEW res,
           Returned(res, "fires") # {}
    PROVE  Winners(d, res) # {}
  <1> DEFINE P == {Priority[d[r]] : r \in Returned(res, "fires")}
  <1>1. PICK t \in DecisionTypes :
          \A u \in DecisionTypes : Priority[u] <= Priority[t]
    BY EngineAssumption
  <1>2. /\ Priority[t] \in Nat
        /\ P \in SUBSET Nat
        /\ P # {}
        /\ \A p \in P : p <= Priority[t]
    BY <1>1, EngineAssumption DEF Returned
  <1>3. \E p \in P : \A q \in P : q <= p
    <2> HIDE DEF P
    <2> QED BY <1>2, Greatest
  <1>4. PICK p \in P : \A q \in P : q <= p
    BY <1>3
  <1>5. PICK r \in Returned(res, "fires") : p = Priority[d[r]]
    BY <1>4
  <1>6. r \in Winners(d, res)
    BY <1>4, <1>5 DEF Winners
  <1> QED
    BY <1>6

\* The type the rules conclude, when any fired, is the type of a winner.
LEMMA ChosenType ==
    ASSUME NEW d \in [Rules -> DecisionTypes], NEW res,
           Returned(res, "fires") # {}
    PROVE  \E w \in Winners(d, res) :
              (CHOOSE t \in Top(d, res) : TRUE) = d[w]
  <1>1. Top(d, res) # {}
    BY SomeRuleWins DEF Top
  <1>2. (CHOOSE t \in Top(d, res) : TRUE) \in Top(d, res)
    BY <1>1, Zenon
  <1> QED
    BY <1>2 DEF Top

LEMMA RulesVerdictType ==
    ASSUME NEW d \in [Rules -> DecisionTypes], NEW res, NEW doc \in Documents
    PROVE  RulesVerdict(d, res, doc) \in Verdicts
  <1>1. CASE Returned(res, "fires") = {}
    BY <1>1, EngineAssumption DEF RulesVerdict, Verdicts, Causes
  <1>2. CASE Returned(res, "fires") # {}
    <2> DEFINE type == CHOOSE t \in Top(d, res) : TRUE
    <2>1. PICK w \in Winners(d, res) : type = d[w]
      BY <1>2, ChosenType
    <2>2. type \in DecisionTypes
      BY <2>1 DEF Winners, Returned
    <2> QED
      BY <2>2, <1>2, EngineAssumption
      DEF RulesVerdict, Verdicts, Causes, Escalation
  <1> QED
    BY <1>1, <1>2

LEMMA CombineType ==
    ASSUME NEW d \in [Rules -> DecisionTypes], NEW res, NEW doc \in Documents
    PROVE  Combine(d, res, doc) \in Verdicts
  BY RulesVerdictType, EngineAssumption
  DEF Combine, Escalation, Verdicts, Causes

-----------------------------------------------------------------------------
(* ADR 0028: an unrun rule could not have changed the outcome.             *)

\* Two results agree but for the rules that were not run, which in `full`
\* answered either way.
Completes(full, res) ==
    \A r \in Rules : \/ res[r] # "down" /\ full[r] = res[r]
                     \/ res[r] = "down" /\ full[r] \in {"fires", "silent"}

\* The rules that ran and are still decided conclude the same types when the
\* unrun ones answer.
LEMMA TopStands ==
    ASSUME NEW d \in [Rules -> DecisionTypes], NEW res, NEW full,
           Completes(full, res), StillDecided(d, res)
    PROVE  Top(d, full) = Top(d, res)
  <1>1. \A t \in DecisionTypes : Priority[t] \in Nat
    BY EngineAssumption
  <1>2. PICK w \in Winners(d, res) : TRUE
    BY DEF StillDecided
  <1>3. /\ w \in Rules /\ res[w] = "fires" /\ full[w] = "fires"
        /\ d[w] \in DecisionTypes
    BY DEF Winners, Returned, Completes
  <1>4. ASSUME NEW q \in Returned(full, "fires"), res[q] = "down"
        PROVE  \/ Priority[d[q]] < Priority[d[w]]
               \/ Priority[d[q]] = Priority[d[w]] /\ Top(d, res) = {d[q]}
    BY <1>4 DEF StillDecided, Returned
  <1>5. ASSUME NEW q \in Returned(full, "fires")
        PROVE  /\ q \in Rules
               /\ d[q] \in DecisionTypes
               /\ Priority[d[q]] <= Priority[d[w]]
    <2>1. CASE res[q] = "down"
      BY <2>1, <1>1, <1>3, <1>4 DEF Returned
    <2>2. CASE res[q] # "down"
      BY <2>2 DEF Returned, Completes, Winners
    <2> QED
      BY <2>1, <2>2 DEF Returned
  <1>6. Winners(d, res) \subseteq Winners(d, full)
    <2> SUFFICES ASSUME NEW v \in Winners(d, res)
                 PROVE  v \in Winners(d, full)
      OBVIOUS
    <2>1. v \in Returned(full, "fires")
      BY DEF Winners, Returned, Completes
    <2>2. Priority[d[w]] <= Priority[d[v]]
      BY DEF Winners
    <2>3. \A q \in Returned(full, "fires") : Priority[d[q]] <= Priority[d[v]]
      BY <1>1, <1>3, <1>5, <2>1, <2>2
    <2> QED
      BY <2>1, <2>3 DEF Winners
  <1>7. ASSUME NEW v \in Winners(d, full)
        PROVE  d[v] \in Top(d, res)
    <2>1. /\ v \in Returned(full, "fires")
          /\ Priority[d[w]] <= Priority[d[v]]
      BY <1>3 DEF Winners, Returned
    <2>2. Priority[d[v]] = Priority[d[w]]
      BY <1>1, <1>3, <1>5, <2>1
    <2>3. CASE res[v] = "down"
      BY <1>1, <1>3, <1>4, <1>5, <2>1, <2>2, <2>3
    <2>4. CASE res[v] # "down"
      <3>1. v \in Returned(res, "fires")
        BY <2>1, <2>4 DEF Returned, Completes
      <3>2. v \in Winners(d, res)
        BY <2>2, <3>1 DEF Winners
      <3> QED
        BY <3>2 DEF Top
    <2> QED
      BY <2>3, <2>4
  <1> QED
    BY <1>6, <1>7 DEF Top

\* The verdict on an outage is the verdict without it, or an escalation.
LEMMA CombineSound ==
    ASSUME NEW d \in [Rules -> DecisionTypes], NEW res, NEW full,
           NEW doc \in Documents, Completes(full, res)
    PROVE  Combine(d, res, doc).decision
              \in {Escalate, Combine(d, full, doc).decision}
  <1>1. Escalation("MISSING_DATA").decision = Escalate
        /\ Escalation("UNVERIFIED_DATA").decision = Escalate
        /\ Escalation("RULE_FAILURE").decision = Escalate
        /\ Escalation("SOURCE_UNAVAILABLE").decision = Escalate
    BY DEF Escalation
  <1>2. CASE \/ doc.missing # {}
             \/ doc.scanned /\ doc.unconfirmed # {}
             \/ Returned(res, "failed") # {}
             \/ Returned(res, "down") # {} /\ ~StillDecided(d, res)
    BY <1>1, <1>2 DEF Combine
  <1>3. CASE ~ \/ doc.missing # {}
               \/ doc.scanned /\ doc.unconfirmed # {}
               \/ Returned(res, "failed") # {}
               \/ Returned(res, "down") # {} /\ ~StillDecided(d, res)
    <2>1. Returned(full, "failed") = {} /\ Returned(full, "down") = {}
      BY <1>3 DEF Returned, Completes
    <2>2. Combine(d, full, doc) = RulesVerdict(d, full, doc)
      BY <1>3, <2>1 DEF Combine
    <2>3. Combine(d, res, doc) = RulesVerdict(d, res, doc)
      BY <1>3 DEF Combine
    <2>4. Top(d, full) = Top(d, res)
          /\ (Returned(full, "fires") = {}) = (Returned(res, "fires") = {})
      <3>1. CASE Returned(res, "down") = {}
        <4>1. \A r \in Rules : full[r] = res[r]
          BY <3>1 DEF Returned, Completes
        <4>2. Returned(full, "fires") = Returned(res, "fires")
          BY <4>1 DEF Returned
        <4> QED
          BY <4>2 DEF Top, Winners
      <3>2. CASE Returned(res, "down") # {}
        <4>1. StillDecided(d, res)
          BY <1>3, <3>2
        <4>2. Returned(res, "fires") # {} /\ Returned(full, "fires") # {}
          BY <4>1 DEF StillDecided, Winners, Returned, Completes
        <4> QED
          BY <4>1, <4>2, TopStands
      <3> QED
        BY <3>1, <3>2
    <2>5. RulesVerdict(d, full, doc) = RulesVerdict(d, res, doc)
      BY <2>4 DEF RulesVerdict
    <2> QED
      BY <2>2, <2>3, <2>5
  <1> QED
    BY <1>2, <1>3

-----------------------------------------------------------------------------
(* The invariant: a finished rule returned what its code answers, or "down" *)
(* without running; the verdict combines the results of all the rules.      *)

ResultsAnswer ==
    \A r \in Rules :
        result[r] \in {"unrun", IF r \in unavailable THEN "down" ELSE answer[r]}

VerdictCombines ==
    verdict # NoVerdict =>
        /\ \A r \in Rules : result[r] # "unrun"
        /\ verdict = Combine(decides, result, document)

Inv == TypeOK /\ ResultsAnswer /\ VerdictCombines

LEMMA InitInv == Init => Inv
  BY DEF Init, Inv, TypeOK, ResultsAnswer, VerdictCombines, Results

LEMMA NextInv == Inv /\ [Next]_vars => Inv'
  <1> SUFFICES ASSUME Inv, [Next]_vars PROVE Inv'
    OBVIOUS
  <1> USE DEF Inv
  <1>1. ASSUME NEW r \in Rules, RunRule(r) PROVE Inv'
    <2>1. result' = [result EXCEPT ![r] = IF r \in unavailable THEN "down"
                                          ELSE answer[r]]
      BY <1>1 DEF RunRule
    <2>2. TypeOK'
      BY <1>1, <2>1 DEF RunRule, TypeOK, Results, Answers
    <2>3. ResultsAnswer'
      BY <1>1, <2>1 DEF RunRule, TypeOK, ResultsAnswer
    <2>4. VerdictCombines'
      BY <1>1 DEF RunRule, TypeOK, VerdictCombines
    <2> QED
      BY <2>2, <2>3, <2>4
  <1>2. CASE Decide
    <2>1. Combine(decides, result, document) \in Verdicts
      BY CombineType DEF TypeOK
    <2>2. TypeOK'
      BY <1>2, <2>1 DEF Decide, TypeOK
    <2>3. ResultsAnswer'
      BY <1>2 DEF Decide, ResultsAnswer
    <2>4. VerdictCombines'
      BY <1>2 DEF Decide, VerdictCombines
    <2> QED
      BY <2>2, <2>3, <2>4
  <1>3. CASE UNCHANGED vars
    BY <1>3 DEF vars, TypeOK, ResultsAnswer, VerdictCombines
  <1> QED
    BY <1>1, <1>2, <1>3 DEF Next

THEOREM SpecInv == Spec => []Inv
  <1> QED BY InitInv, NextInv, PTL DEF Spec

\* The state of the engine is well typed: in particular every verdict is a
\* decision type of the process.
THEOREM Typed == Spec => []TypeOK
  <1>1. Inv => TypeOK
    BY DEF Inv
  <1> QED
    BY <1>1, SpecInv, PTL

\* ADR 0028, for every set of rules and every table of types: what the rules
\* that read a down source would have answered cannot change an automatic
\* outcome.
THEOREM OutageSound == Spec => []OutageNeverChangesTheOutcome
  <1>1. Inv => OutageNeverChangesTheOutcome
    <2> SUFFICES ASSUME Inv, verdict # NoVerdict,
                        NEW filled \in [Rules -> {"fires", "silent"}]
                 PROVE  verdict.decision \in
                          {Escalate,
                           Combine(decides, Completed(filled), document).decision}
      BY DEF OutageNeverChangesTheOutcome
    <2> DEFINE full == Completed(filled)
    <2>1. decides \in [Rules -> DecisionTypes] /\ document \in Documents
      BY DEF Inv, TypeOK
    <2>2. verdict = Combine(decides, result, document)
      BY DEF Inv, VerdictCombines
    <2>3. ASSUME NEW r \in Rules
          PROVE  result[r] = IF r \in unavailable THEN "down" ELSE answer[r]
      BY DEF Inv, ResultsAnswer, VerdictCombines
    <2>4. \A r \in Rules : answer[r] # "down"
      BY DEF Inv, TypeOK, Answers
    <2>5. Completes(full, result)
      BY <2>3, <2>4 DEF Completes, Completed
    <2>6. Combine(decides, result, document).decision
            \in {Escalate, Combine(decides, full, document).decision}
      <3> HIDE DEF full
      <3> QED BY <2>1, <2>5, CombineSound
    <2> QED
      BY <2>2, <2>6
  <1> QED
    BY <1>1, SpecInv, PTL

\* The remaining guarantees, of one verdict.
LEMMA CombineGuards ==
    ASSUME NEW d \in [Rules -> DecisionTypes], NEW res, NEW doc \in Documents,
           Combine(d, res, doc).decision # Escalate
    PROVE  /\ doc.missing = {}
           /\ doc.scanned => doc.unconfirmed = {}
           /\ Returned(res, "failed") = {}
           /\ Returned(res, "down") # {} => StillDecided(d, res)
           /\ Combine(d, res, doc) = RulesVerdict(d, res, doc)
           /\ RulesVerdict(d, res, doc).decision # Escalate
  BY DEF Combine, Escalation

\* What the rules conclude on their own is the default when none fired, and
\* the type of every winner otherwise.
LEMMA RulesVerdictOutcome ==
    ASSUME NEW d \in [Rules -> DecisionTypes], NEW res, NEW doc \in Documents,
           RulesVerdict(d, res, doc).decision # Escalate
    PROVE  /\ Returned(res, "fires") = {} =>
                 RulesVerdict(d, res, doc).decision = Default
           /\ Returned(res, "fires") # {} =>
                 \E w \in Winners(d, res) :
                    RulesVerdict(d, res, doc).decision = d[w]
           /\ doc.scanned => RulesVerdict(d, res, doc).decision = Default
  <1>1. CASE Returned(res, "fires") = {}
    BY <1>1 DEF RulesVerdict
  <1>2. CASE Returned(res, "fires") # {}
    <2> DEFINE type == CHOOSE t \in Top(d, res) : TRUE
    <2>1. PICK w \in Winners(d, res) : type = d[w]
      BY <1>2, ChosenType
    <2>2. RulesVerdict(d, res, doc).decision = type
          /\ (doc.scanned => type \in {Default, Escalate})
      BY <1>2 DEF RulesVerdict, Escalation
    <2> QED
      BY <1>2, <2>1, <2>2
  <1> QED
    BY <1>1, <1>2

\* A fired rule is never outvoted, for every table of priorities.
THEOREM NeverOutvoted == Spec => []FiredRuleNeverOutvoted
  <1>1. Inv => FiredRuleNeverOutvoted
    <2> SUFFICES ASSUME Inv, verdict # NoVerdict,
                        verdict.decision # Escalate,
                        NEW r \in Returned(result, "fires")
                 PROVE  Priority[decides[r]] <= Priority[verdict.decision]
      BY DEF FiredRuleNeverOutvoted
    <2>1. /\ decides \in [Rules -> DecisionTypes] /\ document \in Documents
          /\ verdict = Combine(decides, result, document)
      BY DEF Inv, TypeOK, VerdictCombines
    <2>2. /\ verdict = RulesVerdict(decides, result, document)
          /\ RulesVerdict(decides, result, document).decision # Escalate
      BY <2>1, CombineGuards
    <2>3. PICK w \in Winners(decides, result) : verdict.decision = decides[w]
      BY <2>1, <2>2, RulesVerdictOutcome
    <2> QED
      BY <2>3 DEF Winners
  <1> QED
    BY <1>1, SpecInv, PTL

\* A scan is paid or goes to a person, whatever the rules say.
THEOREM ScanSafe == Spec => []ScanNeverRejected
  <1>1. Inv => ScanNeverRejected
    <2> SUFFICES ASSUME Inv, verdict # NoVerdict, document.scanned,
                        verdict.decision # Escalate
                 PROVE  verdict.decision = Default
      BY DEF ScanNeverRejected
    <2>1. /\ decides \in [Rules -> DecisionTypes] /\ document \in Documents
          /\ verdict = Combine(decides, result, document)
      BY DEF Inv, TypeOK, VerdictCombines
    <2>2. /\ verdict = RulesVerdict(decides, result, document)
          /\ RulesVerdict(decides, result, document).decision # Escalate
      BY <2>1, CombineGuards
    <2> QED
      BY <2>1, <2>2, RulesVerdictOutcome
  <1> QED
    BY <1>1, SpecInv, PTL

\* The default needs a complete, confirmed reading and all the rules silent, or
\* a rule that concludes it.
THEOREM DefaultSafe == Spec => []DefaultNeedsAllEvidence
  <1>1. Inv => DefaultNeedsAllEvidence
    <2> SUFFICES ASSUME Inv, verdict # NoVerdict, verdict.decision = Default
                 PROVE  /\ document.missing = {}
                        /\ document.scanned => document.unconfirmed = {}
                        /\ Returned(result, "failed") = {}
                        /\ \/ \A r \in Rules :
                                 answer[r] = "silent" /\ r \notin unavailable
                           \/ \E r \in Rules \ unavailable :
                                 answer[r] = "fires" /\ decides[r] = Default
      BY DEF DefaultNeedsAllEvidence
    <2>1. /\ decides \in [Rules -> DecisionTypes] /\ document \in Documents
          /\ verdict = Combine(decides, result, document)
          /\ verdict.decision # Escalate
      BY EngineAssumption DEF Inv, TypeOK, VerdictCombines
    <2>2. /\ document.missing = {}
          /\ document.scanned => document.unconfirmed = {}
          /\ Returned(result, "failed") = {}
          /\ Returned(result, "down") # {} => StillDecided(decides, result)
          /\ verdict = RulesVerdict(decides, result, document)
          /\ RulesVerdict(decides, result, document).decision # Escalate
      BY <2>1, CombineGuards
    <2>3. ASSUME NEW r \in Rules
          PROVE  /\ result[r] = IF r \in unavailable THEN "down" ELSE answer[r]
                 /\ answer[r] \in {"fires", "silent", "failed"}
      BY DEF Inv, TypeOK, Answers, ResultsAnswer, VerdictCombines
    <2>4. CASE Returned(result, "fires") = {}
      <3>1. Returned(result, "down") = {}
        BY <2>2, <2>4 DEF StillDecided, Winners
      <3>2. \A r \in Rules : answer[r] = "silent" /\ r \notin unavailable
        BY <2>2, <2>3, <2>4, <3>1 DEF Returned
      <3> QED
        BY <2>2, <3>2
    <2>5. CASE Returned(result, "fires") # {}
      <3>1. PICK w \in Winners(decides, result) : verdict.decision = decides[w]
        BY <2>1, <2>2, <2>5, RulesVerdictOutcome
      <3>2. w \in Rules /\ result[w] = "fires" /\ decides[w] = Default
        BY <3>1 DEF Winners, Returned
      <3>3. w \in Rules \ unavailable /\ answer[w] = "fires"
        BY <2>3, <3>2
      <3> QED
        BY <2>2, <3>2, <3>3
    <2> QED
      BY <2>4, <2>5
  <1> QED
    BY <1>1, SpecInv, PTL

-----------------------------------------------------------------------------
(***************************************************************************)
(* The compilation of a rule (module Compiler).  What was run last is what *)
(* is judged, reviewed and stored: the tests change after a review only,   *)
(* and then they are run again.                                            *)
(***************************************************************************)
CompilationInv ==
    /\ rounds \in 0 .. MaxReviews
    /\ stage = "tests" => written = None
    /\ stage \in {"code", "run", "judge", "review"} => expected \in [Tests -> BOOLEAN]
    /\ stage \in {"judge", "review"} => results = Compilation!Run(proposal.does, expected)
    /\ stage = "stored" =>
          /\ results = Compilation!Run(proposal.does, expected)
          /\ stored = Compilation!Compiled(proposal.does, expected, results)

LEMMA CompilationInitially == Compilation!Init => CompilationInv
  BY PartsAssumption DEF Compilation!Init, CompilationInv, Compilation!CompilerAssumption

LEMMA ReviewKeepsCompilation == ASSUME CompilationInv, Compilation!Review PROVE CompilationInv'
  <1>1. PICK doubted \in SUBSET Compilation!Disputed : \E given \in [doubted -> BOOLEAN] :
            expected' = [t \in Tests |-> IF t \in doubted THEN given[t] ELSE expected[t]]
    BY DEF Compilation!Review
  <1>2. expected' \in [Tests -> BOOLEAN]
    BY <1>1 DEF CompilationInv, Compilation!Review
  <1>3. stage' = "code" /\ rounds' = rounds
    BY DEF Compilation!Review
  <1> QED
    BY <1>2, <1>3 DEF CompilationInv

LEMMA NextKeepsCompilation == CompilationInv /\ [Compilation!Next]_compilation => CompilationInv'
  <1> SUFFICES ASSUME CompilationInv, [Compilation!Next]_compilation PROVE CompilationInv'
    OBVIOUS
  <1>1. MaxReviews \in Nat
    BY PartsAssumption DEF Compilation!CompilerAssumption
  <1>2. CASE Compilation!WriteTests
    BY <1>2 DEF Compilation!WriteTests, Compilation!Suites, CompilationInv
  <1>3. CASE Compilation!NeedData \/ Compilation!ModelsFail
    BY <1>3 DEF Compilation!NeedData, Compilation!ModelsFail, CompilationInv
  <1>4. CASE Compilation!Propose
    BY <1>4 DEF Compilation!Propose, CompilationInv
  <1>5. CASE Compilation!RunTests
    <2>1. results' = Compilation!Run(proposal'.does, expected')
      BY <1>5 DEF Compilation!RunTests
    <2>2. stage = "run" /\ stage' = "judge"
          /\ UNCHANGED <<written, expected, attempt, rounds, proposal, stored>>
      BY <1>5 DEF Compilation!RunTests
    <2> QED
      BY <2>1, <2>2 DEF CompilationInv, Compilation!Run
  <1>6. CASE Compilation!Store
    BY <1>6 DEF Compilation!Store, CompilationInv, Compilation!Run, Compilation!Compiled
  <1>7. CASE Compilation!Object
    BY <1>1, <1>7 DEF Compilation!Object, CompilationInv, Compilation!Run
  <1>8. CASE Compilation!TryAgain
    BY <1>8 DEF Compilation!TryAgain, CompilationInv
  <1>9. CASE UNCHANGED compilation
    BY <1>9 DEF compilation, CompilationInv, Compilation!Run, Compilation!Compiled
  <1> QED
    BY <1>2, <1>3, <1>4, <1>5, <1>6, <1>7, <1>8, <1>9, ReviewKeepsCompilation
    DEF Compilation!Next

LEMMA StoredReport == CompilationInv => Compilation!ReportIsOfTheTests
  <1> SUFFICES ASSUME CompilationInv, stage = "stored"
               PROVE  /\ stored.ran = Compilation!Run(stored.code, stored.tests)
                      /\ stored.valid <=> \A t \in Tests :
                            Compilation!Passes(stored.code[t], stored.tests[t])
    BY DEF Compilation!ReportIsOfTheTests
  <1> DEFINE passes == \A t \in Tests : results[t].passed
  <1>1. stored = [code |-> proposal.does, tests |-> expected, ran |-> results, valid |-> passes]
        /\ results = Compilation!Run(proposal.does, expected)
    BY DEF CompilationInv, Compilation!Compiled
  <1> HIDE DEF passes
  <1>2. /\ stored.code = proposal.does /\ stored.tests = expected /\ stored.ran = results
        /\ stored.valid = passes
    BY <1>1
  <1>3. \A t \in Tests : results[t].passed <=> Compilation!Passes(stored.code[t], stored.tests[t])
    BY <1>1, <1>2 DEF Compilation!Run
  <1>4. stored.valid <=> \A t \in Tests : Compilation!Passes(stored.code[t], stored.tests[t])
    BY <1>2, <1>3, Zenon DEF passes
  <1> QED
    BY <1>1, <1>2, <1>4

LEMMA TestsStand ==
    CompilationInv /\ [Compilation!Next]_compilation => Compilation!OnlyFailedTestsChange
  <1> SUFFICES ASSUME CompilationInv, [Compilation!Next]_compilation, written # None,
                      expected' # expected
               PROVE  /\ \A t \in Tests : expected'[t] # expected[t]
                            => ~Compilation!Passes(proposal.does[t], expected[t])
                      /\ stage = "review" /\ rounds <= MaxReviews
    <2>1. MaxReviews \in Nat
      BY PartsAssumption DEF Compilation!CompilerAssumption
    <2> QED
      BY <2>1 DEF Compilation!OnlyFailedTestsChange, CompilationInv
  <1>1. Compilation!Review
    BY DEF Compilation!Next, compilation, CompilationInv, Compilation!WriteTests,
           Compilation!NeedData, Compilation!ModelsFail, Compilation!Propose,
           Compilation!RunTests, Compilation!Store, Compilation!Object, Compilation!TryAgain
  <1>2. PICK doubted \in SUBSET Compilation!Disputed : \E given \in [doubted -> BOOLEAN] :
            expected' = [t \in Tests |-> IF t \in doubted THEN given[t] ELSE expected[t]]
    BY <1>1 DEF Compilation!Review
  <1>3. /\ stage = "review" /\ rounds \in 0 .. MaxReviews
        /\ results = Compilation!Run(proposal.does, expected)
    BY <1>1 DEF Compilation!Review, CompilationInv
  <1>4. \A t \in Compilation!Disputed :
            t \in Tests /\ ~Compilation!Passes(proposal.does[t], expected[t])
    BY <1>3 DEF Compilation!Disputed, Compilation!Failures, Compilation!Run
  <1> QED
    BY <1>2, <1>3, <1>4

\* A coder cannot bend the tests its code passed, however it objects, and what is reported
\* of the tests is of those that are stored (agents/compiler.py, ADR 0004).
THEOREM CoderCannotBendTests == MCSpec => OracleStands
  <1> DEFINE OracleInv == part = "compilation" => CompilationInv
  <1>1. MCInit => OracleInv
    BY CompilationInitially DEF MCInit
  <1>2. OracleInv /\ [MCNext]_<<part, vars, compilation, run, audit, events>>
            => OracleInv' /\ (part = "compilation" => [Compilation!Next]_compilation)
    BY NextKeepsCompilation DEF MCNext
  <1>3. OracleInv => (part = "compilation" => Compilation!ReportIsOfTheTests)
    BY StoredReport
  <1>4. OracleInv /\ [MCNext]_<<part, vars, compilation, run, audit, events>>
            => [part = "compilation" => Compilation!OnlyFailedTestsChange]_compilation
    BY <1>2, TestsStand
  <1> QED
    BY <1>1, <1>2, <1>3, <1>4, PTL DEF MCSpec, OracleStands

-----------------------------------------------------------------------------
(***************************************************************************)
(* A run of an agent (module AgentRun).  Until an answer is sent back, the *)
(* failures are the models that precede the one that is asked.             *)
(***************************************************************************)
RunInv ==
    /\ chain \in Seq(Local \union Hosted) /\ at \in DOMAIN chain
    /\ asked \in Nat /\ (phase = "new" => asked = 0)
    /\ phase \in {"asking", "answered"} => asked >= 1
    /\ phase \in {"new", "asking"} /\ asked <= 1 => failed = SubSeq(chain, 1, at - 1)
    /\ phase = "answered" /\ asked = 1 => /\ failed = SubSeq(chain, 1, at - 1)
                                          /\ priced = chain[at]

LEMMA BeforeFirst == ASSUME NEW S, NEW c \in Seq(S) PROVE SubSeq(c, 1, 0) = <<>>
  BY SubSeqEmpty

\* The models before the one asked, and how many they are.
LEMMA Preceding ==
    ASSUME NEW S, NEW c \in Seq(S), NEW n \in DOMAIN c
    PROVE  /\ Len(SubSeq(c, 1, n - 1)) = n - 1
           /\ Append(SubSeq(c, 1, n - 1), c[n]) = SubSeq(c, 1, n)
  <1>1. n \in 1 .. Len(c) /\ Len(c) \in Nat
    OBVIOUS
  <1>2. Len(SubSeq(c, 1, n - 1)) = n - 1
    BY <1>1, SubSeqProperties
  <1>3. SubSeq(c, 1, n) = Append(SubSeq(c, 1, n - 1), c[n])
    BY <1>1, SubSeqRecursiveSecond
  <1> QED
    BY <1>2, <1>3

LEMMA RunInitially == Run!Init => RunInv
  <1> SUFFICES ASSUME Run!Init PROVE RunInv
    OBVIOUS
  <1>1. PICK n \in 1 .. MaxChain : chain \in [1 .. n -> Local \union Hosted]
    BY DEF Run!Init, Run!Chains, Run!Models
  <1>2. MaxChain \in Nat
    BY PartsAssumption DEF Run!AgentRunAssumption
  <1>3. chain \in Seq(Local \union Hosted) /\ 1 \in DOMAIN chain
    BY <1>1, <1>2
  <1>4. SubSeq(chain, 1, 1 - 1) = <<>>
    BY <1>3, BeforeFirst
  <1> QED
    BY <1>3, <1>4 DEF Run!Init, RunInv

LEMMA NextKeepsRun == RunInv /\ [Run!Next]_run => RunInv'
  <1> SUFFICES ASSUME RunInv, [Run!Next]_run PROVE RunInv'
    OBVIOUS
  <1>1. CASE Run!Ask
    BY <1>1 DEF Run!Ask, RunInv
  <1>2. CASE Run!Fall
    <2>1. /\ phase = "asking" /\ failed' = Append(failed, chain[at])
          /\ UNCHANGED <<chain, confined, asked, priced>>
          /\ IF at = Len(chain) THEN phase' = "every model failed" /\ at' = at
                                ELSE phase' = phase /\ at' = at + 1
      BY <1>2 DEF Run!Fall, Run!Failed
    <2>2. asked <= 1 => failed' = SubSeq(chain, 1, at)
      BY <2>1, Preceding DEF RunInv
    <2>3. at \in 1 .. Len(chain) /\ Len(chain) \in Nat
      BY DEF RunInv
    <2>4. CASE at = Len(chain)
      BY <2>1, <2>4 DEF RunInv
    <2>5. CASE at # Len(chain)
      <3> \A n \in Nat : \A k \in 1 .. n : k # n => k + 1 \in 1 .. n /\ (k + 1) - 1 = k
        OBVIOUS
      <3>1. at' = at + 1 /\ at' \in 1 .. Len(chain) /\ at' - 1 = at
        BY <2>1, <2>3, <2>5, Zenon
      <3>2. DOMAIN chain = 1 .. Len(chain) /\ chain' = chain
        <4>1. chain \in Seq(Local \union Hosted)
          BY DEF RunInv
        <4> QED
          BY <2>1, <4>1, LenProperties
      <3>3. at' \in DOMAIN chain'
        BY <3>1, <3>2, Zenon
      <3> QED
        BY <2>1, <2>2, <2>5, <3>1, <3>3 DEF RunInv
    <2> QED
      BY <2>4, <2>5
  <1>3. CASE Run!SendBack
    BY <1>3 DEF Run!SendBack, RunInv
  <1>4. CASE Run!Answer
    <2>1. /\ phase = "asking" /\ phase' = "answered" /\ priced' = Run!Priced
          /\ UNCHANGED <<chain, confined, at, asked, failed>>
      BY <1>4 DEF Run!Answer
    <2>2. asked = 1 => Len(failed) = at - 1
      BY <2>1, Preceding DEF RunInv
    <2>3. at \in 1 .. Len(chain) /\ Len(chain) \in Nat
      BY DEF RunInv
    <2>4. asked = 1 => Run!Priced = chain[at]
      BY <2>2, <2>3 DEF Run!Priced
    <2> QED
      BY <2>1, <2>4 DEF RunInv
  <1>5. CASE UNCHANGED run
    BY <1>5 DEF run, RunInv
  <1> QED
    BY <1>1, <1>2, <1>3, <1>4, <1>5 DEF Run!Next

\* Of a run whose first request is answered, the price is that of the model that answered,
\* and the failures are the models before it (agents/llm.py).
THEOREM AnsweredIsPriced == MCSpec => []FirstRequestIsPriced
  <1> DEFINE AgentInv == part = "run" => RunInv
  <1>1. MCInit => AgentInv
    BY RunInitially DEF MCInit
  <1>2. AgentInv /\ [MCNext]_<<part, vars, compilation, run, audit, events>> => AgentInv'
    BY NextKeepsRun DEF MCNext
  <1>3. AgentInv => FirstRequestIsPriced
    BY DEF RunInv, FirstRequestIsPriced, Run!FirstRequestIsPriced
  <1> QED
    BY <1>1, <1>2, <1>3, PTL DEF MCSpec

-----------------------------------------------------------------------------
(***************************************************************************)
(* The audit trail (module Events).  A step that is open in the context of *)
(* another has it open above it, so when the outermost ends the whole      *)
(* context has ended, and its rows are written in one insert or none is.   *)
(***************************************************************************)
Steps == 1 .. MaxSpans

Begun(s) == span[s].state \in {"open", "ended", "point"}

WellBegun(s) ==
    Begun(s) =>
        /\ \A t \in 1 .. s - 1 : Begun(t)
        /\ span[s].parent \in Steps => span[s].parent < s
        /\ span[s].top \in Steps
        /\ span[span[s].top].top = span[s].top
        /\ span[span[s].top].state \in {"open", "ended"}

\* What is open is open below its context, down to the outermost step of it.
HeldOpen(s) ==
    span[s].state = "open" /\ span[s].top # s =>
        /\ span[s].parent \in Steps
        /\ span[span[s].parent].state = "open"
        /\ span[span[s].parent].top = span[s].top

RowsKept(s) ==
    span[s].state \in {"none", "open"} =>
        rows[s] = {t \in Steps : span[t].state = "ended" /\ span[t].top = s}

OverWhenOuterEnds(s) ==
    span[s].state = "ended" => \A t \in Steps : span[t].top = s => span[t].state # "open"

Shows(s) == \E row \in table : row.span = s

ShownWithContext(s) ==
    Shows(s) /\ span[s].state = "ended" =>
        /\ span[span[s].top].state = "ended"
        /\ \A t \in Steps : span[t].top = span[s].top /\ span[t].state \in {"open", "ended"}
                               => Shows(t)

AuditTypes ==
    /\ DOMAIN span = Steps
    /\ \A s \in Steps : /\ span[s] \in [parent : Steps \union {None}, top : Steps \union {None},
                                        case : Cases \union {None},
                                        state : {"none", "open", "ended", "point"}]
                        /\ span[s].state = "none" <=> span[s] = Audit!Unstarted
    /\ DOMAIN rows = Steps
    /\ \A row \in taken : row.span \in Steps /\ span[row.span].state = "point"
    /\ \A row \in table : row.span \in Steps /\ span[row.span].state \in {"ended", "point"}

AuditInv ==
    /\ AuditTypes
    /\ \A s \in Steps : /\ WellBegun(s) /\ HeldOpen(s) /\ RowsKept(s)
                        /\ OverWhenOuterEnds(s) /\ ShownWithContext(s)

LEMMA NoneIsNoStep == MaxSpans \in Nat /\ None \notin Steps /\ None \notin Nat
  BY PartsAssumption DEF Audit!EventsAssumption, Steps

LEMMA StepsAre == Audit!Spans = Steps
  BY DEF Audit!Spans, Steps

LEMMA AuditInitially == Audit!Init => AuditInv
  <1> SUFFICES ASSUME Audit!Init PROVE AuditInv
    OBVIOUS
  <1>1. \A s \in Steps : span[s] = Audit!Unstarted /\ rows[s] = {}
    BY StepsAre DEF Audit!Init
  <1>2. Audit!Unstarted.state = "none" /\ Audit!Unstarted.top = None
    BY DEF Audit!Unstarted
  <1>3. AuditTypes
    BY <1>1, StepsAre DEF Audit!Init, AuditTypes, Audit!Unstarted
  <1>4. \A s \in Steps : span[s].state = "none"
    BY <1>1, <1>2
  <1>5. \A s \in Steps : RowsKept(s)
    BY <1>1, <1>4 DEF RowsKept
  <1> QED
    BY <1>3, <1>4, <1>5 DEF AuditInv, WellBegun, HeldOpen, OverWhenOuterEnds, ShownWithContext, Begun

\* A step, or a point, begins: on its own, or in the context of a step that is open.
LEMMA BeginKeepsAudit ==
    ASSUME AuditInv, NEW s \in Steps, span[s] = Audit!Unstarted,
           \A t \in 1 .. s - 1 : span[t] # Audit!Unstarted,
           NEW above \in Steps \union {None}, NEW outer \in Steps, NEW about \in Cases \union {None},
           NEW kind \in {"open", "point"},
           Audit!Begin(s, above, outer, about, kind),
           above \in Steps => Begun(above),
           \/ outer = s /\ kind = "open"
           \/ above \in Steps /\ span[above].state = "open" /\ outer = span[above].top,
           UNCHANGED <<rows, table>>,
           \A row \in taken' : row \in taken \/ (row.span = s /\ kind = "point")
    PROVE  AuditInv'
  <1>1. /\ DOMAIN span' = Steps
        /\ span'[s] = [parent |-> above, top |-> outer, case |-> about, state |-> kind]
        /\ \A t \in Steps : t # s => span'[t] = span[t]
    BY DEF Audit!Begin, AuditInv, AuditTypes
  <1>2. /\ span'[s].parent = above /\ span'[s].top = outer /\ span'[s].state = kind
        /\ span'[s] # Audit!Unstarted
    BY <1>1 DEF Audit!Unstarted
  <1>3. span[s].state = "none"
    BY DEF Audit!Unstarted
  <1>4. \A t \in Steps : /\ span[t] = Audit!Unstarted <=> span[t].state = "none"
                         /\ Begun(t) <=> span[t].state # "none"
    BY DEF AuditInv, AuditTypes, Begun
  <1>5. \A t \in Steps : Begun(t) => t # s /\ (t < s)
    <2> SUFFICES ASSUME NEW t \in Steps, Begun(t), ~ (t < s) PROVE FALSE
      BY <1>3, <1>4
    <2>1. t # s
      BY <1>3, <1>4
    <2>2. s \in 1 .. t - 1
      BY <2>1, NoneIsNoStep DEF Steps
    <2> QED
      BY <1>3, <1>4, <2>2 DEF AuditInv, WellBegun
  <1>6. \A t \in Steps : Begun(t) => span[t].top \in Steps /\ Begun(span[t].top) /\ span[t].top # s
    BY <1>3, <1>4 DEF AuditInv, WellBegun, Begun
  <1>7. \A t \in 1 .. s - 1 : t \in Steps
    BY NoneIsNoStep DEF Steps
  <1>8. outer # s => /\ above \in Steps /\ span[above].state = "open" /\ outer = span[above].top
                     /\ above # s /\ span[outer].top = outer /\ span[outer].state \in {"open", "ended"}
    BY <1>3, <1>4 DEF AuditInv, WellBegun
  <1>9. AuditTypes'
    <2>1. \A t \in Steps : /\ span'[t] \in [parent : Steps \union {None}, top : Steps \union {None},
                                            case : Cases \union {None},
                                            state : {"none", "open", "ended", "point"}]
                           /\ span'[t].state = "none" <=> span'[t] = Audit!Unstarted
      BY <1>1, <1>2 DEF AuditInv, AuditTypes
    <2>2. \A row \in taken' : row.span \in Steps /\ span'[row.span].state = "point"
      BY <1>1, <1>2, <1>3 DEF AuditInv, AuditTypes
    <2>3. \A row \in table' : row.span \in Steps /\ span'[row.span].state \in {"ended", "point"}
      BY <1>1, <1>3 DEF AuditInv, AuditTypes
    <2> QED
      BY <1>1, <2>1, <2>2, <2>3 DEF AuditTypes, AuditInv
  <1>10. ASSUME NEW t \in Steps PROVE WellBegun(t)'
    <2>1. CASE t = s
      <3>1. \A u \in 1 .. s - 1 : Begun(u)'
        BY <1>1, <1>4, <1>5, <1>7 DEF Begun
      <3>2. above \in Steps => above < s
        BY <1>5
      <3>3. span'[outer].top = outer /\ span'[outer].state \in {"open", "ended"}
        <4>1. CASE outer = s
          BY <1>2, <1>6, <4>1
        <4>2. CASE outer # s
          BY <1>1, <1>8, <4>2
        <4> QED
          BY <4>1, <4>2
      <3> QED
        BY <1>2, <2>1, <3>1, <3>2, <3>3 DEF WellBegun
    <2>2. CASE t # s
      <3>1. SUFFICES ASSUME Begun(t)
                     PROVE  /\ \A u \in 1 .. t - 1 : Begun(u)'
                            /\ span[t].parent \in Steps => span[t].parent < t
                            /\ span[t].top \in Steps
                            /\ span'[span[t].top].top = span[t].top
                            /\ span'[span[t].top].state \in {"open", "ended"}
        BY <1>1, <2>2 DEF WellBegun, Begun
      <3>2. \A u \in 1 .. t - 1 : Begun(u)'
        <4>1. \A u \in 1 .. t - 1 : u \in Steps /\ Begun(u)
          BY <3>1, NoneIsNoStep DEF AuditInv, WellBegun, Steps
        <4> QED
          BY <1>1, <1>3, <1>4, <4>1 DEF Begun
      <3> QED
        BY <1>1, <1>6, <3>1, <3>2 DEF AuditInv, WellBegun
    <2> QED
      BY <2>1, <2>2
  <1>11. ASSUME NEW t \in Steps PROVE HeldOpen(t)'
    <2>1. CASE t = s
      BY <1>1, <1>2, <1>8, <2>1 DEF HeldOpen
    <2>2. CASE t # s
      BY <1>1, <1>3, <2>2 DEF HeldOpen, AuditInv
    <2> QED
      BY <2>1, <2>2
  <1>12. ASSUME NEW t \in Steps PROVE RowsKept(t)'
    <2>1. {u \in Steps : span'[u].state = "ended" /\ span'[u].top = t}
             = {u \in Steps : span[u].state = "ended" /\ span[u].top = t}
      BY <1>1, <1>2, <1>3
    <2>2. span'[t].state \in {"none", "open"} => span[t].state \in {"none", "open"}
      BY <1>1, <1>3
    <2> QED
      BY <2>1, <2>2 DEF RowsKept, AuditInv
  <1>13. ASSUME NEW t \in Steps PROVE OverWhenOuterEnds(t)'
    <2> SUFFICES ASSUME span'[t].state = "ended", NEW u \in Steps, span'[u].top = t,
                        span'[u].state = "open"
                 PROVE  FALSE
      BY DEF OverWhenOuterEnds
    <2>1. t # s /\ span[t].state = "ended"
      BY <1>1, <1>2
    <2>2. CASE u = s
      BY <1>2, <1>8, <2>1, <2>2 DEF AuditInv, OverWhenOuterEnds
    <2>3. CASE u # s
      BY <1>1, <2>1, <2>3 DEF AuditInv, OverWhenOuterEnds
    <2> QED
      BY <2>2, <2>3
  <1>14. ASSUME NEW t \in Steps PROVE ShownWithContext(t)'
    <2>1. \A u : Shows(u)' <=> Shows(u)
      BY DEF Shows
    <2> SUFFICES ASSUME Shows(t), span'[t].state = "ended"
                 PROVE  /\ span'[span'[t].top].state = "ended"
                        /\ \A u \in Steps : span'[u].top = span'[t].top
                              /\ span'[u].state \in {"open", "ended"} => Shows(u)
      BY <2>1 DEF ShownWithContext
    <2>2. t # s /\ span'[t] = span[t] /\ Begun(t)
      BY <1>1, <1>2 DEF Begun
    <2>3. /\ span[span[t].top].state = "ended" /\ span[t].top \in Steps /\ span[t].top # s
          /\ \A u \in Steps : span[u].top = span[t].top /\ span[u].state \in {"open", "ended"}
                                 => Shows(u)
      BY <1>6, <2>2 DEF AuditInv, ShownWithContext
    <2>4. span'[s].top # span[t].top
      BY <1>2, <1>8, <2>3 DEF AuditInv, OverWhenOuterEnds
    <2> QED
      BY <1>1, <2>2, <2>3, <2>4
  <1> QED
    BY <1>9, <1>10, <1>11, <1>12, <1>13, <1>14 DEF AuditInv

\* A step ends while those above it in its context are open.
LEMMA EndKeepsSpans ==
    ASSUME AuditInv, NEW s \in Steps, Audit!Open(s), Audit!Awaited(s),
           span' = [span EXCEPT ![s].state = "ended"]
    PROVE  /\ DOMAIN span' = Steps
           /\ span'[s].state = "ended" /\ span'[s].top = span[s].top /\ span'[s].parent = span[s].parent
           /\ \A t \in Steps : t # s => span'[t] = span[t]
           /\ \A t \in Steps : Begun(t)' <=> Begun(t)
           /\ \A t \in Steps : /\ span'[t] \in [parent : Steps \union {None}, top : Steps \union {None},
                                                case : Cases \union {None},
                                                state : {"none", "open", "ended", "point"}]
                               /\ span'[t].state = "none" <=> span'[t] = Audit!Unstarted
           /\ \A t \in Steps : WellBegun(t)' /\ HeldOpen(t)'
  <1>1. /\ DOMAIN span' = Steps
        /\ span'[s] = [span[s] EXCEPT !.state = "ended"]
        /\ \A t \in Steps : t # s => span'[t] = span[t]
    BY DEF AuditInv, AuditTypes
  <1>2. span[s] \in [parent : Steps \union {None}, top : Steps \union {None},
                     case : Cases \union {None}, state : {"none", "open", "ended", "point"}]
    BY DEF AuditInv, AuditTypes
  <1>3. /\ span'[s].state = "ended" /\ span'[s].top = span[s].top
        /\ span'[s].parent = span[s].parent
        /\ span'[s] \in [parent : Steps \union {None}, top : Steps \union {None},
                         case : Cases \union {None}, state : {"none", "open", "ended", "point"}]
    BY <1>1, <1>2
  <1>4. \A t \in Steps : Begun(t)' <=> Begun(t)
    BY <1>1, <1>3 DEF Begun, Audit!Open
  <1>5. span[s].state = "open"
    BY DEF Audit!Open
  <1>6. ASSUME NEW t \in Steps PROVE WellBegun(t)'
    <2>1. \A u \in 1 .. t - 1 : u \in Steps
      BY NoneIsNoStep DEF Steps
    <2>2. WellBegun(t)
      BY DEF AuditInv
    <2>3. span'[t].top = span[t].top /\ span'[t].parent = span[t].parent
      BY <1>1, <1>3
    <2>4. Begun(t) => /\ span'[span[t].top].top = span[t].top
                      /\ span'[span[t].top].state \in {"open", "ended"}
      BY <1>1, <1>3, <2>2 DEF WellBegun
    <2> QED
      BY <1>4, <2>1, <2>2, <2>3, <2>4 DEF WellBegun
  <1>7. ASSUME NEW t \in Steps PROVE HeldOpen(t)'
    <2> SUFFICES ASSUME span'[t].state = "open", span'[t].top # t
                 PROVE  /\ span'[t].parent \in Steps
                        /\ span'[span'[t].parent].state = "open"
                        /\ span'[span'[t].parent].top = span'[t].top
      BY DEF HeldOpen
    <2>1. t # s /\ span'[t] = span[t]
      BY <1>1, <1>3
    <2>2. /\ span[t].parent \in Steps /\ span[span[t].parent].state = "open"
          /\ span[span[t].parent].top = span[t].top
      BY <2>1 DEF AuditInv, HeldOpen
    <2>3. span[t].parent # s
      BY <2>1, StepsAre DEF Audit!Awaited, Audit!Open
    <2> QED
      BY <1>1, <2>1, <2>2, <2>3
  <1>8. span'[s].state = "none" <=> span'[s] = Audit!Unstarted
    BY <1>3 DEF Audit!Unstarted
  <1> QED
    BY <1>1, <1>3, <1>4, <1>6, <1>7, <1>8 DEF AuditInv, AuditTypes

LEMMA EndInnerKeepsAudit ==
    ASSUME AuditInv, NEW s \in Steps, Audit!EndInner(s) PROVE AuditInv'
  <1>1. /\ Audit!Open(s) /\ Audit!Awaited(s) /\ span[s].top # s
        /\ span' = [span EXCEPT ![s].state = "ended"]
        /\ rows' = [rows EXCEPT ![span[s].top] = rows[span[s].top] \union {s}]
        /\ taken' = taken /\ table' = table
    BY DEF Audit!EndInner, Audit!Outermost
  <1>2. /\ DOMAIN span' = Steps
        /\ span'[s].state = "ended" /\ span'[s].top = span[s].top
        /\ \A t \in Steps : t # s => span'[t] = span[t]
        /\ \A t \in Steps : Begun(t)' <=> Begun(t)
        /\ \A t \in Steps : /\ span'[t] \in [parent : Steps \union {None}, top : Steps \union {None},
                                                case : Cases \union {None},
                                                state : {"none", "open", "ended", "point"}]
                            /\ span'[t].state = "none" <=> span'[t] = Audit!Unstarted
        /\ \A t \in Steps : WellBegun(t)' /\ HeldOpen(t)'
    BY <1>1, EndKeepsSpans, Zenon
  <1>3. span[s].state = "open" /\ span[s].top \in Steps /\ Begun(s)
        /\ span[span[s].top].top = span[s].top
    BY <1>1 DEF Audit!Open, AuditInv, WellBegun, Begun
  <1>4. /\ DOMAIN rows' = Steps
        /\ rows'[span[s].top] = rows[span[s].top] \union {s}
        /\ \A t \in Steps : t # span[s].top => rows'[t] = rows[t]
    BY <1>1, <1>3 DEF AuditInv, AuditTypes
  <1>5. AuditTypes'
    BY <1>1, <1>2, <1>3, <1>4 DEF AuditTypes, AuditInv
  <1>6. ASSUME NEW t \in Steps PROVE RowsKept(t)'
    <2> SUFFICES ASSUME span'[t].state \in {"none", "open"}
                 PROVE  rows'[t] = {u \in Steps : span'[u].state = "ended" /\ span'[u].top = t}
      BY DEF RowsKept
    <2>1. t # s /\ rows[t] = {u \in Steps : span[u].state = "ended" /\ span[u].top = t}
      BY <1>2 DEF AuditInv, RowsKept
    <2>2. CASE t = span[s].top
      BY <1>2, <1>3, <1>4, <2>1, <2>2
    <2>3. CASE t # span[s].top
      BY <1>2, <1>3, <1>4, <2>1, <2>3
    <2> QED
      BY <2>2, <2>3
  <1>7. ASSUME NEW t \in Steps PROVE OverWhenOuterEnds(t)'
    <2>1. CASE t = s
      <3>1. \A u \in Steps : span[u].top = s => ~Begun(u)
        BY <1>1 DEF AuditInv, WellBegun
      <3> QED
        BY <1>1, <1>2, <2>1, <3>1 DEF OverWhenOuterEnds, Begun
    <2>2. CASE t # s
      BY <1>2, <2>2 DEF AuditInv, OverWhenOuterEnds
    <2> QED
      BY <2>1, <2>2
  <1>8. ASSUME NEW t \in Steps PROVE ShownWithContext(t)'
    <2>1. \A u : Shows(u)' <=> Shows(u)
      BY <1>1 DEF Shows
    <2>2. ~Shows(s)
      BY <1>3 DEF Shows, AuditInv, AuditTypes
    <2> SUFFICES ASSUME Shows(t), span'[t].state = "ended"
                 PROVE  /\ span'[span'[t].top].state = "ended"
                        /\ \A u \in Steps : span'[u].top = span'[t].top
                              /\ span'[u].state \in {"open", "ended"} => Shows(u)
      BY <2>1 DEF ShownWithContext
    <2>3. t # s /\ span'[t] = span[t] /\ Begun(t)
      BY <1>2, <2>2 DEF Begun
    <2>4. /\ span[span[t].top].state = "ended" /\ span[t].top \in Steps
          /\ \A u \in Steps : span[u].top = span[t].top /\ span[u].state \in {"open", "ended"}
                                 => Shows(u)
      BY <2>3 DEF AuditInv, ShownWithContext, WellBegun
    <2> QED
      BY <1>2, <1>3, <2>2, <2>3, <2>4
  <1> QED
    BY <1>2, <1>5, <1>6, <1>7, <1>8 DEF AuditInv

\* Whose outermost step ends has nothing open left in its context: what is open there is
\* open below a step of it that began earlier, and below the outermost nothing is.
LEMMA ContextHasEnded ==
    ASSUME AuditInv, NEW s \in Steps, Audit!Awaited(s), span[s].top = s,
           NEW t \in Steps, t # s, span[t].top = s
    PROVE  span[t].state # "open"
  <1> DEFINE Left == {u \in Steps : u # s /\ span[u].top = s /\ span[u].state = "open"}
  <1> SUFFICES ASSUME Left # {} PROVE FALSE
    OBVIOUS
  <1>1. PICK u \in Left : \A v \in Left : ~ (v < u)
    <2>1. Left \subseteq Nat
      BY NoneIsNoStep DEF Steps
    <2> HIDE DEF Left
    <2>2. PICK u \in Left : \A v \in Left : ~ (<<v, u>> \in OpToRel(<, Nat))
      BY <2>1, NatLessThanWellFounded, WFMin
    <2>3. \A v \in Left : ~ (v < u)
      BY <2>1, <2>2 DEF OpToRel
    <2> QED
      BY <2>3
  <1>2. /\ span[u].parent \in Steps /\ span[span[u].parent].state = "open"
        /\ span[span[u].parent].top = s /\ span[u].parent < u
    BY DEF AuditInv, HeldOpen, WellBegun, Begun
  <1>3. span[u].parent # s
    BY StepsAre DEF Audit!Awaited, Audit!Open
  <1> QED
    BY <1>1, <1>2, <1>3

\* One insert has each row of the batch.
LEMMA InsertedAre ==
    ASSUME NEW batch \in SUBSET Steps, NEW order \in Audit!SetToSeqs(batch)
    PROVE  /\ \A row \in Audit!Inserted(order) : row.span \in batch
           /\ \A u \in batch : \E row \in Audit!Inserted(order) : row.span = u
  <1>1. IsFiniteSet(batch)
    <2>1. IsFiniteSet(1 .. MaxSpans)
      BY NoneIsNoStep, FS_Interval
    <2> QED
      BY <2>1, FS_Subset DEF Steps
  <1>2. Audit!Cardinality(batch) = Cardinality(batch)
    BY DEF Cardinality, Audit!Cardinality
  <1>3. /\ order \in [1 .. Cardinality(batch) -> batch]
        /\ \A i, j \in 1 .. Cardinality(batch) : i # j => order[i] # order[j]
    BY <1>2 DEF Audit!SetToSeqs
  <1>4. order \in Injection(1 .. Cardinality(batch), batch)
    BY <1>3 DEF Injection, IsInjective
  <1>5. Cardinality(batch) \in Nat /\ Cardinality(1 .. Cardinality(batch)) = Cardinality(batch)
    <2>1. Cardinality(batch) \in Nat
      BY <1>1, FS_CardinalityType
    <2>2. \A n \in Nat : Cardinality(1 .. n) = n
      <3>1. \A n \in Nat : Cardinality(1 .. n) = IF 1 > n THEN 0 ELSE n - 1 + 1
        BY FS_Interval
      <3> QED
        BY <3>1
    <2> QED
      BY <2>1, <2>2
  <1>6. order \in Surjection(1 .. Cardinality(batch), batch)
    BY <1>1, <1>4, <1>5, FS_Injection
  <1>7. \A u \in batch : \E i \in DOMAIN order : order[i] = u
    BY <1>3, <1>6 DEF Surjection
  <1>8. ASSUME NEW u \in batch PROVE \E row \in Audit!Inserted(order) : row.span = u
    <2>1. PICK i \in DOMAIN order : order[i] = u
      BY <1>7
    <2>2. [id |-> nextId + i - 1, span |-> order[i]] \in Audit!Inserted(order)
      BY DEF Audit!Inserted
    <2> QED
      BY <2>1, <2>2
  <1>9. ASSUME NEW row \in Audit!Inserted(order) PROVE row.span \in batch
    BY <1>3 DEF Audit!Inserted
  <1> QED
    BY <1>8, <1>9

LEMMA EndOutermostKeepsAudit ==
    ASSUME AuditInv, NEW s \in Steps, Audit!EndOutermost(s) PROVE AuditInv'
  <1> DEFINE batch == rows[s] \union {s}
  <1>1. /\ Audit!Open(s) /\ Audit!Awaited(s) /\ span[s].top = s
        /\ span' = [span EXCEPT ![s].state = "ended"]
        /\ rows' = [rows EXCEPT ![s] = {}]
        /\ taken' = taken
        /\ \/ table' = table
           \/ \E order \in Audit!SetToSeqs(batch) : table' = table \union Audit!Inserted(order)
    BY DEF Audit!EndOutermost, Audit!Outermost
  <1>2. /\ DOMAIN span' = Steps
        /\ span'[s].state = "ended" /\ span'[s].top = span[s].top
        /\ \A t \in Steps : t # s => span'[t] = span[t]
        /\ \A t \in Steps : Begun(t)' <=> Begun(t)
        /\ \A t \in Steps : /\ span'[t] \in [parent : Steps \union {None}, top : Steps \union {None},
                                                case : Cases \union {None},
                                                state : {"none", "open", "ended", "point"}]
                            /\ span'[t].state = "none" <=> span'[t] = Audit!Unstarted
        /\ \A t \in Steps : WellBegun(t)' /\ HeldOpen(t)'
    BY <1>1, EndKeepsSpans, Zenon
  <1>3. span[s].state = "open"
    BY <1>1 DEF Audit!Open
  <1>4. rows[s] = {t \in Steps : span[t].state = "ended" /\ span[t].top = s}
    BY <1>3 DEF AuditInv, RowsKept
  <1>5. batch \in SUBSET Steps /\ \A t \in batch : span'[t].state = "ended" /\ span'[t].top = s
    BY <1>1, <1>2, <1>4
  <1>6. \A t \in Steps : span[t].top = s /\ span[t].state \in {"open", "ended"} => t \in batch
    BY <1>1, <1>4, ContextHasEnded
  <1>7. /\ \A row \in table' : row \in table \/ row.span \in batch
        /\ \A row \in table : row \in table'
        /\ \/ table' = table
           \/ \A t \in batch : Shows(t)'
    <2>1. CASE table' = table
      BY <2>1
    <2>2. ASSUME NEW order \in Audit!SetToSeqs(batch), table' = table \union Audit!Inserted(order)
          PROVE  /\ \A row \in table' : row \in table \/ row.span \in batch
                 /\ \A row \in table : row \in table'
                 /\ \A t \in batch : Shows(t)'
      <3> HIDE DEF batch
      <3> QED
        BY <1>5, <2>2, InsertedAre DEF Shows
    <2> QED
      BY <1>1, <2>1, <2>2
  <1>8. /\ DOMAIN rows' = Steps
        /\ \A t \in Steps : t # s => rows'[t] = rows[t]
    BY <1>1 DEF AuditInv, AuditTypes
  <1> HIDE DEF batch
  <1>9. AuditTypes'
    <2>1. \A row \in taken' : row.span \in Steps /\ span'[row.span].state = "point"
      BY <1>1, <1>2, <1>3 DEF AuditTypes, AuditInv
    <2>2. \A row \in table' : row.span \in Steps /\ span'[row.span].state \in {"ended", "point"}
      BY <1>2, <1>3, <1>5, <1>7 DEF AuditTypes, AuditInv
    <2> QED
      BY <1>2, <1>8, <2>1, <2>2 DEF AuditTypes
  <1>10. ASSUME NEW t \in Steps PROVE RowsKept(t)'
    <2> SUFFICES ASSUME span'[t].state \in {"none", "open"}
                 PROVE  rows'[t] = {u \in Steps : span'[u].state = "ended" /\ span'[u].top = t}
      BY DEF RowsKept
    <2>1. t # s /\ rows'[t] = {u \in Steps : span[u].state = "ended" /\ span[u].top = t}
      BY <1>2, <1>8 DEF AuditInv, RowsKept
    <2> QED
      BY <1>1, <1>2, <1>3, <2>1
  <1>11. ASSUME NEW t \in Steps PROVE OverWhenOuterEnds(t)'
    <2>1. CASE t = s
      <3>1. \A u \in Steps : span[u].top = s /\ span[u].state = "open" => u = s
        BY <1>1, ContextHasEnded
      <3> QED
        BY <1>1, <1>2, <2>1, <3>1 DEF OverWhenOuterEnds
    <2>2. CASE t # s
      BY <1>2, <2>2 DEF AuditInv, OverWhenOuterEnds
    <2> QED
      BY <2>1, <2>2
  <1>12. ASSUME NEW t \in Steps PROVE ShownWithContext(t)'
    <2> SUFFICES ASSUME Shows(t)', span'[t].state = "ended"
                 PROVE  /\ span'[span'[t].top].state = "ended"
                        /\ \A u \in Steps : span'[u].top = span'[t].top
                              /\ span'[u].state \in {"open", "ended"} => Shows(u)'
      BY DEF ShownWithContext
    <2>1. \A u : Shows(u) => Shows(u)'
      BY <1>7 DEF Shows
    <2>2. \A u \in Steps : span'[u].top = span[u].top
      BY <1>2
    <2>3. CASE Shows(t)
      <3>1. t # s /\ span'[t] = span[t] /\ Begun(t)
        BY <1>2, <1>3, <2>3 DEF Begun, Shows, AuditInv, AuditTypes
      <3>2. /\ span[span[t].top].state = "ended" /\ span[t].top \in Steps
            /\ \A u \in Steps : span[u].top = span[t].top /\ span[u].state \in {"open", "ended"}
                                   => Shows(u)
        BY <2>3, <3>1 DEF AuditInv, ShownWithContext, WellBegun
      <3>3. span[t].top # s
        BY <1>3, <3>2
      <3> QED
        BY <1>1, <1>2, <2>1, <3>1, <3>2, <3>3
    <2>4. CASE ~Shows(t)
      <3>1. t \in batch /\ \A u \in batch : Shows(u)'
        BY <1>7, <2>4 DEF Shows
      <3>2. span'[t].top = s
        BY <1>5, <3>1
      <3>3. ASSUME NEW u \in Steps, span'[u].top = s, span'[u].state \in {"open", "ended"}
            PROVE  Shows(u)'
        BY <1>1, <1>2, <1>3, <1>6, <2>2, <3>1, <3>3
      <3> QED
        BY <1>2, <3>2, <3>3
    <2> QED
      BY <2>3, <2>4
  <1> QED
    BY <1>2, <1>9, <1>10, <1>11, <1>12 DEF AuditInv

\* What moves no step and no row of the table, but for a point that is committed.
LEMMA QuietKeepsAudit ==
    ASSUME AuditInv, UNCHANGED <<span, rows>>, taken' \subseteq taken,
           \A row \in table' : row \in table \/ row \in taken, \A row \in table : row \in table'
    PROVE  AuditInv'
  <1>1. AuditTypes'
    BY DEF AuditInv, AuditTypes
  <1>2. \A s \in Steps : /\ WellBegun(s)' /\ HeldOpen(s)' /\ RowsKept(s)'
                         /\ OverWhenOuterEnds(s)'
    BY DEF AuditInv, WellBegun, HeldOpen, RowsKept, OverWhenOuterEnds, Begun
  <1>3. ASSUME NEW s \in Steps PROVE ShownWithContext(s)'
    <2>1. \A u : Shows(u) => Shows(u)'
      BY DEF Shows
    <2>2. Shows(s)' /\ span[s].state = "ended" => Shows(s)
      BY DEF Shows, AuditInv, AuditTypes
    <2> QED
      BY <2>1, <2>2 DEF AuditInv, ShownWithContext
  <1> QED
    BY <1>1, <1>2, <1>3 DEF AuditInv

LEMMA NextKeepsAudit == AuditInv /\ [Audit!Next]_audit => AuditInv'
  <1> SUFFICES ASSUME AuditInv, [Audit!Next]_audit PROVE AuditInv'
    OBVIOUS
  <1>1. ASSUME NEW s \in Steps, Audit!StartTrace(s) PROVE AuditInv'
    <2>1. /\ s = 1 /\ span[s] = Audit!Unstarted /\ Audit!Begin(s, None, s, None, "open")
          /\ UNCHANGED <<rows, taken, table>>
      BY <1>1 DEF Audit!StartTrace, Audit!New
    <2>2. \A t \in 1 .. s - 1 : FALSE
      BY <2>1
    <2> QED
      BY <2>1, <2>2, NoneIsNoStep, BeginKeepsAudit
  <1>2. ASSUME NEW s \in Steps, Audit!Fresh(s)
        PROVE  span[s] = Audit!Unstarted /\ \A t \in 1 .. s - 1 : span[t] # Audit!Unstarted
    BY <1>2 DEF Audit!Fresh, Audit!New
  <1>3. ASSUME NEW s \in Steps, NEW p \in Steps, Audit!StartChild(s, p) PROVE AuditInv'
    <2>1. PICK about \in Cases \union {None} : Audit!Begin(s, p, span[p].top, about, "open")
      BY <1>3 DEF Audit!StartChild
    <2>2. Audit!Fresh(s) /\ span[p].state = "open" /\ Begun(p) /\ UNCHANGED <<rows, taken, table>>
      BY <1>3 DEF Audit!StartChild, Audit!Open, Begun
    <2>3. span[p].top \in Steps
      BY <2>2 DEF AuditInv, WellBegun
    <2> QED
      BY <1>2, <2>1, <2>2, <2>3, BeginKeepsAudit
  <1>4. ASSUME NEW s \in Steps, NEW p \in Steps, Audit!StartJob(s, p) PROVE AuditInv'
    <2>1. /\ Audit!Fresh(s) /\ Begun(p) /\ Audit!Begin(s, p, s, None, "open")
          /\ UNCHANGED <<rows, taken, table>>
      BY <1>4 DEF Audit!StartJob, Begun
    <2> QED
      BY <1>2, <2>1, BeginKeepsAudit
  <1>5. ASSUME NEW s \in Steps, NEW p \in Steps, Audit!Record(s, p) PROVE AuditInv'
    <2>1. PICK about \in Cases : Audit!Begin(s, p, span[p].top, about, "point")
      BY <1>5 DEF Audit!Record
    <2>2. /\ Audit!Fresh(s) /\ span[p].state = "open" /\ Begun(p) /\ UNCHANGED <<rows, table>>
          /\ \A row \in taken' : row \in taken \/ row.span = s
      BY <1>5 DEF Audit!Record, Audit!Open, Begun
    <2>3. span[p].top \in Steps
      BY <2>2 DEF AuditInv, WellBegun
    <2> QED
      BY <1>2, <2>1, <2>2, <2>3, BeginKeepsAudit
  <1>6. ASSUME NEW row \in taken, Audit!Commit(row) \/ Audit!Rollback(row) PROVE AuditInv'
    BY <1>6, QuietKeepsAudit DEF Audit!Commit, Audit!Rollback
  <1>7. CASE Audit!Unmute \/ Audit!GoDown \/ Audit!GoUp \/ Audit!Poll \/ UNCHANGED audit
    BY <1>7, QuietKeepsAudit DEF Audit!Unmute, Audit!GoDown, Audit!GoUp, Audit!Poll, audit
  <1> QED
    BY <1>1, <1>3, <1>4, <1>5, <1>6, <1>7, StepsAre, EndInnerKeepsAudit, EndOutermostKeepsAudit
    DEF Audit!Next

LEMMA ContextsWhole == AuditInv => Audit!ContextIsWhole
  <1>1. \A s : s \in Audit!Visible <=> Shows(s)
    BY DEF Audit!Visible, Shows
  <1> QED
    BY <1>1, StepsAre DEF AuditInv, ShownWithContext, Audit!ContextIsWhole

\* The least of a set of numbers.
LEMMA Least ==
    ASSUME NEW P \in SUBSET Nat, P # {}
    PROVE  \E p \in P : \A q \in P : p <= q
  <1>1. PICK p \in P : \A q \in P : ~ (<<q, p>> \in OpToRel(<, Nat))
    BY NatLessThanWellFounded, WFMin
  <1>2. \A q \in P : ~ (q < p)
    BY <1>1 DEF OpToRel
  <1> QED
    BY <1>2

\* The way up from a step is as long as there are steps above it that are shown.  It is a
\* function that is defined by recursion: up to each number of steps there is one.
LEMMA HighestIsRoot ==
    ASSUME NEW shown \in SUBSET Steps, NEW s \in shown,
           \A t \in shown : span[t].parent \in Steps => span[t].parent < t
    PROVE  Audit!Highest(s, shown) \in Audit!Roots(shown)
  <1> DEFINE Up(t) == IF span[t].parent \in shown THEN span[t].parent ELSE t
             Way(f, m) == f[0] = s /\ \A n \in 1 .. m : f[n] = Up(f[n - 1])
             Whole(f) == [n \in 0 .. MaxSpans |-> IF n = 0 THEN s
                            ELSE LET t == f[n - 1]
                                 IN  IF span[t].parent \in shown THEN span[t].parent ELSE t]
             way == CHOOSE f : f = Whole(f)
             NoWay == {m \in Nat : ~ \E f \in [0 .. m -> shown] : Way(f, m)}
             Claim(n) == /\ way[n] \in shown
                         /\ span[way[n]].parent \in shown => way[n] + n <= s
             Wrong == {n \in 0 .. MaxSpans : ~Claim(n)}
  <1> \A t \in shown : t \in Nat /\ t >= 1 /\ t <= MaxSpans
    BY NoneIsNoStep DEF Steps
  <1> \A t \in shown : span[t].parent \in shown => span[t].parent < t
    OBVIOUS
  <1>1. Audit!Highest(s, shown) = way[MaxSpans]
    BY DEF Audit!Highest
  <1>2. NoWay = {}
    <2> SUFFICES ASSUME NoWay # {} PROVE FALSE
      OBVIOUS
    <2>1. PICK m \in NoWay : \A k \in NoWay : m <= k
      <3>1. NoWay \in SUBSET Nat
        OBVIOUS
      <3> HIDE DEF NoWay
      <3> QED
        BY <3>1, Least
    <2>2. m # 0
      <3>1. [n \in 0 .. 0 |-> s] \in [0 .. 0 -> shown] /\ Way([n \in 0 .. 0 |-> s], 0)
        OBVIOUS
      <3> QED
        BY <3>1
    <2>3. m - 1 \in Nat /\ m - 1 \notin NoWay
      <3>1. m \in Nat
        OBVIOUS
      <3> HIDE DEF NoWay
      <3> QED
        BY <2>1, <2>2, <3>1
    <2>4. PICK g \in [0 .. m - 1 -> shown] : Way(g, m - 1)
      BY <2>3
    <2> DEFINE f == [n \in 0 .. m |-> IF n = m THEN Up(g[m - 1]) ELSE g[n]]
    <2>5. f \in [0 .. m -> shown]
      BY <2>3, <2>4
    <2>6. Way(f, m)
      <3>1. f[0] = s
        BY <2>2, <2>3, <2>4
      <3>2. ASSUME NEW n \in 1 .. m PROVE f[n] = Up(f[n - 1])
        <4>1. f[n - 1] = g[n - 1] /\ n - 1 \in 0 .. m - 1
          BY <2>3
        <4>2. CASE n = m
          <5>1. f[n] = Up(g[m - 1])
            <6>1. n \in 0 .. m
              BY <2>3
            <6> HIDE DEF Up
            <6> QED
              BY <4>2, <6>1
          <5> QED
            BY <4>1, <4>2, <5>1
        <4>3. CASE n # m
          <5>1. n \in 1 .. m - 1 /\ f[n] = g[n]
            BY <2>3, <4>3
          <5>2. g[n] = Up(g[n - 1])
            BY <2>4, <5>1
          <5> QED
            BY <4>1, <5>1, <5>2
        <4> QED
          BY <4>2, <4>3
      <3> QED
        BY <3>1, <3>2
    <2>7. m \notin NoWay
      <3> HIDE DEF f, Way
      <3> QED
        BY <2>5, <2>6
    <2> QED
      BY <2>7
  <1>3. PICK f \in [0 .. MaxSpans -> shown] : Way(f, MaxSpans)
    BY <1>2, NoneIsNoStep
  <1>4. f = Whole(f)
    <2>1. \A n \in 0 .. MaxSpans : Whole(f)[n] = f[n]
      <3>1. \A n \in 0 .. MaxSpans : n # 0 => n \in 1 .. MaxSpans
        BY NoneIsNoStep
      <3> QED
        BY <1>3, <3>1
    <2> QED
      BY <1>3, <2>1
  <1>5. way = Whole(way)
    <2> HIDE DEF Whole
    <2> QED
      BY <1>4
  <1> HIDE DEF way
  <1>6. way[0] = s /\ \A n \in 1 .. MaxSpans : way[n] = Up(way[n - 1])
    <2>1. \A n \in 0 .. MaxSpans : Whole(way)[n] = IF n = 0 THEN s ELSE Up(way[n - 1])
      OBVIOUS
    <2>2. 0 \in 0 .. MaxSpans /\ \A n \in 1 .. MaxSpans : n \in 0 .. MaxSpans /\ n # 0
      BY NoneIsNoStep
    <2> HIDE DEF Whole, Up
    <2> QED
      BY <1>5, <2>1, <2>2
  <1>7. Wrong = {}
    <2> SUFFICES ASSUME Wrong # {} PROVE FALSE
      OBVIOUS
    <2>1. PICK n \in Wrong : \A k \in Wrong : n <= k
      <3>1. Wrong \in SUBSET Nat
        OBVIOUS
      <3> HIDE DEF Wrong
      <3> QED
        BY <3>1, Least
    <2>2. Claim(0)
      <3>1. way[0] = s /\ s \in shown
        BY <1>6
      <3> DEFINE w == way[0]
      <3>2. w = s
        BY <3>1
      <3>3. w + 0 <= s
        BY <3>1, <3>2
      <3> HIDE DEF w
      <3>4. w \in shown
        BY <3>1, <3>2
      <3> QED
        BY <3>3, <3>4, Zenon DEF w
    <2>3. n # 0 /\ n \in 0 .. MaxSpans /\ ~Claim(n)
      BY <2>1, <2>2
    <2>4. n - 1 \in 0 .. MaxSpans /\ n \in 1 .. MaxSpans /\ n - 1 \notin Wrong
      <3>1. n \in Nat /\ MaxSpans \in Nat /\ n \in 0 .. MaxSpans /\ n # 0
        BY <2>3, NoneIsNoStep
      <3> HIDE DEF Wrong, Claim
      <3>2. ~(n <= n - 1)
        BY <3>1
      <3> QED
        BY <2>1, <3>1, <3>2
    <2>5. Claim(n - 1)
      BY <2>4
    <2>6. way[n] = Up(way[n - 1])
      BY <1>6, <2>4
    <2> DEFINE t == way[n - 1]
    <2>7. t \in shown /\ t \in Nat /\ s \in Nat /\ n \in Nat
      <3>1. t \in shown
        BY <2>5
      <3>2. n \in Nat
        BY <2>3, NoneIsNoStep
      <3> HIDE DEF t
      <3> QED
        BY <3>1, <3>2
    <2>8. CASE span[t].parent \in shown
      <3>1. /\ way[n] = span[t].parent /\ way[n] \in shown /\ way[n] \in Nat /\ way[n] < t
            /\ t + (n - 1) <= s
        <4>1. way[n] = span[t].parent /\ way[n] \in shown
          BY <2>6, <2>8
        <4>2. t + (n - 1) <= s
          BY <2>5, <2>8
        <4> HIDE DEF t
        <4> QED
          BY <2>7, <2>8, <4>1, <4>2
      <3>2. way[n] + n <= s
        BY <2>7, <3>1
      <3> QED
        BY <2>3, <3>1, <3>2
    <2>9. CASE span[t].parent \notin shown
      BY <2>3, <2>6, <2>7, <2>9
    <2> QED
      BY <2>8, <2>9
  <1>8. Claim(MaxSpans)
    <2>1. MaxSpans \in 0 .. MaxSpans
      BY NoneIsNoStep
    <2>2. MaxSpans \notin Wrong
      BY <1>7
    <2> HIDE DEF Claim
    <2> QED
      BY <2>1, <2>2
  <1>9. span[way[MaxSpans]].parent \notin shown
    <2>1. /\ way[MaxSpans] \in Nat /\ way[MaxSpans] >= 1 /\ s \in Nat /\ s <= MaxSpans
          /\ span[way[MaxSpans]].parent \in shown => way[MaxSpans] + MaxSpans <= s
      BY <1>8
    <2> QED
      BY <2>1, NoneIsNoStep
  <1> QED
    BY <1>1, <1>8, <1>9 DEF Audit!Roots

LEMMA AllIsShown == AuditInv => Audit!NothingHidden
  <1> SUFFICES ASSUME AuditInv,
                      NEW shown \in {Audit!Visible} \union {Audit!OfCase(c) : c \in Cases},
                      NEW s \in shown
               PROVE  Audit!Highest(s, shown) \in Audit!Roots(shown)
    BY DEF Audit!NothingHidden
  <1>1. shown \subseteq Audit!Visible
    BY DEF Audit!OfCase
  <1>2. \A t \in shown : t \in Steps /\ Begun(t)
    BY <1>1 DEF Audit!Visible, AuditInv, AuditTypes, Begun
  <1>3. \A t \in shown : span[t].parent \in Steps => span[t].parent < t
    BY <1>2 DEF AuditInv, WellBegun
  <1> QED
    BY <1>2, <1>3, HighestIsRoot

\* Whatever overlaps, outlives its request or is lost with the database, the audit has the
\* steps of a context together or not at all, and the tree of a trace hides none of them
\* (core/events.py, traces/service.py).
THEOREM AuditIsWhole == MCSpec => []TracesAreWhole
  <1> DEFINE TraceInv == part = "audit" => AuditInv
  <1>1. MCInit => TraceInv
    BY AuditInitially DEF MCInit
  <1>2. TraceInv /\ [MCNext]_<<part, vars, compilation, run, audit, events>> => TraceInv'
    BY NextKeepsAudit DEF MCNext
  <1>3. TraceInv => TracesAreWhole
    BY ContextsWhole, AllIsShown DEF TracesAreWhole
  <1> QED
    BY <1>1, <1>2, <1>3, PTL DEF MCSpec

-----------------------------------------------------------------------------
(***************************************************************************)
(* The metrics and the lists behind them (module Monitoring).  The link of *)
(* a row has the filters of the row and those of the scope, and a span     *)
(* meets them exactly when the row counted it.                             *)
(***************************************************************************)
ScopeKeys == {"process_id", "since"}

\* The spans that a list with the filters of a row and the scope's own selects.
Selects(scope, step, filters, i) ==
    /\ events[i].step = step
    /\ \A key \in DOMAIN filters : Metrics!Meets(events[i], key, filters[key])
    /\ \A key \in ScopeKeys \ DOMAIN filters :
          scope[key] # None => Metrics!Meets(events[i], key, scope[key])

LEMMA ScopeFields ==
    ASSUME NEW scope \in Metrics!Scopes
    PROVE  /\ DOMAIN scope = ScopeKeys
           /\ scope.process_id = scope["process_id"] /\ scope.since = scope["since"]
  BY DEF Metrics!Scopes, ScopeKeys

LEMMA LinkSelects ==
    ASSUME NEW scope \in Metrics!Scopes, NEW step, NEW filters, "name" \notin DOMAIN filters,
           Metrics!Link(scope, step, filters) # None
    PROVE  Metrics!List(Metrics!Link(scope, step, filters))
              = Metrics!Newest({i \in DOMAIN events : Selects(scope, step, filters, i)})
  <1> DEFINE link == Metrics!Link(scope, step, filters)
  <1>1. link = [key \in {"name"} \union DOMAIN filters \union {k \in DOMAIN scope : scope[k] # None} |->
                  IF key = "name" THEN step
                  ELSE IF key \in DOMAIN filters THEN filters[key] ELSE scope[key]]
    BY DEF Metrics!Link
  <1>2. "name" \notin ScopeKeys /\ DOMAIN scope = ScopeKeys
    BY ScopeFields DEF ScopeKeys
  <1> HIDE DEF link
  <1>3. /\ DOMAIN link = {"name"} \union DOMAIN filters \union {k \in ScopeKeys : scope[k] # None}
        /\ link["name"] = step
        /\ \A key \in DOMAIN filters : link[key] = filters[key]
        /\ \A key \in ScopeKeys \ DOMAIN filters : scope[key] # None => link[key] = scope[key]
    BY <1>1, <1>2
  <1>4. \A i : Metrics!Meets(events[i], "name", step) <=> events[i].step = step
    BY DEF Metrics!Meets
  <1>5. ASSUME NEW i
        PROVE  (\A key \in DOMAIN link : Metrics!Meets(events[i], key, link[key]))
                  <=> Selects(scope, step, filters, i)
    BY <1>3, <1>4 DEF Selects
  <1>6. {i \in DOMAIN events : \A key \in DOMAIN link : Metrics!Meets(events[i], key, link[key])}
           = {i \in DOMAIN events : Selects(scope, step, filters, i)}
    BY <1>5
  <1>7. Metrics!List(link) = Metrics!Newest({i \in DOMAIN events :
           \A key \in DOMAIN link : Metrics!Meets(events[i], key, link[key])})
    BY DEF Metrics!List
  <1> QED
    BY <1>6, <1>7 DEF link

\* A row whose filters are met by the spans of its scope and step that it counted.
Whole(scope, row) == row.link # None => Metrics!List(row.link) = Metrics!Newest(row.counted)

LEMMA RowIsWhole ==
    ASSUME NEW scope \in Metrics!Scopes, NEW step, NEW filters, NEW row,
           DOMAIN filters \intersect {"name", "process_id"} = {},
           row.link = Metrics!Link(scope, step, filters),
           row.counted \subseteq DOMAIN events,
           ASSUME NEW i \in DOMAIN events
           PROVE  i \in row.counted <=> Selects(scope, step, filters, i)
    PROVE  Whole(scope, row)
  <1>1. row.counted = {i \in DOMAIN events : Selects(scope, step, filters, i)}
    OBVIOUS
  <1> QED
    BY <1>1, LinkSelects DEF Whole

LEMMA ScopeSelects ==
    ASSUME NEW scope \in Metrics!Scopes, NEW step, NEW i \in DOMAIN events
    PROVE  i \in Metrics!OfStep(scope, step) <=>
              /\ events[i].step = step
              /\ \A key \in ScopeKeys : scope[key] # None => Metrics!Meets(events[i], key, scope[key])
  <1>1. /\ Metrics!Meets(events[i], "process_id", scope["process_id"])
              <=> events[i].process = scope["process_id"]
        /\ Metrics!Meets(events[i], "since", scope["since"])
              <=> events[i].time >= scope["since"]
    BY DEF Metrics!Meets
  <1> QED
    BY <1>1, ScopeFields DEF Metrics!OfStep, Metrics!InScope, ScopeKeys

\* A row by a key whose filters are its own.
LEMMA KeyedRow ==
    ASSUME NEW scope \in Metrics!Scopes, NEW step, NEW filters, NEW row,
           DOMAIN filters \intersect {"name", "process_id", "since"} = {},
           row.link = Metrics!Link(scope, step, filters),
           row.counted \subseteq Metrics!OfStep(scope, step),
           ASSUME NEW i \in Metrics!OfStep(scope, step), row.link # None
           PROVE  i \in row.counted <=>
                     \A key \in DOMAIN filters : Metrics!Meets(events[i], key, filters[key])
    PROVE  Whole(scope, row)
  <1> SUFFICES ASSUME row.link # None PROVE Whole(scope, row)
    BY DEF Whole
  <1>1. Metrics!OfStep(scope, step) \subseteq DOMAIN events
    BY DEF Metrics!OfStep, Metrics!InScope
  <1>2. ASSUME NEW i \in DOMAIN events
        PROVE  i \in row.counted <=> Selects(scope, step, filters, i)
    <2>1. ScopeKeys \ DOMAIN filters = ScopeKeys
      BY DEF ScopeKeys
    <2>2. Selects(scope, step, filters, i) <=>
             /\ i \in Metrics!OfStep(scope, step)
             /\ \A key \in DOMAIN filters : Metrics!Meets(events[i], key, filters[key])
      BY <2>1, ScopeSelects DEF Selects
    <2> QED
      BY <2>2
  <1> QED
    BY <1>1, <1>2, RowIsWhole

\* A group by keys that a list compares as they are.
PlainKeys == {"rule_id", "norm_rule_id", "model", "role", "provider", "operation", "source"}

LEMMA GroupedIsWhole ==
    ASSUME NEW scope \in Metrics!Scopes, NEW step, NEW keys \in SUBSET PlainKeys,
           NEW row \in Metrics!Grouped(scope, step, keys)
    PROVE  Whole(scope, row)
  <1>1. PICK i \in Metrics!OfStep(scope, step) :
           row = [counted |-> {j \in Metrics!OfStep(scope, step) :
                     [key \in keys |-> events[j].data[key]] = [key \in keys |-> events[i].data[key]]},
                  link |-> Metrics!Link(scope, step, [key \in keys |-> events[i].data[key]])]
    BY DEF Metrics!Grouped, Metrics!RowsBy
  <1> DEFINE filters == [key \in keys |-> events[i].data[key]]
  <1>2. /\ DOMAIN filters = keys
        /\ keys \intersect {"name", "process_id", "since"} = {}
    BY DEF PlainKeys
  <1>3. row.link = Metrics!Link(scope, step, filters)
    BY <1>1
  <1>4. row.counted = {j \in Metrics!OfStep(scope, step) :
                          [key \in keys |-> events[j].data[key]] = filters}
    BY <1>1
  <1>5. ASSUME NEW j \in Metrics!OfStep(scope, step), row.link # None
        PROVE  j \in row.counted <=>
                  \A key \in DOMAIN filters : Metrics!Meets(events[j], key, filters[key])
    <2>1. \A key \in PlainKeys : \A v : Metrics!Meets(events[j], key, v) <=> events[j].data[key] = v
      BY DEF PlainKeys, Metrics!Meets, Metrics!Filtered
    <2>2. j \in row.counted <=> \A key \in keys : events[j].data[key] = filters[key]
      BY <1>4
    <2> QED
      BY <1>2, <2>1, <2>2
  <1>6. /\ row.counted \subseteq Metrics!OfStep(scope, step)
        /\ DOMAIN filters \intersect {"name", "process_id", "since"} = {}
    BY <1>2, <1>4
  <1> HIDE DEF filters
  <1> QED
    BY <1>3, <1>5, <1>6, KeyedRow

LEMMA NamedAgentsAreWhole ==
    ASSUME NEW scope \in Metrics!Scopes, NEW row \in Metrics!NamedAgentRows(scope)
    PROVE  Whole(scope, row)
  <1>1. PICK i \in Metrics!OfStep(scope, "llm_run") :
           row = [counted |-> {j \in Metrics!OfStep(scope, "llm_run") :
                     Metrics!AgentOf(events[j]) = Metrics!AgentOf(events[i])},
                  link |-> Metrics!Link(scope, "llm_run", [agent |-> Metrics!AgentOf(events[i])])]
    BY DEF Metrics!NamedAgentRows, Metrics!RowsBy
  <1> DEFINE agent == Metrics!AgentOf(events[i])
             filters == [agent |-> agent]
  <1>2. DOMAIN filters = {"agent"} /\ filters["agent"] = agent
    OBVIOUS
  <1>3. row.link = Metrics!Link(scope, "llm_run", filters)
    BY <1>1
  <1>4. row.counted = {j \in Metrics!OfStep(scope, "llm_run") : Metrics!AgentOf(events[j]) = agent}
    BY <1>1
  <1>5. ASSUME NEW j \in Metrics!OfStep(scope, "llm_run"), row.link # None
        PROVE  j \in row.counted <=>
                  \A key \in DOMAIN filters : Metrics!Meets(events[j], key, filters[key])
    <2>1. Metrics!Meets(events[j], "agent", agent) <=> Metrics!AgentOf(events[j]) = agent
      BY DEF Metrics!Meets, Metrics!Filtered
    <2> HIDE DEF filters, agent
    <2> QED
      BY <1>2, <1>4, <2>1
  <1>6. /\ row.counted \subseteq Metrics!OfStep(scope, "llm_run")
        /\ DOMAIN filters \intersect {"name", "process_id", "since"} = {}
    BY <1>2, <1>4
  <1> HIDE DEF filters
  <1> QED
    BY <1>3, <1>5, <1>6, KeyedRow

LEMMA UseCasesAreWhole ==
    ASSUME NEW scope \in Metrics!Scopes, NEW row \in Metrics!UseCaseRows(scope)
    PROVE  Whole(scope, row)
  <1> DEFINE UseCase(e) == IF e.process = None THEN None ELSE UseCaseOf[e.process]
  <1>1. PICK i \in Metrics!OfStep(scope, "llm_run") :
           row = [counted |-> {j \in Metrics!OfStep(scope, "llm_run") :
                     UseCase(events[j]) = UseCase(events[i])},
                  link |-> Metrics!Link(scope, "llm_run", [use_case_id |-> UseCase(events[i])])]
    BY DEF Metrics!UseCaseRows, Metrics!RowsBy
  <1> DEFINE useCase == UseCase(events[i])
             filters == [use_case_id |-> useCase]
  <1>2. DOMAIN filters = {"use_case_id"} /\ filters["use_case_id"] = useCase
    OBVIOUS
  <1>3. row.link = Metrics!Link(scope, "llm_run", filters)
    BY <1>1
  <1>4. row.counted = {j \in Metrics!OfStep(scope, "llm_run") : UseCase(events[j]) = useCase}
    BY <1>1
  <1>5. ASSUME NEW j \in Metrics!OfStep(scope, "llm_run"), row.link # None
        PROVE  j \in row.counted <=>
                  \A key \in DOMAIN filters : Metrics!Meets(events[j], key, filters[key])
    <2>1. useCase # None
      BY <1>2, <1>3, <1>5 DEF Metrics!Link
    <2>2. Metrics!Meets(events[j], "use_case_id", useCase)
             <=> events[j].process # None /\ UseCaseOf[events[j].process] = useCase
      BY DEF Metrics!Meets
    <2>3. UseCase(events[j]) = useCase
             <=> events[j].process # None /\ UseCaseOf[events[j].process] = useCase
      <3> HIDE DEF useCase
      <3> QED
        BY <2>1
    <2> HIDE DEF filters, useCase, UseCase
    <2> QED
      BY <1>2, <1>4, <2>2, <2>3
  <1>6. /\ row.counted \subseteq Metrics!OfStep(scope, "llm_run")
        /\ DOMAIN filters \intersect {"name", "process_id", "since"} = {}
    BY <1>2, <1>4
  <1> HIDE DEF filters
  <1> QED
    BY <1>3, <1>5, <1>6, KeyedRow

\* The times of one hour are those from its beginning on and before the next one's.
LEMMA HoursApart ==
    ASSUME NEW q \in Nat, NEW r \in Nat, NEW h \in Nat \ {0}, q < r
    PROVE  q * h + h <= r * h
  <1>1. PICK d \in Nat : r = q + 1 + d
    <2>1. r - q - 1 \in Nat /\ r = q + 1 + (r - q - 1)
      OBVIOUS
    <2> QED
      BY <2>1
  <1>2. r * h = q * h + h + d * h /\ d * h \in Nat /\ q * h \in Nat
    BY <1>1
  <1> QED
    BY <1>2

LEMMA HourOfATime ==
    ASSUME NEW t \in Nat, NEW u \in Nat, NEW h \in Nat \ {0}
    PROVE  /\ (t \div h) * h \in Nat
           /\ (u \div h) * h = (t \div h) * h
                 <=> u >= (t \div h) * h /\ u < (t \div h) * h + h
  <1>1. \A w \in Nat : w \div h \in Nat /\ (w \div h) * h <= w
    OBVIOUS
  <1>2. \A w \in Nat : w < (w \div h) * h + h
    OBVIOUS
  <1> DEFINE q == t \div h
             r == u \div h
  <1>3. q \in Nat /\ r \in Nat /\ q * h \in Nat /\ r * h \in Nat
    BY <1>1
  <1>4. r * h <= u /\ u < r * h + h
    BY <1>1, <1>2
  <1> HIDE DEF q, r
  <1>5. q < r => q * h + h <= r * h
    BY <1>3, HoursApart
  <1>6. r < q => r * h + h <= q * h
    BY <1>3, HoursApart
  <1>7. r * h = q * h <=> u >= q * h /\ u < q * h + h
    <2>1. CASE q = r
      BY <2>1, <1>4
    <2>2. CASE q < r
      BY <2>2, <1>3, <1>4, <1>5
    <2>3. CASE r < q
      BY <2>3, <1>3, <1>4, <1>6
    <2> QED
      BY <2>1, <2>2, <2>3, <1>3
  <1> QED
    BY <1>3, <1>7 DEF q, r

LEMMA HoursAreWhole ==
    ASSUME events \in Seq(LoggedSpans), NEW scope \in Metrics!Scopes,
           NEW row \in Metrics!HourRows(scope)
    PROVE  Whole(scope, row)
  <1> DEFINE Hour(e) == (e.time \div HourLength) * HourLength
             From(h) == IF scope.since # None /\ scope.since > h THEN scope.since ELSE h
  <1>1. PICK i \in Metrics!OfStep(scope, "llm_run") :
           row = [counted |-> {j \in Metrics!OfStep(scope, "llm_run") :
                     Hour(events[j]) = Hour(events[i])},
                  link |-> Metrics!Link(scope, "llm_run",
                              [since |-> From(Hour(events[i])),
                               until |-> Hour(events[i]) + HourLength])]
    BY DEF Metrics!HourRows, Metrics!RowsBy
  <1> DEFINE h == Hour(events[i])
             since == From(h)
             filters == [since |-> since, until |-> h + HourLength]
  <1>2. /\ DOMAIN filters = {"since", "until"}
        /\ filters["since"] = since /\ filters["until"] = h + HourLength
    OBVIOUS
  <1>3. row.link = Metrics!Link(scope, "llm_run", filters)
    BY <1>1
  <1>4. row.counted = {j \in Metrics!OfStep(scope, "llm_run") : Hour(events[j]) = h}
    BY <1>1
  <1>5. Metrics!OfStep(scope, "llm_run") \subseteq DOMAIN events
    BY DEF Metrics!OfStep, Metrics!InScope
  <1>6. \A j \in DOMAIN events : events[j].time \in Nat
    BY PartsAssumption DEF Metrics!MonitoringAssumption
  <1>7. HourLength \in Nat \ {0} /\ (scope["since"] = None \/ scope["since"] \in Nat)
    BY PartsAssumption DEF Metrics!MonitoringAssumption, Metrics!Scopes, Metrics!Times
  <1>8. h \in Nat /\ \A j \in DOMAIN events :
           Hour(events[j]) = h <=> events[j].time >= h /\ events[j].time < h + HourLength
    <2>1. i \in DOMAIN events /\ events[i].time \in Nat
      BY <1>5, <1>6
    <2> QED
      BY <2>1, <1>6, <1>7, HourOfATime
  <1>9. /\ since \in Nat /\ since >= h
        /\ scope["since"] # None => scope["since"] \in Nat /\ since >= scope["since"]
        /\ \A t \in Nat : t >= since <=>
              t >= h /\ (scope["since"] # None => t >= scope["since"])
    <2>1. since = IF scope["since"] # None /\ scope["since"] > h THEN scope["since"] ELSE h
      BY ScopeFields
    <2> HIDE DEF since, h
    <2> QED
      BY <2>1, <1>7, <1>8
  <1>10. ASSUME NEW j \in DOMAIN events
         PROVE  j \in row.counted <=> Selects(scope, "llm_run", filters, j)
    <2> DEFINE t == events[j].time
    <2>1. \A v : /\ Metrics!Meets(events[j], "since", v) <=> t >= v
                 /\ Metrics!Meets(events[j], "until", v) <=> t < v
      BY DEF Metrics!Meets
    <2>2. j \in Metrics!OfStep(scope, "llm_run") <=>
             /\ events[j].step = "llm_run"
             /\ scope["since"] # None => t >= scope["since"]
             /\ scope["process_id"] # None =>
                   Metrics!Meets(events[j], "process_id", scope["process_id"])
      BY <2>1, ScopeSelects DEF ScopeKeys
    <2>3. ScopeKeys \ DOMAIN filters = {"process_id"}
      BY <1>2 DEF ScopeKeys
    <2>4. Selects(scope, "llm_run", filters, j) <=>
             /\ events[j].step = "llm_run"
             /\ t >= since /\ t < h + HourLength
             /\ scope["process_id"] # None =>
                   Metrics!Meets(events[j], "process_id", scope["process_id"])
      <3> HIDE DEF filters, since, h, t
      <3> QED
        BY <1>2, <2>1, <2>3 DEF Selects
    <2>5. j \in row.counted <=>
             j \in Metrics!OfStep(scope, "llm_run") /\ t >= h /\ t < h + HourLength
      BY <1>4, <1>5, <1>8
    <2>6. t \in Nat
      BY <1>6
    <2> HIDE DEF filters, since, h, t
    <2> QED
      BY <2>2, <2>4, <2>5, <2>6, <1>9
  <1>11. /\ row.counted \subseteq DOMAIN events
         /\ DOMAIN filters \intersect {"name", "process_id"} = {}
    BY <1>2, <1>4, <1>5
  <1> HIDE DEF filters
  <1> QED
    BY <1>3, <1>10, <1>11, RowIsWhole

LEMMA RowsAreWhole ==
    ASSUME events \in Seq(LoggedSpans), NEW scope \in Metrics!Scopes,
           NEW row \in Metrics!Rows(scope)
    PROVE  Whole(scope, row)
  <1>1. CASE row \in Metrics!StepRows(scope)
    <2>1. PICK step : row \in Metrics!Grouped(scope, step, {})
      BY <1>1 DEF Metrics!StepRows
    <2> QED
      BY <2>1, GroupedIsWhole
  <1>2. CASE row \in Metrics!ProviderRows(scope)
    BY <1>2, GroupedIsWhole DEF Metrics!ProviderRows, PlainKeys
  <1>3. CASE row \in Metrics!SourceRows(scope)
    BY <1>3, GroupedIsWhole DEF Metrics!SourceRows, PlainKeys
  <1>4. CASE row \in Metrics!RuleRows(scope)
    BY <1>4, GroupedIsWhole DEF Metrics!RuleRows, PlainKeys
  <1>5. CASE row \in Metrics!AgentRows(scope)
    <2>1. CASE row \in Metrics!LlmRows(scope)
      BY <2>1, GroupedIsWhole DEF Metrics!LlmRows, PlainKeys
    <2>2. CASE row \in UNION {Metrics!Grouped(scope, "llm_run", keys) :
                                keys \in {{}, {"model"}, {"rule_id"}, {"norm_rule_id"}}}
      <3>1. PICK keys \in SUBSET PlainKeys : row \in Metrics!Grouped(scope, "llm_run", keys)
        BY <2>2 DEF PlainKeys
      <3> QED
        BY <3>1, GroupedIsWhole
    <2> QED
      BY <1>5, <2>1, <2>2, NamedAgentsAreWhole, UseCasesAreWhole, HoursAreWhole
      DEF Metrics!AgentRows
  <1> QED
    BY <1>1, <1>2, <1>3, <1>4, <1>5 DEF Metrics!Rows

\* Whoever opens a row of the metrics sees the spans it counted and no others, or the newest
\* of them (_link, list_spans).
THEOREM MetricsDrillDown == MCSpec => []DrillDownIsWhole
  <1> DEFINE WrittenInv == part = "metrics" => events \in Seq(LoggedSpans)
  <1>1. MCInit => WrittenInv
    BY DEF MCInit, Metrics!Init, NoCase
  <1>2. WrittenInv /\ [MCNext]_<<part, vars, compilation, run, audit, events>> => WrittenInv'
    BY DEF MCNext, Metrics!Next, Metrics!Write
  <1>3. WrittenInv => DrillDownIsWhole
    BY RowsAreWhole DEF DrillDownIsWhole, Metrics!DrillDownIsWhole, Whole
  <1> QED
    BY <1>1, <1>2, <1>3, PTL DEF MCSpec
=============================================================================
