------------------------------ MODULE Compiler ------------------------------
(***************************************************************************)
(* One compilation of a rule, agents/compiler.py (ADR 0004): a tester who  *)
(* never sees code writes tests from the text of the rule, a coder writes  *)
(* code against them, and a failing test that the coder objects to goes    *)
(* back to the tester, who keeps or corrects it from the text alone.       *)
(*                                                                         *)
(* What the models answer is any answer their validators let through; what *)
(* the code does on the data of a test is chosen with the code.  Prompts,  *)
(* reasons and the tests' data are left out, and so is which keys the code *)
(* reads, beyond that the validator sends back a reading of unknown ones.  *)
(***************************************************************************)
EXTENDS Naturals, FiniteSets, Functions

CONSTANTS
    Tests,        \* the names of the tests
    MaxAttempts,  \* codes that are tried
    MaxReviews,   \* times the tester is asked to reconsider
    None

CompilerAssumption ==
    /\ MaxAttempts \in Nat \ {0} /\ MaxReviews \in Nat
    /\ Cardinality(Tests) >= 2

VARIABLES
    stage,     \* whose turn it is, or how the compilation ended
    written,   \* whether the rule fires on each test, as first written
    expected,  \* the same, as the tester sees it now
    attempt, rounds,
    proposal,  \* the code, by what it does on each test, and the coder's objections
    results,   \* the last run: what each test expected and got
    stored     \* the Compilation that is returned

vars == <<stage, written, expected, attempt, rounds, proposal, results, stored>>

-----------------------------------------------------------------------------
\* What the sandbox returns for a case.  Malformed results are errors, and when the
\* whole batch fails (rejected, timed out, crashed) every case is one.
Outcomes == {"fires", "silent", "error"}

Proposals == [does : [Tests -> Outcomes], disputes : SUBSET Tests]

\* tests_of: only suites with both sides are taken.
WellFormed(suite) == \E t, u \in Tests : suite[t] # suite[u]
Suites == {s \in [Tests -> BOOLEAN] : WellFormed(s)}

\* _fires(result) is fires.
Passes(outcome, fires) == outcome = IF fires THEN "fires" ELSE "silent"

\* run_tests, on the suite as it is now.
Run(code, suite) ==
    [t \in Tests |-> [expected |-> suite[t], got |-> code[t],
                      passed |-> Passes(code[t], suite[t])]]

Failures == {t \in Tests : ~results[t].passed}

\* Mutant: an objection counts on any test.
DisputedAnyway == proposal.disputes \intersect Tests

\* Only objections to tests that fail are passed on.
Disputed == proposal.disputes \intersect Failures

\* Mutant: what is stored is the suite as first written.
CompiledAsWritten(code, suite, ran) ==
    [code |-> code, tests |-> written, ran |-> ran, valid |-> \A t \in Tests : ran[t].passed]

\* The code that is stored, with the tests that are stored and the report on both.
Compiled(code, suite, ran) ==
    [code |-> code, tests |-> suite, ran |-> ran, valid |-> \A t \in Tests : ran[t].passed]

TypeOK ==
    /\ stage \in {"tests", "code", "run", "judge", "review", "stored", "no data", "failed"}
    /\ written \in Suites \union {None}
    /\ expected \in [Tests -> BOOLEAN] \union {None}
    /\ attempt \in 1 .. MaxAttempts /\ rounds \in 0 .. MaxReviews
    /\ proposal \in Proposals \union {None}
    /\ results \in [Tests -> [expected : BOOLEAN, got : Outcomes, passed : BOOLEAN]] \union {None}
    /\ stored # None => stored = Compiled(proposal.does, expected, results)

Init ==
    /\ stage = "tests" /\ attempt = 1 /\ rounds = 0
    /\ written = None /\ expected = None /\ proposal = None /\ results = None /\ stored = None

-----------------------------------------------------------------------------
\* The tester, first.
WriteTests ==
    /\ stage = "tests" /\ stage' = "code"
    /\ written' \in Suites /\ expected' = written'
    /\ UNCHANGED <<attempt, rounds, proposal, results, stored>>

\* NeedsData, of either: a compilation without code.
NeedData ==
    /\ stage \in {"tests", "code"} /\ stage' = "no data"
    /\ UNCHANGED <<written, expected, attempt, rounds, proposal, results, stored>>

\* AgentError: nothing is stored.
ModelsFail ==
    /\ stage \in {"tests", "code", "review"} /\ stage' = "failed"
    /\ UNCHANGED <<written, expected, attempt, rounds, proposal, results, stored>>

Propose ==
    /\ stage = "code" /\ stage' = "run"
    /\ proposal' \in Proposals
    /\ UNCHANGED <<written, expected, attempt, rounds, results, stored>>

RunTests ==
    /\ stage = "run" /\ stage' = "judge"
    /\ results' = Run(proposal.does, expected)
    /\ UNCHANGED <<written, expected, attempt, rounds, proposal, stored>>

Over == Failures = {} \/ attempt = MaxAttempts

\* The loop is left before any review: the suite is the one that was run.
Store ==
    /\ stage = "judge" /\ Over
    /\ stage' = "stored" /\ stored' = Compiled(proposal.does, expected, results)
    /\ UNCHANGED <<written, expected, attempt, rounds, proposal, results>>

Object ==
    /\ stage = "judge" /\ ~Over
    /\ Disputed # {} /\ rounds < MaxReviews
    /\ stage' = "review" /\ rounds' = rounds + 1
    /\ UNCHANGED <<written, expected, attempt, proposal, results, stored>>

\* The last verdict on each test that was asked about; others are dropped.
Review ==
    /\ stage = "review" /\ stage' = "code"
    /\ \E asked \in SUBSET Disputed : \E verdict \in [asked -> BOOLEAN] :
          expected' = [t \in Tests |-> IF t \in asked THEN verdict[t] ELSE expected[t]]
    /\ attempt' = attempt + 1
    /\ UNCHANGED <<written, rounds, proposal, results, stored>>

TryAgain ==
    /\ stage = "judge" /\ ~Over
    /\ Disputed = {} \/ rounds = MaxReviews
    /\ stage' = "code" /\ attempt' = attempt + 1
    /\ UNCHANGED <<written, expected, rounds, proposal, results, stored>>

Next ==
    \/ WriteTests \/ NeedData \/ ModelsFail \/ Propose \/ RunTests
    \/ Store \/ Object \/ Review \/ TryAgain

Spec == Init /\ [][Next]_vars

-----------------------------------------------------------------------------
\* A report is about the tests it is stored with: what it says of each is what the
\* stored code does on the stored test, though the tester changed tests between runs.
ReportIsOfTheTests ==
    stage = "stored" =>
        /\ stored.ran = Run(stored.code, stored.tests)
        /\ stored.valid <=> \A t \in Tests : Passes(stored.code[t], stored.tests[t])

\* The coder cannot bend the oracle: a test that its code passed is never changed, and
\* no other is changed but in one of the reviews the tester may give.
OnlyFailedTestsChange ==
    written # None =>
        /\ \A t \in Tests : expected'[t] # expected[t] => ~Passes(proposal.does[t], expected[t])
        /\ expected' # expected => stage = "review" /\ rounds <= MaxReviews

OracleStands == [][OnlyFailedTestsChange]_vars

\* "Tests must include cases where the rule fires and where it does not"
SuiteKeepsBothSides == stage = "stored" => WellFormed(stored.tests)
=============================================================================
