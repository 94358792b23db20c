----------------------------- MODULE Committee -----------------------------
(***************************************************************************)
(* How an identifier of an invoice is read, its supplier, its account or   *)
(* its order: ingestion/pdf/extractor.py, committee.py and focused.py, and *)
(* payment_verification.py, which reads once more what the tables do not   *)
(* know.  The text of the file, two local readers, a chain of image models *)
(* and crops of the region are heard in turn.  Money is paid to what they  *)
(* say, so the identifier has a value only when two readers that are not   *)
(* the same model agree on it, or the file itself says it.                 *)
(*                                                                         *)
(* One identifier on one page, for one payment.  A reader of the page      *)
(* answers once: what it said is cached or in the journal (module          *)
(* Journal).  What remains open is put to a judge that reads the texts and *)
(* may only recommend one of the readings (judge.py, readings.py).         *)
(***************************************************************************)
EXTENDS Chain

CONSTANTS
    Values,   \* what the identifier may look like
    Bad,      \* a candidate that is not legible or not well formed
    None,     \* no value
    Modes     \* how the process may read: "local", "hybrid" or "api"

CommitteeAssumption ==
    /\ ChainAssumption
    /\ {"native", "primary", "secondary", "visual", "scale"}
          \intersect (Identities \union {Nominal[r] : r \in Identities}) = {}
    /\ {Bad, None} \intersect Values = {} /\ Bad # None
    /\ Modes \subseteq {"local", "hybrid", "api"}

VARIABLES
    mode,      \* how the process reads
    told,      \* what each reader has said of the page, None before
    stage,     \* of the extraction that runs
    forced,    \* whether it verifies the identifier whatever was read
    pool,      \* its candidates, each with its reader
    focus,     \* the value of the focused verification, "off" without one
    agreed,    \* the value that the readings of the page corroborate
    result,    \* what the extraction delivered
    proposed   \* what it proposes to a person

vars == <<mode, told, stage, forced, pool, focus, agreed, result, proposed>>

-----------------------------------------------------------------------------
Local == {"primary", "secondary"}
PageReaders == {"native"} \union Local \union Identities

\* In hybrid mode all image models are one reader, and a local reader that looks at a
\* larger crop is still the same one.
Visual == Identities \union {"visual"}
Names == PageReaders \union {"visual", "scale"}

\* One candidate or none, and whether the reader is sure of it: the text of the file is,
\* an image model never.
Answers(r) ==
    [says : {{}} \union {{x} : x \in Values \union {Bad}},
     sure : IF r = "native" THEN {TRUE} ELSE IF r \in Local THEN BOOLEAN ELSE {FALSE}]

Candidates == [by : Names, sure : BOOLEAN, value : Values \union {Bad}]

From(name, answer) ==
    {[by |-> name, sure |-> answer.sure, value |-> x] : x \in answer.says}

Of(set, names) == {c \in set : c.by \in names}
Said(set) == {c.value : c \in set} \ {Bad}
Errors(set) == \E c \in set : c.value = Bad

\* aggregate: the one value of some candidates without errors.
Only(set) ==
    IF Cardinality(Said(set)) = 1 /\ ~Errors(set) THEN CHOOSE v \in Said(set) : TRUE ELSE None

\* The readers whose vote for a value counts: those that read nothing else and are sure,
\* or are image models.
Supporters(set, v) ==
    {r \in {c.by : c \in set} :
        /\ Only(Of(set, {r})) = v
        /\ r \in Visual \/ \E c \in Of(set, {r}) : c.sure}

\* Mutant: a model behind two providers has two votes.
AnyReader(r) == r

\* independent_reader: the providers of one model share one vote.
IndependentReader(r) == IF r \in Identities THEN Nominal[r] ELSE r

Votes(readers) == Cardinality({IndependentReader(r) : r \in readers})

\* reconcile: the value that the page corroborates.
Corroborated(set) ==
    LET v == Only(set) IN
    IF v # None /\ ("native" \in Supporters(set, v) \/ Votes(Supporters(set, v)) >= 2)
    THEN v ELSE None

\* native_value: what the text of the file says, whatever the others have read.
NativeValue(set) == Only(Of(set, {"native"}))

-----------------------------------------------------------------------------
Untold == [r \in PageReaders |-> None]

TypeOK ==
    /\ mode \in Modes
    /\ \A r \in PageReaders : told[r] = None \/ told[r] \in Answers(r)
    /\ stage \in {"native", "ocr", "vision", "focus", "high", "dewarp", "deliver", "sources"}
    /\ forced \in BOOLEAN
    /\ pool \subseteq Candidates
    /\ focus \in Values \union {None, "off"}
    /\ {agreed, result, proposed} \subseteq Values \union {None}

Init ==
    /\ mode \in Modes
    /\ told = Untold
    /\ stage = "native" /\ forced = FALSE
    /\ pool = {} /\ focus = "off" /\ agreed = None /\ result = None /\ proposed = None

\* The readers asked say what they have said before, or now for the first time.
Tell(readers, answers) ==
    /\ \A r \in readers :
          IF told[r] = None THEN answers[r] \in Answers(r) ELSE answers[r] = told[r]
    /\ told' = [r \in PageReaders |-> IF r \in readers THEN answers[r] ELSE told[r]]

AllAnswers == UNION {Answers(r) : r \in PageReaders}

Native ==
    /\ stage = "native"
    /\ \E answers \in [{"native"} -> AllAnswers] :
          /\ Tell({"native"}, answers)
          /\ pool' = From("native", answers["native"])
    /\ stage' = "ocr"
    /\ agreed' = Corroborated(pool')
    /\ UNCHANGED <<mode, forced, focus, result, proposed>>

\* A page without enough text is read by the local readers, but in api mode; a reader that
\* fails says nothing.
Ocr ==
    /\ stage = "ocr"
    /\ \E readers \in IF mode = "api" THEN {{}} ELSE SUBSET Local :
       \E answers \in [readers -> AllAnswers] :
          /\ Tell(readers, answers)
          /\ pool' = pool \union UNION {From(r, answers[r]) : r \in readers}
    /\ stage' = IF mode = "local" THEN "deliver" ELSE "vision"
    /\ agreed' = Corroborated(pool')
    /\ UNCHANGED <<mode, forced, focus, result, proposed>>

\* An identifier that is missing, ambiguous or unverified is looked for in the image, and
\* any other one together with the rest of the invoice.
Vision ==
    /\ stage = "vision"
    /\ \E turns \in Turns :
          LET readers == Transcribed(mode, turns) IN
          \E answers \in [readers -> AllAnswers] :
             /\ Tell(readers, answers)
             /\ pool' = pool \union UNION {From(IF mode = "api" THEN r ELSE "visual", answers[r])
                                           : r \in readers}
    /\ stage' = "focus"
    /\ agreed' = Corroborated(pool')
    /\ UNCHANGED <<mode, forced, focus, result, proposed>>

NoVision ==
    /\ stage = "vision"
    /\ agreed # None \/ (pool # {} /\ Said(pool) = {})
    /\ stage' = "focus"
    /\ UNCHANGED <<mode, told, forced, pool, focus, agreed, result, proposed>>

-----------------------------------------------------------------------------
(***************************************************************************)
(* The focused verification, after which nobody hears the readers of the   *)
(* page again                                                              *)
(***************************************************************************)

Unverified ==
    \/ forced
    \/ agreed = None /\ (mode = "api" \/ NativeValue(pool) = None)

\* Nothing to verify, or no region to look at.
NoFocus ==
    /\ stage = "focus"
    /\ stage' = "deliver"
    /\ UNCHANGED <<mode, told, forced, pool, focus, agreed, result, proposed>>

\* api: the crop is transcribed by the chain, and all that was ever said of the identifier
\* must agree, with the votes of two models.
FocusByChain ==
    /\ stage = "focus" /\ mode = "api" /\ Unverified
    /\ \E turns \in Turns : \E answers \in [Collected(turns) -> Answers("visual")] :
          LET all == pool \union UNION {From(r, answers[r]) : r \in Collected(turns)}
              v   == Only(all)
          IN  /\ pool' = all
              /\ focus' = IF /\ v # None /\ Collected(turns) # {}
                             /\ Votes({c.by : c \in {d \in Of(all, Visual) : d.value = v}}) >= 2
                          THEN v ELSE None
    /\ stage' = "deliver"
    /\ told' = Untold
    /\ UNCHANGED <<mode, forced, agreed, result, proposed>>

Families == {"primary", "secondary", "visual", "scale"}

\* hybrid: the local readers, one of them at two scales, and the image models look at the
\* crop.  A local reading must agree with the images of the page or of the crop; what they
\* said of the page is not heard again.
FocusByAll ==
    /\ stage = "focus" /\ mode = "hybrid" /\ Unverified
    /\ \E read \in [Families -> {{}} \union {{x} : x \in Values \union {Bad}}] :
          LET crop(f)  == From(f, [says |-> read[f], sure |-> FALSE])
              seen     == UNION {crop(f) : f \in Families}
              says(f)  == Only(crop(f))
              local    == {says("primary"), says("secondary")} \ {None}
              scale    == {says("scale")} \ {None}
              image    == {says("visual")} \ {None}
              possible == ((local \union scale) \intersect Said(Of(pool, Visual)))
                          \union (IF scale \subseteq image THEN image \intersect local ELSE {})
          IN  /\ pool' = pool \union seen
              /\ focus' = IF Cardinality(possible) = 1 /\ ~Errors(seen)
                          THEN CHOOSE v \in possible : TRUE ELSE None
              /\ stage' = IF focus' # None THEN "deliver"
                          ELSE IF scale # {} /\ local = scale THEN "high"
                          ELSE IF local \union scale = {} THEN "dewarp"
                          ELSE "deliver"
    /\ told' = Untold
    /\ UNCHANGED <<mode, forced, agreed, result, proposed>>

\* Local readings that are stable across scales get one more look of the images.
FocusHigh ==
    /\ stage = "high"
    /\ \E answer \in Answers("visual") :
          LET high == From("visual", answer) IN
          /\ pool' = pool \union high
          /\ focus' = IF Only(high) = Only(Of(pool, {"scale"})) THEN Only(high) ELSE None
    /\ stage' = "deliver"
    /\ UNCHANGED <<mode, told, forced, agreed, result, proposed>>

\* Without any local reading, bands of the scanner are flattened and the page is read
\* again: the local readers must be sure, and some image agree.
Dewarp ==
    /\ stage = "dewarp"
    /\ \E readers \in SUBSET Local : \E answers \in [readers -> Answers("primary")] :
          LET flat == UNION {From(r, answers[r]) : r \in readers}
              sure == Said({c \in flat : c.sure})
          IN  /\ pool' = pool \union flat
              /\ focus' = IF /\ Cardinality(sure) = 1 /\ ~Errors(flat)
                             /\ sure \subseteq Said(Of(pool, Visual))
                          THEN CHOOSE v \in sure : TRUE ELSE None
    /\ stage' = "deliver"
    /\ UNCHANGED <<mode, told, forced, agreed, result, proposed>>

-----------------------------------------------------------------------------
(***************************************************************************)
(* The judge of the texts                                                  *)
(***************************************************************************)

\* It is asked, when there is one, about what is still open and was read at all.
Open == agreed = None /\ focus \in {"off", None} /\ Said(pool) # {}

\* Of what was read, a judge may choose one or none: an answer that is cut off, leaves
\* questions out or invents a candidate is a failure of that judge.
Offered == Said(pool) \union {None}

\* select: the first judge that is not resting and selects; one that fails gives way to the
\* next, and without any there is no recommendation.
Recommendations == {None} \union Offered

\* The readers in the order in which their word is proposed.
Order == <<{"native"}, {"visual"}, {"primary", "scale"}, {"secondary"}>>

\* field_readings: what the judge recommends, else what the page corroborates, else the
\* first reader that says one thing.
Least(numbers) == CHOOSE i \in numbers : \A j \in numbers : i <= j

Proposal(recommended) ==
    LET order   == Order \o [i \in 1 .. Len(Readers) |-> {Readers[i]}]
        said(i) == Said(Of(pool, order[i]))
        single  == {i \in DOMAIN order : Cardinality(said(i)) = 1}
    IN  IF recommended # None THEN recommended
        ELSE IF agreed # None THEN agreed
        ELSE IF single = {} THEN None
        ELSE CHOOSE v \in said(Least(single)) : TRUE

\* Whatever is proposed, the value is that of a focused verification when there was one;
\* without it, what the text of the file says or the page corroborates.
Verified ==
    IF focus # "off" THEN focus ELSE IF NativeValue(pool) # None THEN NativeValue(pool) ELSE agreed

Deliver ==
    /\ stage = "deliver"
    /\ \E recommended \in IF Open THEN Recommendations ELSE {None} :
          proposed' = Proposal(recommended)
    /\ result' = Verified
    /\ stage' = "sources"
    /\ UNCHANGED <<mode, told, forced, pool, focus, agreed>>

\* verification_triggers: the tables do not know what was read, the file does not say it
\* and it was not verified: it is read once more, and verified.
Suspect ==
    /\ stage = "sources"
    /\ mode # "local" /\ focus = "off" /\ ~forced
    /\ Said(pool) # {} /\ Of(pool, {"native"}) = {}
    /\ stage' = "native" /\ forced' = TRUE
    /\ pool' = {} /\ focus' = "off" /\ agreed' = None /\ result' = None /\ proposed' = None
    /\ UNCHANGED <<mode, told>>

\* The payment has its identifier, or none; the next one is of another page.
Paid ==
    /\ stage = "sources"
    /\ stage' = "native" /\ forced' = FALSE
    /\ told' = Untold /\ pool' = {} /\ focus' = "off"
    /\ agreed' = None /\ result' = None /\ proposed' = None
    /\ UNCHANGED mode

Next ==
    \/ Native \/ Ocr \/ Vision \/ NoVision
    \/ NoFocus \/ FocusByChain \/ FocusByAll \/ FocusHigh \/ Dewarp
    \/ Deliver \/ Suspect \/ Paid

Spec == Init /\ [][Next]_vars

-----------------------------------------------------------------------------
\* A recognizer or a model, whatever it is called and whatever part it looked at.
Model(name) ==
    IF name = "scale" THEN "primary" ELSE IF name \in Identities THEN Nominal[name] ELSE name

\* An identifier is a value only when the text of the file says it, or two readings of it
\* were made by two different models: no crop, retry, second provider of a model or cached
\* answer is a second reader (docs/adr/detail/0027, docs/ingestion/committee.md).  And what
\* a person is offered was read by somebody: no judge creates it (readings.py).
IdentifierIsCorroborated ==
    LET said == {c \in pool : c.value = result} IN
    /\ result # None =>
          \/ \E c \in said : c.by = "native"
          \/ \E c, d \in said : Model(c.by) # Model(d.by)
    /\ proposed \in Said(pool) \union {None}
=============================================================================
