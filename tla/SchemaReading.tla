--------------------------- MODULE SchemaReading ---------------------------
(***************************************************************************)
(* How a field of a process contract is read from a document:              *)
(* ingestion/pdf/schema.py, schema_fields.py and extract_schema of         *)
(* ingestion/service.py.  Lines are looked through for the labels of the   *)
(* field: those of the file, those of a local reader, and, page by page    *)
(* while the field is unresolved, those of the image models.  When nothing *)
(* is labelled a text model may point at a line.  Each of these readers    *)
(* may be switched off.  What is read without an error is kept in the      *)
(* cache for good.                                                         *)
(*                                                                         *)
(* One field of source "document", whose labels are its own.  A line is    *)
(* what it says of the field; a reader may also say nothing of it.         *)
(***************************************************************************)
EXTENDS Chain

CONSTANTS
    Words,    \* what a line may say: a value, or Bad, with a label of the field or not
    Bad,      \* a labelled text that is not a value of the field's type
    None,     \* no value
    Modes,    \* how the process may read: "local", "hybrid" or "api"
    Pages     \* how many pages there are

SchemaReadingAssumption ==
    /\ ChainAssumption
    /\ \A word \in Words : word.labelled \in BOOLEAN /\ word.says # None
    /\ Modes \subseteq {"local", "hybrid", "api"}
    /\ Pages \in Nat \ {0}

VARIABLES
    mode,      \* how the process reads
    looks,     \* the readers that are switched on: "ocr", "vision" and "mapper"
    blank,     \* the pages whose text layer is missing or suspect
    stage,     \* of the extraction
    page,      \* the page that is read
    lines,     \* the lines heard so far
    read,      \* the pages that a reader of images has read
    errors,    \* which readers have raised
    result     \* the reading of the field, None before

vars == <<mode, looks, blank, stage, page, lines, read, errors, result>>

-----------------------------------------------------------------------------
\* A line, its reader, and whether it is evidence by itself: the text of the file and what a
\* local reader is sure of.
Lines == [by : Identities \union {"native", "ocr"}, word : Words, sure : BOOLEAN]

Heard(r, sure, words) == {[by |-> r, word |-> word, sure |-> sure] : word \in words}

\* What one reader says of the field on one page: one line at most.
Speech == {{}} \union {{word} : word \in Words}

Labelled(set) == {l \in set : l.word.labelled}
Valid(set) == {l \in set : l.word.says # Bad}
Said(set) == {l.word.says : l \in Valid(set)}

Conflict(set) == (\E v, w \in Said(set) : v # w) \/ (Valid(set) # {} /\ Valid(set) # set)

\* The models behind the image readings of a set of lines.
ModelsOf(set) == {Nominal[l.by] : l \in {k \in Valid(set) : k.by \in Identities}}

\* _reading: what a set of candidate lines proposes, and the value when that is supported.
Proposal(set) ==
    IF Said(set) # {} /\ ~Conflict(set) THEN CHOOSE v \in Said(set) : TRUE ELSE None

\* Mutant: what is proposed is the value.
Proposed(set) == Proposal(set)

Selected(set) ==
    IF (\E l \in Valid(set) : l.sure) \/ Cardinality(ModelsOf(set)) >= 2
    THEN Proposal(set) ELSE None

NoReading == [value |-> None, missing |-> TRUE, asked |-> "no", kept |-> FALSE]

\* The readers a mode leaves to the options and the deployment: no local reader in api mode,
\* no image model in local mode, and a text model, when one is configured, only beside the
\* image models.
Switches(m) ==
    {on \in SUBSET {"ocr", "vision", "mapper"} :
        /\ m = "api" => "ocr" \notin on
        /\ m = "local" => "vision" \notin on
        /\ "mapper" \in on => "vision" \in on}

Reading(set) == [NoReading EXCEPT !.value = Selected(set), !.missing = set = {}]

TypeOK ==
    /\ mode \in Modes /\ looks \in Switches(mode)
    /\ stage \in {"ocr", "vision", "map", "done"}
    /\ page \in 1 .. Pages /\ {blank, read} \subseteq SUBSET (1 .. Pages)
    /\ lines \subseteq Lines
    /\ errors \subseteq {"OCR_ERROR", "VLM_ERROR", "SCHEMA_READER_ERROR"}

\* The text layer of all pages is heard first.
Init ==
    /\ mode \in Modes /\ looks \in Switches(mode)
    /\ blank \in SUBSET (1 .. Pages)
    /\ \E words \in Speech : lines = Heard("native", TRUE, words)
    /\ stage = "ocr" /\ page = 1
    /\ read = {} /\ errors = {} /\ result = NoReading

\* The next page, or the first one of the next pass.
Turn(next) ==
    IF page < Pages THEN page' = page + 1 /\ UNCHANGED stage
                    ELSE page' = 1 /\ stage' = next

-----------------------------------------------------------------------------
\* A local reader, if it is on, looks at the pages that need it.
Ocr ==
    /\ stage = "ocr" /\ page \in blank /\ "ocr" \in looks
    /\ \/ \E words \in Speech, sure \in BOOLEAN :
             /\ lines' = lines \union Heard("ocr", sure, words)
             /\ read' = read \union {page} /\ UNCHANGED errors
       \/ errors' = errors \union {"OCR_ERROR"} /\ UNCHANGED <<lines, read>>
    /\ Turn("vision")
    /\ UNCHANGED <<mode, looks, blank, result>>

\* That it is off is a warning, not an error (OCR_DISABLED).
NoOcr ==
    /\ stage = "ocr" /\ (page \notin blank \/ "ocr" \notin looks)
    /\ Turn("vision")
    /\ UNCHANGED <<mode, looks, blank, lines, read, errors, result>>

Unresolved == Proposal(Labelled(lines)) = None

\* The image models, if they are on, look at such a page while the field is neither read nor
\* proposed.
Vision ==
    /\ stage = "vision" /\ page \in blank /\ "vision" \in looks /\ Unresolved
    /\ \E turns \in Turns :
          LET readers == Transcribed(mode, turns) IN
          IF readers = {}
          THEN errors' = errors \union {"VLM_ERROR"} /\ UNCHANGED <<lines, read>>
          ELSE /\ \E says \in [readers -> Speech] :
                     lines' = lines \union UNION {Heard(r, FALSE, says[r]) : r \in readers}
               /\ read' = read \union {page} /\ UNCHANGED errors
    /\ Turn("map")
    /\ UNCHANGED <<mode, looks, blank, result>>

NoVision ==
    /\ stage = "vision" /\ (page \notin blank \/ "vision" \notin looks \/ ~Unresolved)
    /\ Turn("map")
    /\ UNCHANGED <<mode, looks, blank, lines, read, errors, result>>

-----------------------------------------------------------------------------
\* Mutant: a failing model does not count.
KeepsUnlessOcrFailed(failed) == "OCR_ERROR" \notin failed

\* extract_schema keeps what was read without any error.
Keeps(failed) == failed = {}

Ends(set, asked, failed) ==
    /\ result' = [Reading(set) EXCEPT !.asked = asked, !.kept = Keeps(failed)]
    /\ errors' = failed /\ stage' = "done"
    /\ UNCHANGED <<mode, looks, blank, page, lines, read>>

\* SchemaFieldReader.read: when no line is labelled, a text model points at one of the
\* lines, or at none, or every provider of it fails.  A first line that is longer than what
\* the model is given leaves it nothing to be asked about.
Map ==
    /\ stage = "map" /\ "mapper" \in looks /\ Labelled(lines) = {} /\ lines # {}
    /\ \/ \E l \in Valid(lines) : Ends({l}, "yes", errors)
       \/ Ends({}, "yes", errors)
       \/ Ends({}, "yes", errors \union {"SCHEMA_READER_ERROR"})
       \/ Ends({}, "no room", errors)

\* There is a label, there is no line at all, or no text model is configured.
NoMap ==
    /\ stage = "map" /\ ("mapper" \notin looks \/ Labelled(lines) # {} \/ lines = {})
    /\ Ends(Labelled(lines), "no", errors)

\* What was not kept is read again when it is asked for, by whoever answers then; what was
\* kept is served as it is, without any call.
Reread ==
    /\ stage = "done" /\ ~result.kept
    /\ lines' = {l \in lines : l.by = "native"}
    /\ stage' = "ocr" /\ page' = 1
    /\ read' = {} /\ errors' = {} /\ result' = NoReading
    /\ UNCHANGED <<mode, looks, blank>>

\* Another document.
NextDocument ==
    /\ stage = "done"
    /\ blank' \in SUBSET (1 .. Pages)
    /\ \E words \in Speech : lines' = Heard("native", TRUE, words)
    /\ stage' = "ocr" /\ page' = 1
    /\ read' = {} /\ errors' = {} /\ result' = NoReading
    /\ UNCHANGED <<mode, looks>>

Next == Ocr \/ NoOcr \/ Vision \/ NoVision \/ Map \/ NoMap \/ Reread \/ NextDocument

Spec == Init /\ [][Next]_vars

-----------------------------------------------------------------------------
\* A field has a value only on evidence: a line of the file or of a sure local reader, or
\* two different image models; and no labelled line, of whatever page, says otherwise.
\* What is only proposed never reaches a rule (schema_fields.py, _reading).
FieldIsCorroborated ==
    LET said == {l \in lines : l.word.says = result.value} IN
    result.value # None =>
        /\ \/ \E l \in said : l.sure
           \/ \E k, l \in said : {k.by, l.by} \subseteq Identities /\ Nominal[k.by] # Nominal[l.by]
        /\ Labelled(lines) \subseteq said

\* What is kept without a value was looked for by every reader that is switched on: a page
\* without text was read by some reader of images, and a text model was asked when there was
\* a line to show it and none labelled.
MissingWasLookedFor ==
    (result.kept /\ result.missing) =>
        /\ looks \intersect {"ocr", "vision"} # {} => blank \subseteq read
        /\ "mapper" \in looks /\ lines # {} => result.asked # "no"

\* What is kept as missing was looked for on every page, whatever is switched off.  Not so:
\* a page without text that nobody may look at is no error, and extract_schema keeps the
\* field as missing.
MissingWasLookedForAnyway == result.kept /\ result.missing => blank \subseteq read
=============================================================================
