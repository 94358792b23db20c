----------------------------- MODULE MCReading -----------------------------
(***************************************************************************)
(* Reading, from both ends.  A behaviour is about one of four parts that   *)
(* know each other only by what they deliver: the evidence of a case, with *)
(* two requests on one document; one identifier of an invoice; one field   *)
(* of a process contract; the models a version lets read.                  *)
(***************************************************************************)
EXTENDS Documents, TLC

CONSTANTS r1, r2
MCRequests == {r1, r2}
\* The first version asks for two fields, the second, with other rules and readers, for those
\* of an invoice and more; a reading of it that keeps its key is like one of an invoice alone.
Contract(fields, rules, execution) ==
    [fields |-> fields, rules |-> rules, execution |-> execution, ocr |-> execution = "api",
     payment |-> fields = "all", extra |-> fields = "all"]
MCContracts == <<Contract("some", "old", "local"), Contract("all", "new", "api")>>

\* Two providers of one model and one of another.
CONSTANTS Readers, Nominal, Modes, Values, Bad, v1, v2, Words, Pages
MCReaders == <<"gemini", "helmcode", "compatible">>
MCNominal == [r \in {"gemini", "helmcode", "compatible"} |->
                 IF r = "gemini" THEN "flash" ELSE "qwen"]
MCValues == {v1, v2}
MCWords == [says : {v1, v2}, labelled : BOOLEAN] \union {[says |-> Bad, labelled |-> TRUE]}

\* Two servers: one with every key and Gemini in front, one that has lost the
\* compatible endpoint and Jev's key, and whose cheap preset is mapped to a model.
CONSTANTS Presets, Cheap, CacheSize, MaxEdits, Models, Deployments, Callers
MCModels == [p \in {"local", "compatible", "gemini", "helmcode", "jev"} |->
                CASE p = "local" -> {"small"} [] p = "compatible" -> {"open"}
                  [] p = "gemini" -> {"flash"} [] p = "helmcode" -> {"qwen", "gemma"}
                  [] p = "jev" -> {"jev1"}]
Server == [keys |-> {"gemini", "helmcode", "jev"},
           vision_providers |-> <<"gemini", "compatible", "helmcode">>,
           text_providers |-> <<"jev", "helmcode">>, vlm |-> "open", gemini_model |-> "flash",
           helmcode_text_model |-> "qwen", jev_model |-> "jev1",
           recipes |-> [p \in Presets |-> None]]
MCDeployments ==
    {Server,
     [Server EXCEPT !.keys = {"gemini", "helmcode"}, !.vision_providers = <<"helmcode", "gemini">>, !.vlm = None,
                    !.recipes = [p \in Presets |-> [vision |-> <<"local", "small">>,
                                                    judge |-> <<"helmcode", "gemma">>]]]}

Symmetry == Permutations(MCRequests) \union Permutations(MCValues)

VARIABLES
    part,
    mode, told, stage, forced, pool, focus, agreed, result, proposed,
    looks, blank, page, lines, read, errors,
    deployment, draft, services, edits

Identifier == INSTANCE Committee
Field == INSTANCE SchemaReading
Binding == INSTANCE Binding WITH Requests <- Callers

identifier == <<told, forced, pool, focus, agreed, proposed>>
field == <<looks, blank, page, lines, read, errors>>
binding == <<deployment, draft, services, edits>>

ASSUME PartsAssumption ==
    Identifier!CommitteeAssumption /\ Field!SchemaReadingAssumption /\ Binding!BindingAssumption

\* What the other parts do not use.
NoCase ==
    /\ loads = None /\ status = None /\ evidence = None
    /\ process = None /\ row = None /\ queue = None

NoRequest == version = None /\ request = None

NoIdentifier ==
    told = None /\ forced = None /\ pool = None /\ focus = None /\ agreed = None /\ proposed = None

NoField ==
    looks = None /\ blank = None /\ page = None /\ lines = None /\ read = None /\ errors = None

NoBinding == deployment = None /\ draft = None /\ services = None /\ edits = None

NoResult == mode = None /\ stage = None /\ result = None

MCInit ==
    \/ part = "case" /\ Init /\ NoIdentifier /\ NoField /\ NoBinding /\ NoResult
    \/ part = "identifier" /\ Identifier!Init /\ NoCase /\ NoRequest /\ NoField /\ NoBinding
    \/ part = "field" /\ Field!Init /\ NoCase /\ NoRequest /\ NoIdentifier /\ NoBinding
    \/ part = "binding" /\ Binding!Init /\ NoCase /\ NoIdentifier /\ NoField /\ NoResult

MCNext ==
    \/ part = "case" /\ Next /\ UNCHANGED <<part, mode, stage, result, identifier, field, binding>>
    \/ part = "identifier" /\ Identifier!Next /\ UNCHANGED <<part, vars, field, binding>>
    \/ part = "field" /\ Field!Next /\ UNCHANGED <<part, vars, identifier, binding>>
    \/ /\ part = "binding" /\ Binding!Next
       /\ UNCHANGED <<part, loads, status, evidence, process, row, queue>>
       /\ UNCHANGED <<mode, stage, result, identifier, field>>

allVars == <<part, vars, mode, stage, result, identifier, field, binding>>

MCSpec == MCInit /\ [][MCNext]_allVars

Types == CASE part = "case" -> TypeOK
           [] part = "identifier" -> Identifier!TypeOK
           [] part = "field" -> Field!TypeOK
           [] part = "binding" -> TRUE

\* A reading without errors that kept its key is not repeated for the same reader, plan and
\* rows, and a case that is read again is read by what is published and loaded then (Documents).
ReadOnceAsOfNow ==
    /\ [](part = "case" => NothingReadTwice)
    /\ [][part = "case" => ReadOfNow]_vars

\* An identifier is a value only on the file's word or that of two models (Committee).
IdentifierIsCorroborated == part = "identifier" => Identifier!IdentifierIsCorroborated

\* A field is a value only on evidence that nothing contradicts, and is kept as missing only
\* when every reader that is on has looked for it (SchemaReading).
FieldIsCorroborated ==
    part = "field" => Field!FieldIsCorroborated /\ Field!MissingWasLookedFor

\* Only the models that a version names read its documents (Binding).
OnlyItsOwnReaders == part = "binding" => Binding!OnlyItsOwnReaders
=============================================================================
