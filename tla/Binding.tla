------------------------------- MODULE Binding -------------------------------
(* Which models may read the documents of a process (processes/execution.py).  A
   version names its visual reader and its text judge; a request binds them to
   the keys of the deployment (ingestion_settings) and keeps the bound service in
   a small cache (ingestion/service.py).  Who is really asked is decided much
   later, by the chains of the visual reader, the judge and the field reader,
   which look at providers and keys only. *)
EXTENDS Naturals, Sequences, SequencesExt, FiniteSets

CONSTANTS
    Requests,
    Deployments, \* settings of the environment: see Deployment
    Models,      \* provider |-> the models a version may name
    Presets,
    Cheap,       \* the presets without remote readers
    CacheSize,   \* bound services that are kept
    MaxEdits,    \* bound: edits of the draft and restarts
    None

Hosted == {"gemini", "helmcode", "jev"}
VisualProviders == {"local", "compatible", "gemini", "helmcode"}
JudgeProviders == {"local", "compatible", "jev", "helmcode"}

Named(providers) == {None} \union UNION {{<<p, m>> : m \in Models[p]} : p \in providers}

BindingAssumption ==
    /\ Cheap \subseteq Presets
    /\ CacheSize \in Nat \ {0}
    /\ \A d \in Deployments :
          /\ d.keys \subseteq Hosted
          /\ d.vision_providers \in Seq({"compatible", "gemini", "helmcode"})
          /\ d.text_providers \in Seq({"jev", "helmcode"})
          /\ d.vlm \in Models["compatible"] \union {None}
          /\ d.recipes \in [Presets -> [vision : Named(VisualProviders), judge : Named(JudgeProviders)]
                                       \union {None}]

VARIABLES
    deployment,
    draft, version, \* their execution settings; None in legacy snapshots
    services,       \* configured_services: [key, settings], the oldest first
    request,        \* request |-> the settings it reads with, and whose they are
    edits           \* so far

bindingVars == <<deployment, draft, version, services, request, edits>>

Custom == "custom"

(* ExecutionSettings: what a manager may save. *)
Valid(c) ==
    /\ c.local_only => \A r \in {c.vision, c.judge} \ {None} : r[1] = "local"
    /\ \A r \in {c.vision, c.judge} \ {None} : r[1] = "compatible" => c.compatible

Configs ==
    {c \in [local_only : BOOLEAN, compatible : BOOLEAN, preset : Presets \union {Custom},
            vision : Named(VisualProviders), judge : Named(JudgeProviders)] : Valid(c)}

-----------------------------------------------------------------------------
(* A service asks models at endpoints: its settings, and three chains. *)
First(set) == CHOOSE x \in set : TRUE

VisualChain(s) ==
    LET Links(p) == CASE p = "compatible" /\ None \notin {s.vlm_url, s.vlm_model} -> {<<s.vlm_url, s.vlm_model>>}
                      [] p = "gemini" /\ "gemini" \in s.keys -> {<<"gemini", s.gemini_model>>}
                      [] p = "helmcode" /\ "helmcode" \in s.keys ->
                            {<<"helmcode", m>> : m \in s.helmcode_vision_models}
                      [] OTHER -> {}
    IN  UNION {Links(p) : p \in Range(s.vision_providers)}

JudgeChain(s) ==
    IF s.judge_url # None
    THEN {<<s.judge_url, s.jev_model>>}
    ELSE {<<p, IF p = "jev" THEN s.jev_model ELSE s.helmcode_text_model>> :
             p \in Range(s.text_providers) \intersect s.keys}

(* The field reader maps with the text model where the visual one is Helmcode's. *)
FieldChain(s) ==
    {<<link[1], IF link[1] = "helmcode" /\ "helmcode" \in Range(s.text_providers)
                THEN s.helmcode_text_model ELSE link[2]>> : link \in VisualChain(s)}

Asked(s) == VisualChain(s) \union JudgeChain(s) \union FieldChain(s)

(* The service of the deployment itself. *)
Base(d) ==
    [keys |-> d.keys, vision_providers |-> d.vision_providers, text_providers |-> d.text_providers,
     vlm_url |-> IF d.vlm = None THEN None ELSE "compatible", vlm_model |-> d.vlm,
     gemini_model |-> d.gemini_model, helmcode_vision_models |-> Models["helmcode"],
     helmcode_text_model |-> d.helmcode_text_model, jev_model |-> d.jev_model,
     judge_url |-> None]

-----------------------------------------------------------------------------
Provider(reader) == IF reader = None THEN "disabled" ELSE reader[1]
Model(reader) == IF reader = None THEN None ELSE reader[2]

Endpoint(provider) == IF provider \in {"local", "compatible"} THEN provider ELSE None

\* Mutant: a version without a judge keeps the deployment's.
TextProvidersInherited(c, d) ==
    IF c.judge = None THEN d.text_providers
    ELSE IF Provider(c.judge) \in {"jev", "helmcode"} THEN <<Provider(c.judge)>> ELSE << >>

TextProviders(c, d) ==
    IF Provider(c.judge) \in {"jev", "helmcode"} THEN <<Provider(c.judge)>> ELSE << >>

(* ingestion_settings: the readers of the version, with the keys they need. *)
Bound(c, d) ==
    LET vision == Provider(c.vision)
        judge == Provider(c.judge)
    IN  [keys |-> d.keys \intersect {vision, judge},
         vision_providers |-> IF vision \in {"local", "compatible"} THEN <<"compatible">>
                              ELSE IF vision \in {"gemini", "helmcode"} THEN <<vision>>
                              ELSE << >>,
         text_providers |-> TextProviders(c, d),
         vlm_url |-> Endpoint(vision),
         vlm_model |-> IF Endpoint(vision) = None THEN None ELSE Model(c.vision),
         gemini_model |-> IF vision = "gemini" THEN Model(c.vision) ELSE d.gemini_model,
         helmcode_vision_models |-> IF vision = "helmcode" THEN {Model(c.vision)} ELSE {},
         helmcode_text_model |-> IF judge = "helmcode" THEN Model(c.judge)
                                 ELSE d.helmcode_text_model,
         jev_model |-> Model(c.judge),
         judge_url |-> Endpoint(judge)]

(* read: a snapshot without settings gets the deployment's first readers. *)
ModelOf(d, p) ==
    CASE p = "compatible" -> d.vlm [] p = "gemini" -> d.gemini_model
      [] p = "jev" -> d.jev_model [] OTHER -> d.helmcode_text_model

Foremost(list, set) ==
    list[First({i \in DOMAIN list : list[i] \in set /\ \A j \in 1 .. i - 1 : list[j] \notin set})]

Reader(d, list, set) ==
    IF set = {} THEN None ELSE <<Foremost(list, set), ModelOf(d, Foremost(list, set))>>

Defaults(d) ==
    LET visual == {p \in Range(d.vision_providers) :
                      VisualChain([Base(d) EXCEPT !.vision_providers = <<p>>]) # {}}
        text == Range(d.text_providers) \intersect d.keys
    IN  [local_only |-> FALSE, compatible |-> d.vlm # None, preset |-> Custom,
         vision |-> Reader(d, d.vision_providers, visual), judge |-> Reader(d, d.text_providers, text)]

(* preset: the cheap ones read without models, and a recipe of the deployment
   replaces what it names. *)
Recipe(c, name, d) ==
    LET plain == [c EXCEPT !.preset = name,
                           !.vision = IF name \in Cheap THEN None ELSE @,
                           !.judge = IF name \in Cheap THEN None ELSE @]
    IN  IF d.recipes[name] = None THEN plain
        ELSE [plain EXCEPT !.vision = d.recipes[name].vision, !.judge = d.recipes[name].judge]

-----------------------------------------------------------------------------
Resting == [at |-> "idle"]

Init ==
    /\ deployment \in Deployments
    /\ draft = None /\ version = None
    /\ services = << >>
    /\ request = [r \in Requests |-> Resting]
    /\ edits = 0

Current == IF draft # None THEN draft
           ELSE IF version # None THEN version
           ELSE Defaults(deployment)

(* edit: a preset's name stays only on what the preset makes, or on what is
   there already. *)
Save(c) ==
    LET kept == c.preset = Custom \/ c = Current \/
                (Valid(Recipe(Current, c.preset, deployment)) /\
                 c = Recipe(Current, c.preset, deployment))
    IN  /\ edits < MaxEdits
        /\ draft' = IF kept THEN c ELSE [c EXCEPT !.preset = Custom]
        /\ edits' = edits + 1
        /\ UNCHANGED <<deployment, version, services, request>>

(* Any other edit of the draft writes down the settings it had without. *)
SaveOther ==
    /\ edits < MaxEdits
    /\ draft = None /\ version = None
    /\ draft' = Defaults(deployment)
    /\ edits' = edits + 1
    /\ UNCHANGED <<deployment, version, services, request>>

Publish ==
    /\ draft # None
    /\ version' = draft
    /\ draft' = None
    /\ UNCHANGED <<deployment, services, request, edits>>

(* The key of a bound service leaves out the agents and the name of the preset. *)
Key(c) == [c EXCEPT !.preset = Custom]

Cached(key) == {i \in DOMAIN services : services[i].key = key}

(* for_process and configured: the settings in force, and the service made for
   them, most recently used last; the oldest one goes when there are too many.
   Without settings the deployment's own service reads. *)
Bind(r) ==
    LET c == IF version # None THEN version ELSE draft
        key == Key(c)
        service == IF Cached(key) # {} THEN services[First(Cached(key))]
                   ELSE [key |-> key, settings |-> Bound(c, deployment)]
        others == IF Cached(key) # {} THEN RemoveAt(services, First(Cached(key)))
                  ELSE services
        kept == Append(others, service)
    IN  /\ request[r].at = "idle"
        /\ IF c = None
           THEN /\ request' = [request EXCEPT ![r] =
                      [at |-> "reading", config |-> None, settings |-> Base(deployment)]]
                /\ UNCHANGED services
           ELSE /\ request' = [request EXCEPT ![r] =
                      [at |-> "reading", config |-> c, settings |-> service.settings]]
                /\ services' = IF Len(kept) > CacheSize THEN Tail(kept) ELSE kept
        /\ UNCHANGED <<deployment, draft, version, edits>>

Finish(r) ==
    /\ request[r].at = "reading"
    /\ request' = [request EXCEPT ![r] = Resting]
    /\ UNCHANGED <<deployment, draft, version, services, edits>>

(* The server starts again with another environment. *)
Restart(d) ==
    /\ edits < MaxEdits
    /\ d # deployment
    /\ deployment' = d
    /\ services' = << >>
    /\ request' = [r \in Requests |-> Resting]
    /\ edits' = edits + 1
    /\ UNCHANGED <<draft, version>>

Next ==
    \/ \E c \in Configs : Save(c)
    \/ SaveOther
    \/ Publish
    \/ \E r \in Requests : Bind(r) \/ Finish(r)
    \/ \E d \in Deployments : Restart(d)

Spec == Init /\ [][Next]_bindingVars

-----------------------------------------------------------------------------
(* "A version selects its readers explicitly; never inherit deployment
   fallbacks" (processes/execution.py:212): whatever keys, providers and cached
   services the server has, a document is sent only to the models the settings
   name, and by a local-only process only to the local server. *)
OnlyItsOwnReaders ==
    \A r \in Requests :
        (request[r].at = "reading" /\ request[r].config # None) =>
            LET c == request[r].config
            IN  /\ Asked(request[r].settings) \subseteq {c.vision, c.judge}
                /\ c.local_only => \A asked \in Asked(request[r].settings) : asked[1] = "local"
=============================================================================
