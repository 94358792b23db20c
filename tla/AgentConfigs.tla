---------------------------- MODULE AgentConfigs ----------------------------
(* The versioned configuration of one agent role in one use case
   (use_cases/service.py): the pack is loaded again at each start, managers
   configure the role and activate older versions.  Every operation is one
   transaction of several statements at READ COMMITTED: it sees what others
   committed before the statement, its UPDATE waits for the rows others hold and
   misses the ones inserted since it began, and its INSERT waits for a row
   another transaction is about to add under the same key. *)
EXTENDS Naturals, FiniteSets, Functions

CONSTANTS
    Requests,   \* operations that overlap
    Configs,    \* settings a manager saves
    Pack,       \* the settings of the use case's file
    MaxConfigs  \* bound: versions of the role

AgentConfigsAssumption ==
    /\ Pack \notin Configs
    /\ MaxConfigs \in Nat \ {0}

VARIABLES
    configs,  \* committed: version |-> [settings, active, author]
    request   \* request |-> what it has done so far

configVars == <<configs, request>>

Numbers == 1..MaxConfigs
Rows == [settings: Configs \union {Pack}, active: BOOLEAN, author: {"pack", "manager"}]

Idle == [at |-> "idle"]

Partial(S, T) == UNION {[D -> T] : D \in SUBSET S}

AgentConfigsTypeOK ==
    /\ configs \in Partial(Numbers, Rows)
    /\ \A r \in Requests :
          request[r].at \in {"idle", "read", "deactivate", "write", "commit"}

Init ==
    /\ configs = << >>
    /\ request = [r \in Requests |-> Idle]

-----------------------------------------------------------------------------
(* What a transaction has written and not yet committed: held from others. *)
Writes(r) == IF request[r].at \in {"write", "commit"} THEN request[r].writes ELSE << >>

Held(r, versions) ==
    \E other \in Requests \ {r} : DOMAIN Writes(other) \intersect versions # {}

(* Version |-> row as the transaction itself sees them. *)
Seen(r) == [v \in DOMAIN configs \union DOMAIN Writes(r) |->
               IF v \in DOMAIN Writes(r) THEN Writes(r)[v] ELSE configs[v]]

Last(rows) == IF DOMAIN rows = {} THEN 0
              ELSE CHOOSE v \in DOMAIN rows : \A w \in DOMAIN rows : w <= v

\* Mutant: the role has no index on its active version.
ClashOfVersions(v, row, rows) == v \in DOMAIN rows

(* The unique keys of the table: the version, and one active row. *)
Clash(v, row, rows) ==
    \/ v \in DOMAIN rows
    \/ row.active /\ \E w \in DOMAIN rows : rows[w].active

(* _load_agents reads what is stored; settings already there add nothing. *)
StartLoad(r) ==
    /\ request[r].at = "idle"
    /\ \A v \in DOMAIN configs : configs[v].settings # Pack
    /\ request' = [request EXCEPT ![r] =
          [at |-> "read", settings |-> Pack, author |-> "pack",
           activate |-> DOMAIN configs = {}]]
    /\ UNCHANGED configs

(* configure: the new version is active from now on. *)
StartConfigure(r, settings) ==
    /\ request[r].at = "idle"
    /\ request' = [request EXCEPT ![r] =
          [at |-> "read", settings |-> settings, author |-> "manager", activate |-> TRUE]]
    /\ UNCHANGED configs

(* _add: the number after the highest, and the rows its UPDATE will touch. *)
ReadLast(r) ==
    LET new == [settings |-> request[r].settings, active |-> request[r].activate,
                author |-> request[r].author]
        version == Last(configs) + 1
    IN  /\ request[r].at = "read"
        /\ version <= MaxConfigs
        /\ request' = [request EXCEPT ![r] =
              IF new.active
              THEN [at |-> "deactivate", version |-> version, row |-> new]
              ELSE [at |-> "write", version |-> version, row |-> new, writes |-> << >>]]
        /\ UNCHANGED configs

(* activate: an existing version that is not the active one when it is read. *)
StartActivate(r, version) ==
    /\ request[r].at = "idle"
    /\ version \in DOMAIN configs
    /\ ~configs[version].active
    /\ request' = [request EXCEPT ![r] =
          [at |-> "deactivate", version |-> version, row |-> [configs[version] EXCEPT !.active = TRUE]]]
    /\ UNCHANGED configs

(* _deactivate: the statement starts, and waits here for who holds the rows it
   found. *)
StartUpdate(r) ==
    /\ request[r].at = "deactivate"
    /\ "found" \notin DOMAIN request[r]
    /\ request' = [request EXCEPT ![r] =
          [at |-> "deactivate", version |-> @.version, row |-> @.row, found |-> DOMAIN configs]]
    /\ UNCHANGED configs

Deactivate(r) ==
    /\ request[r].at = "deactivate"
    /\ "found" \in DOMAIN request[r]
    /\ ~Held(r, request[r].found)
    /\ request' = [request EXCEPT ![r] =
          [at |-> "write", version |-> @.version, row |-> @.row,
           writes |-> [v \in @.found |-> [configs[v] EXCEPT !.active = FALSE]]]]
    /\ UNCHANGED configs

(* The new row, or the one activated and now written again, reaches the indexes:
   it waits for a row of another transaction under the same key and fails on a
   committed one. *)
Write(r) ==
    LET new == request[r]
        others == Restrict(Seen(r), DOMAIN Seen(r) \ ({new.version} \intersect DOMAIN new.writes))
    IN  /\ new.at = "write"
        /\ \A other \in Requests \ {r} : ~Clash(new.version, new.row, Writes(other))
        /\ request' = [request EXCEPT ![r] =
              IF Clash(new.version, new.row, others) THEN Idle
              ELSE [at |-> "commit",
                    writes |-> [v \in DOMAIN new.writes \union {new.version} |->
                                   IF v = new.version THEN new.row ELSE new.writes[v]]]]
        /\ UNCHANGED configs

Commit(r) ==
    /\ request[r].at = "commit"
    /\ configs' = Seen(r)
    /\ request' = [request EXCEPT ![r] = Idle]

(* The connection is lost before the commit. *)
Abort(r) ==
    /\ request[r].at # "idle"
    /\ request' = [request EXCEPT ![r] = Idle]
    /\ UNCHANGED configs

Next ==
    \E r \in Requests :
        \/ StartLoad(r)
        \/ \E settings \in Configs : StartConfigure(r, settings)
        \/ \E version \in Numbers : StartActivate(r, version)
        \/ ReadLast(r)
        \/ StartUpdate(r)
        \/ Deactivate(r)
        \/ Write(r)
        \/ Commit(r)
        \/ Abort(r)

Spec == Init /\ [][Next]_configVars

-----------------------------------------------------------------------------
(* A role that has any version has exactly one active at every commit, whatever
   loads, configurations and rollbacks overlap: agents always find one way to
   run, and never two (active, setups). *)
OneActive ==
    DOMAIN configs # {} => Cardinality({v \in DOMAIN configs : configs[v].active}) = 1

(* "Loading a use case never overrides what was decided at runtime" (line 3).
   Not so when a manager's first configuration commits between the load's two
   reads: the load found nothing stored, and deactivates it. *)
LoadNeverOverrides ==
    [][\A v \in DOMAIN configs : (configs[v].active /\ configs[v].author = "manager") =>
          \A w \in DOMAIN configs' \ DOMAIN configs : ~(configs'[w].active /\ configs'[w].author = "pack")]_configs

=============================================================================
