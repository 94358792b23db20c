--------------------------- MODULE DatabaseTables ---------------------------
(* Direct writes to a row of an application table with an etag and an audit
   record (database_api/service.py), beside the application's own transactions
   on the same row.  A write locks its row, compares the etag its client read
   earlier, writes, and commits together with the record of what it changed. *)
EXTENDS Naturals, Sequences, SequencesExt

CONSTANTS
    Requests,   \* writes that overlap
    Values,     \* what the row may hold
    NoRow,      \* there is no row under the key
    MaxChanges, \* bound: records of changes
    MaxOwn      \* bound: commits of the application itself

DatabaseTablesAssumption == NoRow \notin Values

VARIABLES
    row,      \* what is committed under the key
    changes,  \* database_api_changes: [by, operation, before, after] in id order
    write,    \* request |-> what it has done so far
    own       \* commits of the application so far

tableVars == <<row, changes, write, own>>

Operations == {"insert", "update", "delete"}
Resting == [at |-> "idle"]

DatabaseTablesTypeOK ==
    /\ row \in Values \union {NoRow}
    /\ own \in 0..MaxOwn
    /\ \A i \in DOMAIN changes :
          /\ changes[i].by \in Requests
          /\ changes[i].operation \in Operations
          /\ {changes[i].before, changes[i].after} \subseteq Values \union {NoRow}
    /\ \A r \in Requests : write[r].at \in {"idle", "read", "locked", "written"}

Init ==
    /\ row \in Values \union {NoRow}
    /\ changes = << >>
    /\ write = [r \in Requests |-> Resting]
    /\ own = 0

-----------------------------------------------------------------------------
(* Who has locked the row, or is about to add one under its key. *)
Holding(r) == write[r].at \in {"locked", "written"}

Waits(r) == \E other \in Requests \ {r} : Holding(other)

(* one: the client reads the row, and with it the etag of all it holds.  The
   etag is a digest of the values: a row that changed and changed back has the
   one it had. *)
Read(r) ==
    /\ write[r].at = "idle"
    /\ row # NoRow
    /\ write' = [write EXCEPT ![r] = [at |-> "read", etag |-> row]]
    /\ UNCHANGED <<row, changes, own>>

\* Mutant: the row is read without its lock.
MatchUnlocked(r) == TRUE

(* select ... for update: it waits, and then sees the row as it is now. *)
Match(r) == ~Waits(r)

\* Mutant: the etag of the request is not compared with the locked row.
StaleOnceGone(r) == row = NoRow

(* The row is gone (404), or is no longer what the client read (409). *)
Stale(r) == row = NoRow \/ row # write[r].etag

Lock(r) ==
    /\ write[r].at = "read"
    /\ Match(r)
    /\ write' = [write EXCEPT ![r] =
          IF Stale(r) THEN Resting
          ELSE [at |-> "locked", etag |-> @.etag, before |-> row]]
    /\ UNCHANGED <<row, changes, own>>

Update(r, new) ==
    /\ write[r].at = "locked"
    /\ write' = [write EXCEPT ![r] =
          [at |-> "written", operation |-> "update", etag |-> @.etag,
           before |-> @.before, after |-> new]]
    /\ UNCHANGED <<row, changes, own>>

Delete(r) ==
    /\ write[r].at = "locked"
    /\ write' = [write EXCEPT ![r] =
          [at |-> "written", operation |-> "delete", etag |-> @.etag,
           before |-> @.before, after |-> NoRow]]
    /\ UNCHANGED <<row, changes, own>>

(* An insert has no row to lock: its key waits for one that is being added or
   deleted, and fails on one that is there (409). *)
Insert(r, new) ==
    /\ write[r].at = "idle"
    /\ ~Waits(r)
    /\ row = NoRow
    /\ write' = [write EXCEPT ![r] =
          [at |-> "written", operation |-> "insert", before |-> NoRow, after |-> new]]
    /\ UNCHANGED <<row, changes, own>>

(* The change and its record are one transaction. *)
Recorded(r) == Append(changes, [by |-> r, operation |-> write[r].operation,
                                before |-> write[r].before, after |-> write[r].after])

Commit(r) ==
    /\ write[r].at = "written"
    /\ Len(changes) < MaxChanges
    /\ row' = write[r].after
    /\ changes' = Recorded(r)
    /\ write' = [write EXCEPT ![r] = Resting]
    /\ UNCHANGED own

(* A timeout of the statement, a conflict or a lost connection: nothing of it
   is left, and the id the record took from its sequence is never used. *)
Rollback(r) ==
    /\ write[r].at # "idle"
    /\ write' = [write EXCEPT ![r] = Resting]
    /\ UNCHANGED <<row, changes, own>>

(* A request of the application changes the same row, which it has to lock too,
   and leaves no record here. *)
ApplicationWrites(new) ==
    /\ own < MaxOwn
    /\ \A r \in Requests : ~Holding(r)
    /\ row' = new
    /\ own' = own + 1
    /\ UNCHANGED <<changes, write>>

Next ==
    \/ \E r \in Requests :
          \/ Read(r)
          \/ Lock(r)
          \/ \E new \in Values : Update(r, new) \/ Insert(r, new)
          \/ Delete(r)
          \/ Commit(r)
          \/ Rollback(r)
    \/ \E new \in Values \union {NoRow} : ApplicationWrites(new)

Spec == Init /\ [][Next]_tableVars

-----------------------------------------------------------------------------
\* What the client of a request read before it asked for the change it is committing.
ReadByItsClient(r) == IF write[r].operation = "insert" THEN NoRow ELSE write[r].etag

(* A change is committed over exactly the row its client had read, whatever other
   clients and the application wrote between the reading and the lock ("Row
   changed; read it again before retrying"), and an insert over none; its record
   says what it replaced and what it left, so that undoing the records of a row
   the application let alone leads back one by one. *)
RecordsTheChange ==
    changes' # changes =>
        LET change == Last(changes')
        IN  /\ row = ReadByItsClient(change.by)
            /\ change.before = row
            /\ change.after = row'

ReplacesWhatWasRead == [][RecordsTheChange]_tableVars

=============================================================================
