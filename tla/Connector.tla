----------------------------- MODULE Connector -----------------------------
(***************************************************************************)
(* One download of a paginated HTTP source, sources/http_connector.py:     *)
(* every page in order, each request tried a bounded number of times, with *)
(* a token that is renewed before the server stops taking it.  The source  *)
(* changes as it likes between two requests, and the server fails as it    *)
(* likes.  Records are known by their key, which orders them; their        *)
(* fields, formats and the waiting times are data.                         *)
(***************************************************************************)
EXTENDS Naturals, FiniteSets

CONSTANTS
    Keys,         \* the records there may be
    PageSize,
    MaxAttempts,  \* of one request
    MaxUses,      \* the requests a token is good for, by the configuration
    Margin,       \* the uses left at which it is renewed
    Grants,       \* the requests a token is good for, by the server
    Status,       \* whether the source has a health resource
    MaxChanges    \* bound on the changes of the source

ConnectorAssumption ==
    /\ Keys \subseteq Nat /\ IsFiniteSet(Keys)
    /\ {PageSize, MaxAttempts, MaxUses} \subseteq Nat \ {0}
    /\ Margin \in 0 .. MaxUses - 1
    /\ Grants \subseteq Nat \ {0} /\ IsFiniteSet(Grants)
    /\ Status \in BOOLEAN /\ MaxChanges \in Nat

VARIABLES
    source,    \* the records the server holds
    granted,   \* the requests the server still takes with the token held
    revoked,   \* whether the server ended that token before its time
    at,        \* the request under way, or how the download ended
    attempt,   \* of that request
    waiting,   \* the attempt of the page that a login interrupts
    page,      \* the next page
    first,     \* the records and the pages that the first page reported
    rows,      \* the records downloaded
    uses,      \* the uses the connector counts on, 0 without a token
    lasting,   \* the records held ever since the first page (history variable)
    kinds,     \* how the source changed since then (history variable)
    changes    \* how often it did, against MaxChanges

server == <<source, granted, revoked, lasting, kinds, changes>>
download == <<page, first, rows>>
vars == <<server, at, attempt, waiting, download, uses>>

-----------------------------------------------------------------------------
Reported == [total : 0 .. Cardinality(Keys), pages : 0 .. Cardinality(Keys)]

TypeOK ==
    /\ source \subseteq Keys /\ rows \subseteq Keys /\ lasting \subseteq source
    /\ granted \in Nat /\ revoked \in BOOLEAN
    /\ at \in {"status", "page", "login", "send", "done", "failed"}
    /\ attempt \in 1 .. MaxAttempts /\ waiting \in 1 .. MaxAttempts
    /\ page \in 1 .. Cardinality(Keys) + 2
    /\ first \in Reported
    /\ uses \in 0 .. MaxUses
    /\ kinds \subseteq {"added", "removed"} /\ changes \in 0 .. MaxChanges

Init ==
    /\ source \in SUBSET Keys
    /\ granted = 0 /\ revoked = FALSE /\ uses = 0
    /\ at = IF Status THEN "status" ELSE "page"
    /\ attempt = 1 /\ waiting = 1
    /\ page = 1 /\ first = [total |-> 0, pages |-> 0] /\ rows = {}
    /\ lasting = source /\ kinds = {} /\ changes = 0

-----------------------------------------------------------------------------
(***************************************************************************)
(* The server                                                              *)
(***************************************************************************)

Ceiling(n) == (n + PageSize - 1) \div PageSize
Report == [total |-> Cardinality(source), pages |-> Ceiling(Cardinality(source))]

\* The records of a page: by the place of a record in the order of the keys.
Place(k) == Cardinality({j \in source : j <= k})
RecordsOf(p) == {k \in source : Ceiling(Place(k)) = p}

SourceIs(records, kind) ==
    /\ at \notin {"done", "failed"}
    /\ changes < MaxChanges /\ changes' = changes + 1
    /\ source' = records
    /\ lasting' = lasting \intersect records
    /\ kinds' = kinds \union {kind}
    /\ UNCHANGED <<granted, revoked, at, attempt, waiting, download, uses>>

RecordAdded == \E k \in Keys \ source : SourceIs(source \union {k}, "added")
RecordRemoved == \E k \in source : SourceIs(source \ {k}, "removed")

TokenRevoked ==
    /\ granted > 0 /\ at \notin {"done", "failed"}
    /\ changes < MaxChanges /\ changes' = changes + 1
    /\ granted' = 0 /\ revoked' = TRUE
    /\ UNCHANGED <<source, lasting, kinds, at, attempt, waiting, download, uses>>

-----------------------------------------------------------------------------
(***************************************************************************)
(* A request, with every recovery                                          *)
(***************************************************************************)

\* The health resource is only informative.
Fail == at' = IF at = "status" THEN "page" ELSE "failed"

\* A timeout, a transport error, a 429, a transient status or code, or an answer that is not
\* whole (it cannot be parsed, or its page is short, or a record lacks an element): the next
\* attempt, or the request is given up.
Retries ==
    IF attempt < MaxAttempts
    THEN at' = (IF at = "send" THEN "page" ELSE at) /\ attempt' = attempt + 1
    ELSE Fail /\ attempt' = 1

\* Both sides count a use, however the call ends.
Spend ==
    /\ uses' = uses - 1
    /\ granted' = IF granted > 0 THEN granted - 1 ELSE 0

HealthRead ==
    /\ at = "status"
    /\ at' = "page" /\ attempt' = 1
    /\ UNCHANGED <<server, waiting, download, uses>>

\* An attempt of a page needs a token with uses and time to spare: with one it is sent,
\* without one there is a login first, a request with attempts of its own.
EnsureToken ==
    /\ at = "page"
    /\ \/ uses > Margin /\ at' = "send" /\ UNCHANGED <<attempt, waiting>>
       \/ at' = "login" /\ attempt' = 1 /\ waiting' = attempt
    /\ UNCHANGED <<server, download, uses>>

\* The lower of what the configuration and the login response state.
CountOn(g) == IF g < MaxUses THEN g ELSE MaxUses

LoggedIn ==
    /\ at = "login"
    /\ \E g \in Grants : granted' = g /\ uses' = CountOn(g)
    /\ revoked' = FALSE
    /\ at' = "send" /\ attempt' = waiting
    /\ UNCHANGED <<source, lasting, kinds, changes, waiting, download>>

\* A request without a token, the health or the login, that may be tried again.
OpenRequestFails ==
    /\ at \in {"status", "login"}
    /\ Retries
    /\ UNCHANGED <<server, waiting, download, uses>>

\* An answer that is not retryable, a login without a token among them.
Rejected ==
    /\ at \in {"status", "login"}
    /\ Fail /\ attempt' = 1
    /\ UNCHANGED <<server, waiting, download, uses>>

PageFails ==
    /\ at = "send"
    /\ Spend /\ Retries
    /\ UNCHANGED <<source, revoked, lasting, kinds, changes, waiting, download>>

PageRejected ==
    /\ at = "send"
    /\ Spend /\ Fail /\ attempt' = 1
    /\ UNCHANGED <<source, revoked, lasting, kinds, changes, waiting, download>>

\* The server does not take the token: it is dropped, and the next attempt logs in.
TokenRefused ==
    /\ at = "send" /\ granted = 0
    /\ uses' = 0 /\ Retries
    /\ UNCHANGED <<server, waiting, download>>

-----------------------------------------------------------------------------
(***************************************************************************)
(* The pages                                                               *)
(***************************************************************************)

\* Mutant: the pages are taken as they come.
EndUnchecked(report, taken) == IF page < report.pages THEN "page" ELSE "done"

\* What comes after a page: another, the end, or the failure of the download
\* when the page is not one of the same source as the first.
End(report, taken) ==
    IF \/ page > 1 /\ Report # first
       \/ RecordsOf(page) \intersect rows # {}
    THEN "failed"
    ELSE IF page < report.pages THEN "page"
    ELSE IF Cardinality(taken) # report.total THEN "failed" ELSE "done"

\* A page answered whole.
PageRead ==
    LET report == IF page = 1 THEN Report ELSE first
        taken == rows \union RecordsOf(page)
    IN  /\ at = "send" /\ granted > 0
        /\ Spend
        /\ first' = report /\ rows' = taken
        /\ at' = End(report, taken)
        /\ page' = page + 1 /\ attempt' = 1
        /\ lasting' = IF page = 1 THEN source ELSE lasting
        /\ kinds' = IF page = 1 THEN {} ELSE kinds
        /\ UNCHANGED <<source, revoked, changes, waiting>>

-----------------------------------------------------------------------------
Step ==
    \/ HealthRead \/ EnsureToken \/ LoggedIn \/ OpenRequestFails \/ Rejected
    \/ PageFails \/ PageRejected \/ TokenRefused \/ PageRead

Next == Step \/ RecordAdded \/ RecordRemoved \/ TokenRevoked

Spec == Init /\ [][Next]_vars

-----------------------------------------------------------------------------
\* A download of a source that only grew, or only shrank, while its pages were
\* read holds every record that was there from the first page to the end: the
\* count of each page, the keys that appear twice and the total do not let a
\* shifted page through (_all_pages).
OneWayIsWhole ==
    at = "done" /\ kinds # {"added", "removed"} => lasting \subseteq rows

\* The same, of a download whose attempts and uses stay within their bounds.
DownloadIsWhole == TypeOK /\ OneWayIsWhole

\* What download promises of any source: every record, never partial data.
NothingMissed == at = "done" => lasting \subseteq rows
=============================================================================
