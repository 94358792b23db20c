------------------------------ MODULE Journal ------------------------------
(***************************************************************************)
(* The journal of the paid calls to one provider, ocr/journal.py: a file   *)
(* per request, written before the request is sent and after it is         *)
(* answered, under a lock file.  Threads of several processes (the server, *)
(* the command line tools) share the directory; any process may die at any *)
(* step, and a write may fail.                                             *)
(*                                                                         *)
(* The request, its answer and the telemetry are data: an answer is the    *)
(* ordinal of the delivery it came from.  Waits are counted in halves of a *)
(* second, the least that _backoff returns.                                *)
(***************************************************************************)
EXTENDS Naturals, FiniteSets

CONSTANTS
    Callers,      \* the threads that make calls
    Processes,
    ProcessOf,    \* the process each thread belongs to
    Requests,     \* the requests, each with its fingerprint
    SlotLimit,    \* TRACEPAY_VISION_MAX_CONCURRENCY
    Budget,       \* TRACEPAY_PROVIDER_RETRY_MAX_WAIT_S
    MaxAttempts,  \* the turns of the loop, 99 in the code
    MaxCalls,     \* bound on the calls made
    NoCaller

ASSUME JournalAssumption ==
    /\ ProcessOf \in [Callers -> Processes]
    /\ NoCaller \notin Callers
    /\ {SlotLimit, MaxAttempts, MaxCalls} \subseteq Nat \ {0}
    /\ Budget \in Nat

VARIABLES
    record,    \* the file of each request
    holder,    \* who holds its lock file
    call,      \* what each thread is doing
    begun,     \* the number of calls begun
    accepted,  \* how many times the provider took each request and charged it
    orphans,   \* requests sent whose sender no longer listens, still undecided
    forced     \* how many times each request was sent again on purpose

vars == <<record, holder, call, begun, accepted, orphans, forced>>

(***************************************************************************)
(* The file of a request.  "none": it does not exist; "torn": cut short by *)
(* a failure, so that reading it raises; the others are its "state".       *)
(***************************************************************************)
Records == [state : {"none", "torn", "started", "complete", "uncertain", "refused"},
            answer : Nat]

NewRecord(state, answer) == [state |-> state, answer |-> answer]

(***************************************************************************)
(* A thread: idle, waiting for the lock file, opening the file, queued for *)
(* a slot, sending, replied (about to write the outcome) or sleeping.      *)
(* "answer" is the delivery the provider made of what is being sent, 0     *)
(* before it made one; "reply" is how the attempt ended: "busy" a 429 or   *)
(* 503, "refused" another 4xx, "answer" a valid answer, "uncertain" the    *)
(* rest (a timeout, a lost connection, another status, an invalid body).   *)
(***************************************************************************)
Calls == [at : {"waiting", "opening", "queued", "sending", "replied", "sleeping"},
          req : Requests, force : BOOLEAN, attempt : 1 .. MaxAttempts,
          waited : Nat, answer : Nat,
          reply : {"none", "busy", "refused", "uncertain", "answer"}]

NewCall(r, force) ==
    [at |-> "waiting", req |-> r, force |-> force, attempt |-> 1,
     waited |-> 0, answer |-> 0, reply |-> "none"]

Idle == [at |-> "idle"]

\* The call returns or raises; nothing of it is left but the journal.
Ended(c) == [call EXCEPT ![c] = Idle]

Released(r) == [holder EXCEPT ![r] = NoCaller]

-----------------------------------------------------------------------------
TypeOK ==
    /\ record \in [Requests -> Records]
    /\ holder \in [Requests -> Callers \union {NoCaller}]
    /\ call \in [Callers -> Calls \union {Idle}]
    /\ begun \in 0 .. MaxCalls
    /\ accepted \in [Requests -> Nat]
    /\ orphans \in [Requests -> Nat]
    /\ forced \in [Requests -> Nat]

Init ==
    /\ record = [r \in Requests |-> NewRecord("none", 0)]
    /\ holder = [r \in Requests |-> NoCaller]
    /\ call = [c \in Callers |-> Idle]
    /\ begun = 0
    /\ accepted = [r \in Requests |-> 0]
    /\ orphans = [r \in Requests |-> 0]
    /\ forced = [r \in Requests |-> 0]

-----------------------------------------------------------------------------
(***************************************************************************)
(* recorded_call                                                           *)
(***************************************************************************)

Begin(c, r, force) ==
    /\ call[c] = Idle /\ begun < MaxCalls
    /\ call' = [call EXCEPT ![c] = NewCall(r, force)]
    /\ begun' = begun + 1
    /\ UNCHANGED <<record, holder, accepted, orphans, forced>>

\* The lock file stays taken for 60 seconds: the call is given up, unsent.
LockTimeout(c) ==
    /\ call[c].at = "waiting" /\ holder[call[c].req] # NoCaller
    /\ call' = Ended(c)
    /\ UNCHANGED <<record, holder, begun, accepted, orphans, forced>>

\* Mutant: only a recorded uncertainty blocks, not a call that was cut short.
SendableWhenStarted(r, force) ==
    force \/ record[r].state \in {"none", "refused", "started"}

\* Nothing was delivered, so far as the journal tells, or it is to be redone.
Sendable(r, force) == force \/ record[r].state \in {"none", "refused"}

\* Mutant: waits for the outcome of a call that was cut short.
SettledPolls(c) ==
    LET r == call[c].req
    IN  /\ call[c].at = "waiting" /\ holder[r] = NoCaller
        /\ record[r].state = "complete" /\ ~call[c].force
        /\ call' = Ended(c)
        /\ UNCHANGED <<record, holder, begun, accepted, orphans, forced>>

\* With the lock: replay the recorded answer, or raise on anything unclear.
Settled(c) ==
    LET r == call[c].req
    IN  /\ call[c].at = "waiting" /\ holder[r] = NoCaller
        /\ ~Sendable(r, call[c].force)
        /\ call' = Ended(c)
        /\ UNCHANGED <<record, holder, begun, accepted, orphans, forced>>

\* With the lock: the request may be sent.  Opening the file truncates it.
Open(c) ==
    LET r == call[c].req
    IN  /\ call[c].at = "waiting" /\ holder[r] = NoCaller
        /\ Sendable(r, call[c].force)
        /\ holder' = [holder EXCEPT ![r] = c]
        /\ record' = [record EXCEPT ![r] = NewRecord("torn", 0)]
        /\ forced' = IF call[c].force THEN [forced EXCEPT ![r] = @ + 1] ELSE forced
        /\ call' = [call EXCEPT ![c].at = "opening"]
        /\ UNCHANGED <<begun, accepted, orphans>>

\* "started" is on disk before anything is sent.
WriteStarted(c) ==
    /\ call[c].at = "opening"
    /\ record' = [record EXCEPT ![call[c].req] = NewRecord("started", 0)]
    /\ call' = [call EXCEPT ![c].at = "queued"]
    /\ UNCHANGED <<holder, begun, accepted, orphans, forced>>

\* The write of "started" fails: the file stays cut short, nothing is sent.
WriteStartedFails(c) ==
    /\ call[c].at = "opening"
    /\ holder' = Released(call[c].req)
    /\ call' = Ended(c)
    /\ UNCHANGED <<record, begun, accepted, orphans, forced>>

Sending(p) == {d \in Callers : ProcessOf[d] = p /\ call[d].at = "sending"}

\* _slot, a semaphore of the process, taken while holding the lock file.
TakeSlot(c) ==
    /\ call[c].at = "queued"
    /\ Cardinality(Sending(ProcessOf[c])) < SlotLimit
    /\ call' = [call EXCEPT ![c].at = "sending"]
    /\ UNCHANGED <<record, holder, begun, accepted, orphans, forced>>

\* The provider takes the request that is being sent.
Accept(c) ==
    LET r == call[c].req
    IN  /\ call[c].at = "sending" /\ call[c].answer = 0
        /\ accepted' = [accepted EXCEPT ![r] = @ + 1]
        /\ call' = [call EXCEPT ![c].answer = accepted[r] + 1]
        /\ UNCHANGED <<record, holder, begun, orphans, forced>>

\* The provider takes a request whose sender timed out or died.
AcceptLate(r) ==
    /\ orphans[r] > 0
    /\ orphans' = [orphans EXCEPT ![r] = @ - 1]
    /\ accepted' = [accepted EXCEPT ![r] = @ + 1]
    /\ UNCHANGED <<record, holder, call, begun, forced>>

\* A request that was sent and neither taken nor refused may still be taken.
Orphaned(S) ==
    [r \in Requests |->
        IF \E c \in S : call[c].at = "sending" /\ call[c].req = r /\ call[c].answer = 0
        THEN orphans[r] + 1 ELSE orphans[r]]

\* The call ends and frees its slot.  A refused request was not delivered; an
\* uncertain one may have been, before or after the sender gave up.
Reply(c, reply) ==
    /\ call[c].at = "sending"
    /\ reply = "answer" => call[c].answer # 0
    /\ reply \in {"busy", "refused"} => call[c].answer = 0
    /\ call' = [call EXCEPT ![c].at = "replied", ![c].reply = reply]
    /\ orphans' = IF reply = "uncertain" THEN Orphaned({c}) ELSE orphans
    /\ UNCHANGED <<record, holder, begun, accepted, forced>>

\* _backoff: Retry-After, at least a second, or exponential with jitter.
Exponential(attempt) == IF attempt < 5 THEN <<1, 2, 4, 8>>[attempt] ELSE 16

Waits(attempt) ==
    (Exponential(attempt) .. 3 * Exponential(attempt)) \union (2 .. Budget + 2)

Afforded(c, wait) == call[c].waited + wait <= Budget

\* What recorded_call makes of the attempt: only "busy" is tried again.
Retry(c) ==
    \E wait \in Waits(call[c].attempt) :
        /\ Afforded(c, wait)
        /\ call' = [call EXCEPT ![c].at = "sleeping", ![c].answer = 0,
                                ![c].reply = "none", ![c].waited = @ + wait]

GiveUp(c) ==
    /\ call[c].reply = "busy" =>
          \E wait \in Waits(call[c].attempt) : ~Afforded(c, wait)
    /\ call' = Ended(c)

\* Mutant: a timeout is recorded like a refusal.
OutcomeTimesOut(c) ==
    CASE call[c].reply = "answer" -> NewRecord("complete", call[c].answer)
      [] OTHER -> NewRecord("refused", 0)

\* The outcome that _recorded_call writes beside the file and moves over it.
Outcome(c) ==
    CASE call[c].reply = "answer" -> NewRecord("complete", call[c].answer)
      [] call[c].reply = "uncertain" -> NewRecord("uncertain", 0)
      [] OTHER -> NewRecord("refused", 0)

Record(c) ==
    LET r == call[c].req
    IN  /\ call[c].at = "replied"
        /\ \/ record' = [record EXCEPT ![r] = Outcome(c)]
           \/ UNCHANGED record   \* the write or the move fails
        /\ holder' = Released(r)
        /\ (call[c].reply = "busy" /\ Retry(c)) \/ GiveUp(c)
        /\ UNCHANGED <<begun, accepted, orphans, forced>>

\* The next turn of the loop, if there is one, with a span of its own.
Wake(c) ==
    /\ call[c].at = "sleeping"
    /\ call' = IF call[c].attempt < MaxAttempts
               THEN [call EXCEPT ![c].at = "waiting", ![c].attempt = @ + 1]
               ELSE Ended(c)
    /\ UNCHANGED <<record, holder, begun, accepted, orphans, forced>>

-----------------------------------------------------------------------------
\* A process dies: the system frees its lock files, the files stay as they are.
Crash(p) ==
    LET dead == {c \in Callers : ProcessOf[c] = p}
    IN  /\ \E c \in dead : call[c] # Idle
        /\ call' = [c \in Callers |-> IF c \in dead THEN Idle ELSE call[c]]
        /\ holder' = [r \in Requests |-> IF holder[r] \in dead THEN NoCaller ELSE holder[r]]
        /\ orphans' = Orphaned(dead)
        /\ UNCHANGED <<record, begun, accepted, forced>>

\* What a thread does by itself; a reply comes at the latest by a timeout.
Advance(c) ==
    \/ LockTimeout(c)
    \/ Settled(c)
    \/ Open(c)
    \/ WriteStarted(c)
    \/ WriteStartedFails(c)
    \/ TakeSlot(c)
    \/ \E reply \in {"busy", "refused", "uncertain", "answer"} : Reply(c, reply)
    \/ Record(c)
    \/ Wake(c)

Next ==
    \/ \E c \in Callers, r \in Requests, force \in BOOLEAN : Begin(c, r, force)
    \/ \E c \in Callers : Advance(c)
    \/ \E c \in Callers : Accept(c)
    \/ \E r \in Requests : AcceptLate(r)
    \/ \E p \in Processes : Crash(p)

Spec == Init /\ [][Next]_vars

\* Every thread is scheduled, and its client and its lock wait time out.
FairSpec == Spec /\ \A c \in Callers : WF_vars(Advance(c))

-----------------------------------------------------------------------------
(***************************************************************************)
(* Properties                                                              *)
(***************************************************************************)

\* "No automatic retry after uncertain delivery": across threads, processes,
\* crashes, failed writes and late deliveries, the provider takes a request at
\* most once, and once more for each time it was sent again on purpose.
DeliveredOnce ==
    \A r \in Requests : accepted[r] <= 1 + forced[r]

\* Every request on its way is in the journal as started, by the holder of its
\* lock: whatever dies now leaves a file that blocks the next sender.
SentIsJournaled ==
    \A c \in Callers :
        call[c].at = "sending" =>
            /\ record[call[c].req].state = "started"
            /\ holder[call[c].req] = c

\* A complete record holds an answer the provider gave to this very request,
\* and a refused one never hides a delivery: what was accepted is complete,
\* in doubt, or covered by a repetition on purpose.
RefusedMeansUnpaid ==
    \A r \in Requests :
        /\ record[r].state = "complete" => record[r].answer \in 1 .. accepted[r]
        /\ record[r].state \in {"none", "refused"} =>
              accepted[r] + orphans[r] <= forced[r]

\* A paid answer is only ever lost to a forced repetition.
AnswerKept ==
    [][\A r \in Requests :
          record[r].state = "complete" /\ record'[r] # record[r] =>
              forced'[r] = forced[r] + 1]_vars

\* The wait of a call stays in its budget whatever the provider asks for.
WaitsWithinBudget ==
    \A c \in Callers : call[c] # Idle => call[c].waited <= Budget

\* Every call returns: lock files, slots and waits never block it for good.
CallsReturn ==
    \A c \in Callers : call[c] # Idle ~> call[c] = Idle
=============================================================================
