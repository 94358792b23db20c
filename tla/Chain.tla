------------------------------- MODULE Chain -------------------------------
(***************************************************************************)
(* The chain of remote readers, ocr/vision.py and ocr/errors.py: providers *)
(* are asked in the configured order, one that fails gives way to the next *)
(* and may rest for a while, and at most two readings of one image are     *)
(* kept, of two models, whoever serves them.                               *)
(***************************************************************************)
EXTENDS Naturals, Sequences, FiniteSets

CONSTANTS
    Readers,   \* the identities of the chain, provider and model, in their order
    Nominal    \* the model of each identity, without its vendor's path

\* Whom the chain may ask.
Identities == {Readers[i] : i \in DOMAIN Readers}

ChainAssumption ==
    /\ Readers \in Seq(Identities) /\ DOMAIN Nominal = Identities
    /\ \A i, j \in DOMAIN Readers : Readers[i] = Readers[j] => i = j

-----------------------------------------------------------------------------
\* _read: a whole transcript is an answer, from the network or from the journal.  What is
\* lost, refused, cut off, missing, too long or a phrase repeated over and over is a failure
\* of the provider.
Responses == {"answers", "fails"}

\* What a reader does when its turn comes: it answers, it fails, or it rests because it has
\* failed before, in this reading or in another one of the process.
Turns == [Identities -> Responses \union {"rests"}]

\* The places of the chain that answer, and the reader in the foremost of some places.
Answering(turns) == {i \in DOMAIN Readers : turns[Readers[i]] = "answers"}
Foremost(places) == {Readers[i] : i \in {j \in places : \A k \in places : j <= k}}

\* transcribe: the first that answers.
First(turns) == Foremost(Answering(turns))

\* transcribe_readers: the first that answer, two at most, each of another model.
Collected(turns) ==
    LET first == First(turns)
        others == {i \in Answering(turns) : \A r \in first : Nominal[Readers[i]] # Nominal[r]}
    IN  first \union Foremost(others)

Transcribed(mode, turns) == IF mode = "api" THEN Collected(turns) ELSE First(turns)
=============================================================================
