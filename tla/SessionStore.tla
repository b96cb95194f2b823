---------------------------- MODULE SessionStore ----------------------------
(***************************************************************************)
(* The game session and its sequence counter (pkg/session/store.go).       *)
(* ConsumeSequence is a GET followed by a SET of the whole session, two    *)
(* round trips to Redis with nothing between them but the caller's lock.   *)
(***************************************************************************)
EXTENDS BetRequests

VARIABLES
    nextSeq,    \* NextSequence of the stored session
    seqRead,    \* the value a handler's GET returned
    accepted    \* history: handlers whose sequenceId was consumed

sessionVars == <<nextSeq, seqRead, accepted>>

SessionTypeOK ==
    /\ nextSeq \in Nat
    /\ seqRead \in [Handlers -> Nat]
    /\ accepted \subseteq Handlers

\* Create stores NextSequence = 1.
SessionInit ==
    /\ nextSeq = 1
    /\ seqRead = [h \in Handlers |-> 0]
    /\ accepted = {}

\* Mutant of ReadSequence: only a sequenceId of the past is refused.
ReadSequenceAhead(h) ==
    /\ nextSeq <= SeqOf[h]
    /\ seqRead' = [seqRead EXCEPT ![h] = nextSeq]
    /\ UNCHANGED <<nextSeq, accepted>>

\* ConsumeSequence: Get, then compare with the sequenceId of the request.
ReadSequence(h) ==
    /\ nextSeq = SeqOf[h]
    /\ seqRead' = [seqRead EXCEPT ![h] = nextSeq]
    /\ UNCHANGED <<nextSeq, accepted>>

SequenceMismatch(h) ==
    /\ nextSeq # SeqOf[h]
    /\ UNCHANGED sessionVars

\* ConsumeSequence: Set the session back with the counter advanced by one.
WriteSequence(h) ==
    /\ nextSeq' = seqRead[h] + 1
    /\ accepted' = accepted \cup {h}
    /\ UNCHANGED seqRead

=============================================================================
