--------------------------- MODULE SettleConsumer ---------------------------
(***************************************************************************)
(* The settle consumer (services/consumer): the loop of Worker.Run, which  *)
(* fetches a settled round, claims its event in processed_events and adds  *)
(* its row to the batcher (pkg/batch), and the ticker loop of the batcher. *)
(* Either of the two flushes: it takes the batch, writes it to ClickHouse  *)
(* and commits its offsets.                                                *)
(*                                                                         *)
(* The statements of the loops interleave.  SIGTERM cancels the context of *)
(* Run, and the calls it makes from then on may fail; the ticker loop has  *)
(* a detached context.  An event is retained in processed_events for as    *)
(* long as the model runs (seven days in the code).                        *)
(***************************************************************************)
EXTENDS KafkaPartition, Sequences

CONSTANTS
    Events,
    Identified,     \* events with an event id; the old bare format has none
    EventAt,        \* the event of a message
    Unreadable,     \* offsets of messages that are not JSON of an event
    MaxSize,        \* Batch.MaxSize
    MaxFaults,      \* bound: calls of MySQL, ClickHouse and Kafka that fail
    MaxStops,       \* bound: process deaths and SIGTERMs
    MaxRejoins      \* bound: rebalances of the group

ASSUME SettleAssumption ==
    /\ Identified \subseteq Events
    /\ EventAt \in [Offsets -> Events]
    /\ Unreadable \subseteq Offsets
    /\ MaxSize \in Nat \ {0}
    /\ MaxFaults \in Nat /\ MaxStops \in Nat /\ MaxRejoins \in Nat

VARIABLES
    stage,      \* where either loop is
    current,    \* the message Run works on, 0 between two
    items,      \* Batcher.items
    batch,      \* the items a loop is flushing
    stopping,   \* the context of Run is cancelled
    claims,     \* processed_events
    rows,       \* rows of an event inserted into ClickHouse
    watched,    \* how often an event was handed to the RTP watchdog
    unclaimed,  \* history: claims of an event that failed and were let pass
    skipped,    \* history: messages whose parsing failed
    dropped,    \* history: events whose row was lost from memory
    faults, stops, rejoins

memoryVars  == <<stage, current, items, batch, stopping>>
storeVars   == <<claims, rows, watched>>
historyVars == <<unclaimed, skipped, dropped>>
boundVars   == <<faults, stops, rejoins>>
settleVars  == <<partitionVars, memoryVars, storeVars, historyVars, boundVars>>

Loops == {"run", "ticker"}

Stages == {"fetch", "claim", "watch", "add", "skip", "stop",   \* of Run
           "tick",                                             \* of the ticker loop
           "insert", "commit", "down"}

\* The type invariant.
SettleTypeOK ==
    /\ PartitionTypeOK
    /\ stage \in [Loops -> Stages]
    /\ current \in Offsets \cup {0}
    /\ items \in Seq(Offsets) /\ batch \in [Loops -> Seq(Offsets)]
    /\ stopping \in BOOLEAN
    /\ claims \subseteq Identified
    /\ rows \in [Events -> Nat] /\ watched \in [Events -> Nat]
    /\ unclaimed \in [Events -> Nat]
    /\ skipped \subseteq Offsets /\ dropped \subseteq Events
    /\ faults \in 0..MaxFaults /\ stops \in 0..MaxStops /\ rejoins \in 0..MaxRejoins

Up == stage["run"] # "down"

Init ==
    /\ PartitionInit
    /\ stage = [l \in Loops |-> IF l = "run" THEN "fetch" ELSE "tick"]
    /\ current = 0
    /\ items = <<>> /\ batch = [l \in Loops |-> <<>>]
    /\ stopping = FALSE
    /\ claims = {}
    /\ rows = [e \in Events |-> 0] /\ watched = [e \in Events |-> 0]
    /\ unclaimed = [e \in Events |-> 0]
    /\ skipped = {} /\ dropped = {}
    /\ faults = 0 /\ stops = 0 /\ rejoins = 0

OffsetsIn(s) == {s[i] : i \in DOMAIN s}

EventsIn(s) == {EventAt[o] : o \in OffsetsIn(s)}

\* The row of message o is on its way to ClickHouse.
Held(o) ==
    \/ current = o /\ stage["run"] \in {"claim", "watch", "add"}
    \/ o \in OffsetsIn(items)
    \/ \E l \in Loops : stage[l] = "insert" /\ o \in OffsetsIn(batch[l])

Goto(l, s) == stage' = [stage EXCEPT ![l] = s]

\* After a flush the loop goes on.
Resume(l) == Goto(l, IF l = "run" THEN "fetch" ELSE "tick")

\* A call of loop l fails: the service is down, or the context is cancelled.
Fails(l) ==
    /\ \/ faults < MaxFaults /\ faults' = faults + 1
       \/ l = "run" /\ stopping /\ UNCHANGED faults
    /\ UNCHANGED <<stops, rejoins>>

-----------------------------------------------------------------------------
(* Worker.Run *)

Fetch ==
    /\ stage["run"] = "fetch"
    /\ FetchMessage
    /\ current' = position
    /\ Goto("run", "claim")
    /\ UNCHANGED <<items, batch, stopping, storeVars, historyVars, boundVars>>

\* parseMessage fails: the message is no event, or the merchant, which is
\* looked up under a context of its own, could not be read.
ParseFails ==
    /\ stage["run"] = "claim"
    /\ \/ current \in Unreadable /\ UNCHANGED boundVars
       \/ faults < MaxFaults /\ faults' = faults + 1 /\ UNCHANGED <<stops, rejoins>>
    /\ skipped' = skipped \cup {current}
    /\ Goto("run", "skip")
    /\ UNCHANGED <<partitionVars, current, items, batch, stopping, storeVars, unclaimed, dropped>>

\* parseMessage has returned the row, and claimIdempotency is called.
Parsed == stage["run"] = "claim" /\ current \notin Unreadable

\* Mutant of Claimable: the insert reports a row for a duplicate key too.
ClaimableAlways(e) == TRUE

\* AcquireInTx can insert the row of e.  An event without an id has none.
Claimable(e) == e \notin claims

\* Mutant of Registered: an empty id is inserted like any other.
RegisteredAlways(e) == {e}

\* An event without an id leaves no row.
Registered(e) == {e} \cap Identified

\* claimIdempotency answers true.  Its transaction commits by itself.
Claim ==
    LET e == EventAt[current] IN
    /\ Parsed /\ Claimable(e)
    /\ claims' = claims \cup Registered(e)
    /\ Goto("run", "watch")
    /\ UNCHANGED <<partitionVars, current, items, batch, stopping, rows, watched, historyVars, boundVars>>

\* ErrDuplicateEvent.
ClaimDuplicate ==
    /\ Parsed /\ ~ Claimable(EventAt[current])
    /\ Goto("run", "skip")
    /\ UNCHANGED <<partitionVars, current, items, batch, stopping, storeVars, historyVars, boundVars>>

\* Any other error of the transaction, a lost answer of its commit among
\* them, answers true as well.
ClaimError ==
    LET e == EventAt[current] IN
    /\ Parsed /\ e \in Identified
    /\ Fails("run")
    /\ claims' \in {claims, claims \cup {e}}
    /\ unclaimed' = [unclaimed EXCEPT ![e] = @ + 1]
    /\ Goto("run", "watch")
    /\ UNCHANGED <<partitionVars, current, items, batch, stopping, rows, watched, skipped, dropped>>

\* The offset of a message that needs no row is committed at once.
CommitSkipped ==
    /\ stage["run"] = "skip"
    /\ \/ CommitMessages({current}) /\ UNCHANGED boundVars
       \/ Fails("run") /\ UNCHANGED partitionVars
    /\ Goto("run", "fetch") /\ current' = 0
    /\ UNCHANGED <<items, batch, stopping, storeVars, historyVars>>

\* evaluateRtp, when the watchdog is enabled; its errors are only logged.
EvaluateRtp ==
    LET e == EventAt[current] IN
    /\ stage["run"] = "watch"
    /\ watched' = [watched EXCEPT ![e] = @ + 1]
    /\ Goto("run", "add")
    /\ UNCHANGED <<partitionVars, current, items, batch, stopping, claims, rows, historyVars, boundVars>>

\* Batcher.Add, and the first half of Flush when the batch is full.
Add ==
    LET added == Append(items, current) IN
    /\ stage["run"] = "add"
    /\ IF Len(added) >= MaxSize
         THEN /\ items' = <<>> /\ batch' = [batch EXCEPT !["run"] = added]
              /\ Goto("run", "insert")
         ELSE /\ items' = added /\ UNCHANGED batch
              /\ Goto("run", "fetch")
    /\ current' = 0
    /\ UNCHANGED <<partitionVars, stopping, storeVars, historyVars, boundVars>>

\* Mutant of StopFetching: Run goes on after an error of FetchMessage.
StopFetchingNever == FALSE /\ UNCHANGED settleVars

\* FetchMessage returns the error of the cancelled context: Batcher.Stop.
StopFetching ==
    /\ stage["run"] = "fetch" /\ stopping
    /\ Goto("run", "stop")
    /\ UNCHANGED <<partitionVars, current, items, batch, stopping, storeVars, historyVars, boundVars>>

-----------------------------------------------------------------------------
(* The batcher *)

\* Mutant of Due: the ticker waits for a full batch.
DueWhenFull == Len(items) >= MaxSize

\* The interval has passed, or Stop asks for the last flush.
Due == items # <<>>

\* Flush under the mutex, from the ticker loop.
TakeBatch ==
    /\ stage["ticker"] = "tick" /\ Due
    /\ batch' = [batch EXCEPT !["ticker"] = items]
    /\ items' = <<>>
    /\ Goto("ticker", "insert")
    /\ UNCHANGED <<partitionVars, current, stopping, storeVars, historyVars, boundVars>>

\* The rows of e in a batch.
RowsOf(e, s) == Cardinality({i \in DOMAIN s : EventAt[s[i]] = e})

\* Mutant of Inserted: the first row of a batch is left out.
InsertedWithoutFirst(l) ==
    rows' = [e \in Events |-> rows[e] + RowsOf(e, Tail(batch[l]))]

Inserted(l) ==
    rows' = [e \in Events |-> rows[e] + RowsOf(e, batch[l])]

\* BatchInsertRoundSettled writes the batch.
Insert(l) ==
    /\ stage[l] = "insert"
    /\ Inserted(l)
    /\ Goto(l, "commit")
    /\ UNCHANGED <<partitionVars, current, items, batch, stopping, claims, watched, historyVars, boundVars>>

\* It returns an error, perhaps after the server has written the batch.
\* Flush has emptied items before: nothing keeps the batch.
InsertError(l) ==
    /\ stage[l] = "insert"
    /\ Fails(l)
    /\ Inserted(l) \/ UNCHANGED rows
    /\ dropped' = dropped \cup EventsIn(batch[l])
    /\ batch' = [batch EXCEPT ![l] = <<>>]
    /\ Resume(l)
    /\ UNCHANGED <<partitionVars, current, items, stopping, claims, watched, unclaimed, skipped>>

\* CommitMessages of the batch; an error is only logged.
CommitBatch(l) ==
    /\ stage[l] = "commit"
    /\ \/ CommitMessages(OffsetsIn(batch[l])) /\ UNCHANGED boundVars
       \/ Fails(l) /\ UNCHANGED partitionVars
    /\ batch' = [batch EXCEPT ![l] = <<>>]
    /\ Resume(l)
    /\ UNCHANGED <<current, items, stopping, storeVars, historyVars>>

-----------------------------------------------------------------------------
(* The process *)

SigTerm ==
    /\ Up /\ ~ stopping /\ stops < MaxStops
    /\ stopping' = TRUE
    /\ stops' = stops + 1
    /\ UNCHANGED <<partitionVars, stage, current, items, batch, storeVars, historyVars, faults, rejoins>>

\* The memory of the process is gone.
Gone ==
    /\ stage' = [l \in Loops |-> "down"]
    /\ current' = 0
    /\ items' = <<>> /\ batch' = [l \in Loops |-> <<>>]
    /\ stopping' = FALSE

\* Mutant of LastFlushDone: Stop does not wait for the loop.
LastFlushDoneUnawaited == TRUE

\* The loop has flushed what was left when Stop was called.
LastFlushDone == stage["ticker"] = "tick" /\ items = <<>>

\* The ticker loop returns, then Stop, Run and main.
Exit ==
    /\ stage["run"] = "stop" /\ LastFlushDone
    /\ Gone
    /\ UNCHANGED <<partitionVars, storeVars, historyVars, boundVars>>

Crash ==
    /\ Up /\ stops < MaxStops
    /\ stops' = stops + 1
    /\ dropped' = dropped \cup {EventAt[o] : o \in {p \in Offsets : Held(p)}}
    /\ Gone
    /\ UNCHANGED <<partitionVars, storeVars, unclaimed, skipped, faults, rejoins>>

Restart ==
    /\ ~ Up
    /\ Rejoin
    /\ stage' = [l \in Loops |-> IF l = "run" THEN "fetch" ELSE "tick"]
    /\ UNCHANGED <<current, items, batch, stopping, storeVars, historyVars, boundVars>>

\* The group rebalances: the process reads on from the committed offset and
\* keeps what it has in memory.
Rebalance ==
    /\ Up /\ rejoins < MaxRejoins
    /\ rejoins' = rejoins + 1
    /\ Rejoin
    /\ UNCHANGED <<memoryVars, storeVars, historyVars, faults, stops>>

RunStep ==
    \/ Fetch \/ ParseFails
    \/ Claim \/ ClaimDuplicate \/ ClaimError \/ CommitSkipped
    \/ EvaluateRtp \/ Add \/ StopFetching

FlushStep(l) == Insert(l) \/ InsertError(l) \/ CommitBatch(l)

Next ==
    \/ RunStep
    \/ TakeBatch
    \/ \E l \in Loops : FlushStep(l)
    \/ SigTerm \/ Exit \/ Crash \/ Restart \/ Rebalance

Spec == Init /\ [][Next]_settleVars

\* Either loop runs on, every call ends within a timeout, the ticker ticks,
\* and a process that ended is started again.
FairSpec ==
    /\ Spec
    /\ WF_settleVars(RunStep) /\ WF_settleVars(TakeBatch)
    /\ \A l \in Loops : WF_settleVars(FlushStep(l))
    /\ WF_settleVars(Exit) /\ WF_settleVars(Restart)

-----------------------------------------------------------------------------
(* Properties *)

\* The outbox may deliver an event twice and the group may read a message
\* twice; yet ClickHouse gets one row of an event and the watchdog sees it
\* once, but for the claims that failed and were let through.
ProcessedOnce ==
    \A e \in Identified :
        rows[e] <= 1 + unclaimed[e] /\ watched[e] <= 1 + unclaimed[e]

\* The committed offset passes a message only when its row is stored or on
\* its way: nothing is lost but what a failed parse skipped and what a
\* failed flush or a process death dropped.  A shutdown that flushes loses
\* nothing, nor does a duplicate that is committed before the first copy.
LossIsDropped ==
    \A o \in Offsets :
        o < committed =>
            \/ o \in skipped \/ EventAt[o] \in dropped
            \/ rows[EventAt[o]] > 0
            \/ \E p \in Offsets : EventAt[p] = EventAt[o] /\ Held(p)

\* A claimed event whose row was not dropped is never forgotten.
ClaimedIsKept ==
    \A e \in claims :
        e \in dropped \/ rows[e] > 0 \/ \E p \in Offsets : EventAt[p] = e /\ Held(p)

\* Nothing disappears without a trace: a message the group has passed and an
\* event it has claimed are stored, in hand, or among the known losses.
LossesAreKnown == LossIsDropped /\ ClaimedIsKept

\* What is in the batcher is written or reported as failed, also when no
\* further message fills the batch.
HeldIsFlushed ==
    \A o \in Offsets :
        o \in OffsetsIn(items) ~> rows[EventAt[o]] > 0 \/ EventAt[o] \in dropped

\* A process that got SIGTERM comes to its end.
ShutdownEnds == stopping ~> ~ stopping

\* No batch waits for ever: neither for messages that do not come, nor for a
\* process that is told to stop.
BatchesEnd == HeldIsFlushed /\ ShutdownEnds

=============================================================================
