------------------------------- MODULE Outbox -------------------------------
(***************************************************************************)
(* The transactional outbox (pkg/outbox): rows of event_outbox, and the    *)
(* dispatchers that claim them in batches, publish them to Kafka one after *)
(* the other and settle the batch; the maintainer that takes back claims   *)
(* older than two minutes and purges what was sent long ago.               *)
(*                                                                         *)
(* A dispatcher is one DispatchOnce at a time: the loop of a process, or   *)
(* the last round of its shutdown, which runs beside the loop under the    *)
(* same claim_owner.  Back-off times are abstract: a PENDING row may be    *)
(* due at any moment.                                                      *)
(***************************************************************************)
EXTENDS Naturals, FiniteSets

CONSTANTS
    Events,
    Dispatchers,
    Owners,         \* claim_owner values, host and pid of a process
    OwnerOf,        \* the process of a dispatcher
    NoOwner,        \* NULL
    BatchSize,
    MaxRetries,     \* Backoff.MaxRetries: 7 tiers in the code
    MaxMishaps      \* bound: failed MySQL calls of a dispatcher, process deaths,
                    \* reaps that hit a dispatcher still at work

ASSUME OutboxAssumption ==
    /\ OwnerOf \in [Dispatchers -> Owners] /\ IsFiniteSet(Dispatchers)
    /\ NoOwner \notin Owners
    /\ BatchSize \in Nat \ {0} /\ MaxRetries \in Nat \ {0}
    /\ MaxMishaps \in Nat

VARIABLES
    status, owner, retry,   \* the row of an event; "none" and "gone": no row
    todo,       \* records a dispatcher has claimed and not yet published
    errs,       \* records whose publishing returned an error
    oks,        \* events whose publishing succeeded
    published,  \* the events Kafka has received
    failures,   \* history: failed publishings of an event, up to MaxRetries
    mishaps,    \* how many there were
    slow        \* reaps among them, that hit a dispatcher still at work

rowVars    == <<status, owner, retry>>
workVars   == <<todo, errs, oks>>
kafkaVars  == <<published, failures>>
boundVars  == <<mishaps, slow>>
outboxVars == <<rowVars, workVars, kafkaVars, boundVars>>

Statuses == {"none", "PENDING", "IN_FLIGHT", "SENT", "FAILED", "gone"}
Records  == [event : Events, retry : Nat]

\* The type invariant.
OutboxTypeOK ==
    /\ status \in [Events -> Statuses]
    /\ owner \in [Events -> Owners \cup {NoOwner}]
    /\ retry \in [Events -> Nat]
    /\ todo \in [Dispatchers -> SUBSET Records]
    /\ errs \in [Dispatchers -> SUBSET Records]
    /\ oks \in [Dispatchers -> SUBSET Events]
    /\ published \subseteq Events
    /\ failures \in [Events -> 0..MaxRetries]
    /\ mishaps \in 0..MaxMishaps /\ slow \in Nat

Init ==
    /\ status = [e \in Events |-> "none"]
    /\ owner = [e \in Events |-> NoOwner]
    /\ retry = [e \in Events |-> 0]
    /\ todo = [d \in Dispatchers |-> {}]
    /\ errs = [d \in Dispatchers |-> {}]
    /\ oks = [d \in Dispatchers |-> {}]
    /\ published = {}
    /\ failures = [e \in Events |-> 0]
    /\ mishaps = 0 /\ slow = 0

EventsOf(records) == {x.event : x \in records}

\* The events of the batch a dispatcher works on.
Holding(d) == EventsOf(todo[d] \cup errs[d]) \cup oks[d]

Idle(d) == todo[d] = {} /\ errs[d] = {} /\ oks[d] = {}

\* Mutant of Mine: the statements look for the id only.
MineById(d, e) == status[e] # "none"

\* The WHERE clause of the statements of SettleBatch.
Mine(d, e) == status[e] = "IN_FLIGHT" /\ owner[e] = OwnerOf[d]

Mishap == mishaps < MaxMishaps /\ mishaps' = mishaps + 1

-----------------------------------------------------------------------------

\* InsertInTx, committed with the business transaction.
Register(e) ==
    /\ status[e] = "none"
    /\ status' = [status EXCEPT ![e] = "PENDING"]
    /\ UNCHANGED <<owner, retry, workVars, kafkaVars, boundVars>>

\* ClaimBatch, one transaction: SELECT ... FOR UPDATE SKIP LOCKED and one
\* UPDATE.  If only the answer of its commit is lost, the dispatcher does
\* not know of its claims.
ClaimBatch(d) ==
    /\ Idle(d)
    /\ \E S \in SUBSET {e \in Events : status[e] = "PENDING"} :
          /\ S # {} /\ Cardinality(S) <= BatchSize
          /\ status' = [e \in Events |-> IF e \in S THEN "IN_FLIGHT" ELSE status[e]]
          /\ owner' = [e \in Events |-> IF e \in S THEN OwnerOf[d] ELSE owner[e]]
          /\ \/ /\ todo' = [todo EXCEPT ![d] = {[event |-> e, retry |-> retry[e]] : e \in S}]
                /\ UNCHANGED mishaps
             \/ Mishap /\ UNCHANGED todo
    /\ UNCHANGED <<retry, errs, oks, kafkaVars, slow>>

\* KafkaDeliverer.Deliver: the next record of the batch.  An error does not
\* mean that Kafka has not got the message.
DeliverOk(d) ==
    \E x \in todo[d] :
        /\ todo' = [todo EXCEPT ![d] = @ \ {x}]
        /\ oks' = [oks EXCEPT ![d] = @ \cup {x.event}]
        /\ published' = published \cup {x.event}
        /\ UNCHANGED <<rowVars, errs, failures, boundVars>>

DeliverError(d) ==
    \E x \in todo[d] :
        /\ todo' = [todo EXCEPT ![d] = @ \ {x}]
        /\ errs' = [errs EXCEPT ![d] = @ \cup {x}]
        /\ published' \in {published, published \cup {x.event}}
        /\ failures' = [failures EXCEPT ![x.event] = IF @ < MaxRetries THEN @ + 1 ELSE @]
        /\ UNCHANGED <<rowVars, oks, boundVars>>

\* Mutant of SettleFailed: the limit counts the attempt to come.
SettleFailedEarly(d) ==
    /\ todo[d] = {}
    /\ \E x \in errs[d] :
          /\ errs' = [errs EXCEPT ![d] = @ \ {x}]
          /\ \/ ~Mine(d, x.event) /\ UNCHANGED rowVars
             \/ /\ Mine(d, x.event)
                /\ status' = [status EXCEPT ![x.event] =
                                IF x.retry + 2 >= MaxRetries THEN "FAILED" ELSE "PENDING"]
                /\ owner' = [owner EXCEPT ![x.event] = NoOwner]
                /\ retry' = [retry EXCEPT ![x.event] = @ + 1]
    /\ UNCHANGED <<todo, oks, kafkaVars, boundVars>>

\* SettleBatch, a failed record: FAILED when the retry_count read at the
\* claim has reached the limit, PENDING again otherwise.
SettleFailed(d) ==
    /\ todo[d] = {}
    /\ \E x \in errs[d] :
          /\ errs' = [errs EXCEPT ![d] = @ \ {x}]
          /\ \/ ~Mine(d, x.event) /\ UNCHANGED rowVars
             \/ /\ Mine(d, x.event) /\ x.retry + 1 >= MaxRetries
                /\ status' = [status EXCEPT ![x.event] = "FAILED"]
                /\ owner' = [owner EXCEPT ![x.event] = NoOwner]
                /\ UNCHANGED retry
             \/ /\ Mine(d, x.event) /\ x.retry + 1 < MaxRetries
                /\ status' = [status EXCEPT ![x.event] = "PENDING"]
                /\ owner' = [owner EXCEPT ![x.event] = NoOwner]
                /\ retry' = [retry EXCEPT ![x.event] = @ + 1]
    /\ UNCHANGED <<todo, oks, kafkaVars, boundVars>>

\* SettleBatch, last: all successes in one statement.
SettleSent(d) ==
    /\ todo[d] = {} /\ errs[d] = {} /\ oks[d] # {}
    /\ LET mine == {e \in oks[d] : Mine(d, e)}
       IN  /\ status' = [e \in Events |-> IF e \in mine THEN "SENT" ELSE status[e]]
           /\ owner' = [e \in Events |-> IF e \in mine THEN NoOwner ELSE owner[e]]
    /\ oks' = [oks EXCEPT ![d] = {}]
    /\ UNCHANGED <<retry, todo, errs, kafkaVars, boundVars>>

\* A statement of SettleBatch fails: the rest of the batch stays IN_FLIGHT.
SettleError(d) ==
    /\ todo[d] = {} /\ ~Idle(d)
    /\ Mishap
    /\ errs' = [errs EXCEPT ![d] = {}]
    /\ oks' = [oks EXCEPT ![d] = {}]
    /\ UNCHANGED <<rowVars, todo, kafkaVars, slow>>

\* A process dies with its dispatchers and is started again.
Crash(p) ==
    /\ Mishap
    /\ \E d \in Dispatchers : OwnerOf[d] = p /\ ~Idle(d)
    /\ todo' = [d \in Dispatchers |-> IF OwnerOf[d] = p THEN {} ELSE todo[d]]
    /\ errs' = [d \in Dispatchers |-> IF OwnerOf[d] = p THEN {} ELSE errs[d]]
    /\ oks' = [d \in Dispatchers |-> IF OwnerOf[d] = p THEN {} ELSE oks[d]]
    /\ UNCHANGED <<rowVars, kafkaVars, slow>>

\* ReapStuck: rows claimed too long ago.  Nobody works on an abandoned one;
\* but a batch of 50 records at up to 15 s each also outlives two minutes.
AtWork(e) == \E d \in Dispatchers : e \in Holding(d)

\* Mutant of ReapStuck: claims of any age are taken back.
ReapAnyAge ==
    \E S \in SUBSET {e \in Events : status[e] = "IN_FLIGHT"} :
        /\ S # {}
        /\ status' = [e \in Events |-> IF e \in S THEN "PENDING" ELSE status[e]]
        /\ owner' = [e \in Events |-> IF e \in S THEN NoOwner ELSE owner[e]]
        /\ UNCHANGED <<retry, workVars, kafkaVars, boundVars>>

\* Mutant of ReapStuck: only rows without an owner are taken back.
ReapUnowned ==
    \E e \in Events :
        /\ status[e] = "IN_FLIGHT" /\ owner[e] = NoOwner
        /\ status' = [status EXCEPT ![e] = "PENDING"]
        /\ UNCHANGED <<owner, retry, workVars, kafkaVars, boundVars>>

\* Mutant of ReapStuck: the row gets a status nothing claims.
ReapToOldStatus ==
    \E e \in Events :
        /\ status[e] = "IN_FLIGHT" /\ ~AtWork(e)
        /\ status' = [status EXCEPT ![e] = "STUCK"]
        /\ UNCHANGED <<owner, retry, workVars, kafkaVars, boundVars>>

ReapStuck ==
    \E S \in SUBSET {e \in Events : status[e] = "IN_FLIGHT"} :
        /\ S # {}
        /\ \/ ~(\E e \in S : AtWork(e)) /\ UNCHANGED boundVars
           \/ (\E e \in S : AtWork(e)) /\ Mishap /\ slow' = slow + 1
        /\ status' = [e \in Events |-> IF e \in S THEN "PENDING" ELSE status[e]]
        /\ owner' = [e \in Events |-> IF e \in S THEN NoOwner ELSE owner[e]]
        /\ UNCHANGED <<retry, workVars, kafkaVars>>

\* PurgeSent.
PurgeSent(e) ==
    /\ status[e] = "SENT"
    /\ status' = [status EXCEPT ![e] = "gone"]
    /\ UNCHANGED <<owner, retry, workVars, kafkaVars, boundVars>>

DispatchStep(d) ==
    \/ ClaimBatch(d) \/ DeliverOk(d) \/ DeliverError(d)
    \/ SettleFailed(d) \/ SettleSent(d) \/ SettleError(d)

Next ==
    \/ \E e \in Events : Register(e) \/ PurgeSent(e)
    \/ \E d \in Dispatchers : DispatchStep(d)
    \/ \E p \in Owners : Crash(p)
    \/ ReapStuck

Spec == Init /\ [][Next]_outboxVars

\* The loops tick every second and every minute for as long as the process
\* runs, and a publish or a statement ends within its timeout.
FairSpec ==
    /\ Spec
    /\ \A d \in Dispatchers : WF_outboxVars(DispatchStep(d))
    /\ WF_outboxVars(ReapStuck)

-----------------------------------------------------------------------------
(* Properties *)

\* The outbox keeps its promise: every step is one of the abstract delivery,
\* a row being open while it is PENDING or IN_FLIGHT.
Delivery ==
    INSTANCE EventDelivery WITH
        outcome <- [e \in Events |->
                      IF status[e] \in {"PENDING", "IN_FLIGHT"} THEN "open" ELSE status[e]]

NoEventLost == Delivery!Spec

\* As long as no claim is reaped from a dispatcher at work, no two of them
\* work on the same event, restarts and abandoned batches notwithstanding.
ClaimedOnce ==
    slow = 0 =>
        \A c, d \in Dispatchers : c # d => Holding(c) \cap Holding(d) = {}

\* An event is given up only after MaxRetries failed publishings, although
\* the limit is checked against the retry_count read at the claim, and two
\* dispatchers of a process settle under the same owner.
GivenUpWasTried ==
    \A e \in Events : status[e] = "FAILED" => failures[e] = MaxRetries

\* Dispatchers do not get into each other's batches.
BatchesKeepApart == ClaimedOnce /\ GivenUpWasTried

\* No registered event stays in the outbox undecided.
EventsResolved ==
    \A e \in Events :
        status[e] = "PENDING" ~> status[e] \in {"SENT", "FAILED", "gone"}

=============================================================================
