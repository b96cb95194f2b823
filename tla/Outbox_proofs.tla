---------------------------- MODULE Outbox_proofs ----------------------------
(***************************************************************************)
(* That the outbox keeps the promise of EventDelivery, whatever the number *)
(* of events, dispatchers, processes, retries and mishaps.  A confirmed    *)
(* event has been published because a dispatcher only confirms what it     *)
(* has published itself, and a row is never held before it is registered.  *)
(***************************************************************************)
EXTENDS Outbox, FiniteSetTheorems, TLAPS

\* What a dispatcher holds is registered, what it is about to confirm is
\* published.
HeldIsRegistered == \A d \in Dispatchers : \A e \in Holding(d) : status[e] # "none"

OkIsPublished == \A d \in Dispatchers : oks[d] \subseteq published

OInv == OutboxTypeOK /\ HeldIsRegistered /\ OkIsPublished

-----------------------------------------------------------------------------

\* The type invariant of the rows and of the work in progress is kept.
LEMMA TypeStep ==
    ASSUME OutboxAssumption, OutboxTypeOK, [Next]_outboxVars
    PROVE  OutboxTypeOK'
<1> USE OutboxAssumption DEF OutboxTypeOK, Statuses, Records
<1>1. ASSUME NEW e \in Events, Register(e) PROVE OutboxTypeOK'
  BY <1>1 DEF Register, workVars, kafkaVars, boundVars
<1>2. ASSUME NEW e \in Events, PurgeSent(e) PROVE OutboxTypeOK'
  BY <1>2 DEF PurgeSent, workVars, kafkaVars, boundVars
<1>3. ASSUME NEW d \in Dispatchers, ClaimBatch(d) PROVE OutboxTypeOK'
  BY <1>3 DEF ClaimBatch, Mishap, OutboxAssumption, kafkaVars
<1>4. ASSUME NEW d \in Dispatchers, DeliverOk(d) PROVE OutboxTypeOK'
  BY <1>4 DEF DeliverOk, rowVars, boundVars
<1>5. ASSUME NEW d \in Dispatchers, DeliverError(d) PROVE OutboxTypeOK'
  BY <1>5 DEF DeliverError, OutboxAssumption, rowVars, boundVars
<1>6. ASSUME NEW d \in Dispatchers, SettleFailed(d) PROVE OutboxTypeOK'
  BY <1>6 DEF SettleFailed, rowVars, kafkaVars, boundVars
<1>7. ASSUME NEW d \in Dispatchers, SettleSent(d) PROVE OutboxTypeOK'
  BY <1>7 DEF SettleSent, kafkaVars, boundVars
<1>8. ASSUME NEW d \in Dispatchers, SettleError(d) PROVE OutboxTypeOK'
  BY <1>8 DEF SettleError, Mishap, OutboxAssumption, rowVars, kafkaVars
<1>9. ASSUME NEW p \in Owners, Crash(p) PROVE OutboxTypeOK'
  BY <1>9 DEF Crash, Mishap, OutboxAssumption, rowVars, kafkaVars
<1>10. CASE ReapStuck
  BY <1>10 DEF ReapStuck, Mishap, OutboxAssumption, workVars, kafkaVars, boundVars
<1>11. CASE UNCHANGED outboxVars
  BY <1>11 DEF outboxVars, rowVars, workVars, kafkaVars, boundVars
<1> QED
  BY <1>1, <1>2, <1>3, <1>4, <1>5, <1>6, <1>7, <1>8, <1>9, <1>10, <1>11
  DEF Next, DispatchStep

\* A dispatcher only ever holds events with a row.
LEMMA HoldingType ==
    ASSUME OutboxTypeOK, NEW d \in Dispatchers
    PROVE  Holding(d) \subseteq Events
BY DEF OutboxTypeOK, Records, Holding, EventsOf

\* A row never goes back to "none".
LEMMA RowStays ==
    ASSUME OutboxTypeOK, [Next]_outboxVars
    PROVE  \A e \in Events : status[e] # "none" => status'[e] # "none"
<1> USE DEF OutboxTypeOK, Statuses
<1>1. ASSUME NEW d \in Dispatchers, DispatchStep(d)
      PROVE  \A e \in Events : status[e] # "none" => status'[e] # "none"
  BY <1>1 DEF DispatchStep, ClaimBatch, DeliverOk, DeliverError, SettleFailed, SettleSent,
              SettleError, rowVars
<1>2. CASE ReapStuck
  BY <1>2 DEF ReapStuck
<1>3. ASSUME NEW e \in Events, Register(e) \/ PurgeSent(e)
      PROVE  \A f \in Events : status[f] # "none" => status'[f] # "none"
  BY <1>3 DEF Register, PurgeSent
<1>4. ASSUME NEW p \in Owners, Crash(p)
      PROVE  \A e \in Events : status[e] # "none" => status'[e] # "none"
  BY <1>4 DEF Crash, rowVars
<1>5. CASE UNCHANGED outboxVars
  BY <1>5 DEF outboxVars, rowVars
<1> QED
  BY <1>1, <1>2, <1>3, <1>4, <1>5 DEF Next

\* A dispatcher holds nothing that it neither held before nor claims now.
LEMMA HoldingStep ==
    ASSUME OutboxTypeOK, [Next]_outboxVars, NEW c \in Dispatchers, NEW e \in Holding(c)'
    PROVE  e \in Holding(c) \/ status'[e] = "IN_FLIGHT"
<1> USE DEF OutboxTypeOK, Records, Holding, EventsOf
<1>1. ASSUME NEW d \in Dispatchers, ClaimBatch(d)
      PROVE  e \in Holding(c) \/ status'[e] = "IN_FLIGHT"
  BY <1>1 DEF ClaimBatch
<1>2. ASSUME NEW d \in Dispatchers, DeliverOk(d) PROVE e \in Holding(c)
  BY <1>2 DEF DeliverOk
<1>3. ASSUME NEW d \in Dispatchers, DeliverError(d) PROVE e \in Holding(c)
  BY <1>3 DEF DeliverError
<1>4. ASSUME NEW d \in Dispatchers, SettleFailed(d) PROVE e \in Holding(c)
  BY <1>4 DEF SettleFailed
<1>5. ASSUME NEW d \in Dispatchers, SettleSent(d) PROVE e \in Holding(c)
  BY <1>5 DEF SettleSent
<1>6. ASSUME NEW d \in Dispatchers, SettleError(d) PROVE e \in Holding(c)
  BY <1>6 DEF SettleError
<1>7. ASSUME NEW p \in Owners, Crash(p) PROVE e \in Holding(c)
  BY <1>7 DEF Crash
<1>8. ASSUME NEW f \in Events, Register(f) \/ PurgeSent(f) PROVE e \in Holding(c)
  BY <1>8 DEF Register, PurgeSent, workVars
<1>9. CASE ReapStuck
  BY <1>9 DEF ReapStuck, workVars
<1>10. CASE UNCHANGED outboxVars
  BY <1>10 DEF outboxVars, workVars
<1> QED
  BY <1>1, <1>2, <1>3, <1>4, <1>5, <1>6, <1>7, <1>8, <1>9, <1>10 DEF Next, DispatchStep

LEMMA RegisteredStep ==
    ASSUME OutboxTypeOK, HeldIsRegistered, [Next]_outboxVars
    PROVE  HeldIsRegistered'
<1> SUFFICES ASSUME NEW d \in Dispatchers, NEW e \in Holding(d)'
             PROVE  status'[e] # "none"
  BY DEF HeldIsRegistered
<1>1. CASE e \in Holding(d)
  BY <1>1, HoldingType, RowStays DEF HeldIsRegistered
<1>2. CASE status'[e] = "IN_FLIGHT"
  BY <1>2
<1> QED
  BY <1>1, <1>2, HoldingStep

\* Only a successful publishing adds to oks, and Kafka forgets nothing.
LEMMA PublishedStep ==
    ASSUME OInv, [Next]_outboxVars
    PROVE  OkIsPublished'
<1> USE DEF OInv, OutboxTypeOK, OkIsPublished
<1>1. ASSUME NEW d \in Dispatchers, DeliverOk(d) PROVE OkIsPublished'
  BY <1>1 DEF DeliverOk
<1>2. ASSUME NEW d \in Dispatchers, DeliverError(d) PROVE OkIsPublished'
  BY <1>2 DEF DeliverError
<1>3. ASSUME NEW d \in Dispatchers, ClaimBatch(d) \/ SettleFailed(d) \/ SettleSent(d) \/ SettleError(d)
      PROVE  OkIsPublished'
  BY <1>3 DEF ClaimBatch, SettleFailed, SettleSent, SettleError, kafkaVars
<1>4. ASSUME NEW p \in Owners, Crash(p) PROVE OkIsPublished'
  BY <1>4 DEF Crash, kafkaVars
<1>5. ASSUME NEW e \in Events, Register(e) \/ PurgeSent(e) PROVE OkIsPublished'
  BY <1>5 DEF Register, PurgeSent, workVars, kafkaVars
<1>6. CASE ReapStuck
  BY <1>6 DEF ReapStuck, workVars, kafkaVars
<1>7. CASE UNCHANGED outboxVars
  BY <1>7 DEF outboxVars, workVars, kafkaVars
<1> QED
  BY <1>1, <1>2, <1>3, <1>4, <1>5, <1>6, <1>7 DEF Next, DispatchStep

\* The strengthened invariant is inductive.
THEOREM OutboxInductive == Spec => []OInv
<1>1. Init => OInv
  BY OutboxAssumption DEF OutboxAssumption, Init, OInv, OutboxTypeOK, Statuses, Records,
       HeldIsRegistered, OkIsPublished, Holding, EventsOf
<1>2. OInv /\ [Next]_outboxVars => OInv'
  BY OutboxAssumption, TypeStep, RegisteredStep, PublishedStep DEF OInv
<1> QED
  BY <1>1, <1>2, PTL DEF Spec

\* The types of the outbox hold in every state.
THEOREM OutboxTypes == Spec => []OutboxTypeOK
<1>1. OInv => OutboxTypeOK
  BY DEF OInv
<1> QED
  BY <1>1, OutboxInductive, PTL

-----------------------------------------------------------------------------
(* The refinement. *)

\* Registering and purging a row, publishing and settling are the abstract
\* steps of the same meaning; a claim, a reap, a crash, a retry and an
\* answer for a row that is no longer the dispatcher's change no outcome.
LEMMA StepsDeliver ==
    ASSUME OInv, [Next]_outboxVars
    PROVE  [Delivery!Next]_(Delivery!deliveryVars)
<1> USE DEF OInv, OutboxTypeOK, Statuses, Delivery!deliveryVars
<1> DEFINE Step == Delivery!Next \/ UNCHANGED Delivery!deliveryVars
<1>1. ASSUME NEW e \in Events, Register(e) PROVE Step
  <2>1. Delivery!Register(e)
    BY <1>1 DEF Register, kafkaVars, Delivery!Register, Delivery!Move
  <2> QED
    BY <2>1 DEF Delivery!Next
<1>2. ASSUME NEW e \in Events, PurgeSent(e) PROVE Step
  <2>1. Delivery!Forget(e)
    BY <1>2 DEF PurgeSent, kafkaVars, Delivery!Forget, Delivery!Move
  <2> QED
    BY <2>1 DEF Delivery!Next
<1>3. ASSUME NEW d \in Dispatchers, ClaimBatch(d) PROVE Step
  BY <1>3 DEF ClaimBatch, kafkaVars
<1>4. ASSUME NEW d \in Dispatchers, DeliverOk(d) PROVE Step
  <2>1. PICK x \in todo[d] : published' = published \cup {x.event} /\ UNCHANGED rowVars
    BY <1>4 DEF DeliverOk
  <2>2. x.event \in Events /\ status[x.event] # "none"
    BY <2>1 DEF Records, HeldIsRegistered, Holding, EventsOf
  <2>3. Delivery!Publish(x.event)
    BY <2>1, <2>2 DEF rowVars, Delivery!Publish
  <2> QED
    BY <2>2, <2>3 DEF Delivery!Next
<1>5. ASSUME NEW d \in Dispatchers, DeliverError(d) PROVE Step
  <2>1. PICK x \in todo[d] : /\ published' \in {published, published \cup {x.event}}
                             /\ UNCHANGED rowVars
    BY <1>5 DEF DeliverError
  <2>2. x.event \in Events /\ status[x.event] # "none"
    BY <2>1 DEF Records, HeldIsRegistered, Holding, EventsOf
  <2>3. Delivery!Publish(x.event) \/ UNCHANGED Delivery!deliveryVars
    BY <2>1, <2>2 DEF rowVars, Delivery!Publish
  <2> QED
    BY <2>2, <2>3 DEF Delivery!Next
<1>6. ASSUME NEW d \in Dispatchers, SettleFailed(d) PROVE Step
  <2>1. PICK x \in errs[d] :
           \/ UNCHANGED rowVars
           \/ /\ Mine(d, x.event)
              /\ status' = [status EXCEPT ![x.event] = "FAILED"]
           \/ /\ Mine(d, x.event)
              /\ status' = [status EXCEPT ![x.event] = "PENDING"]
    BY <1>6 DEF SettleFailed
  <2>2. x.event \in Events /\ UNCHANGED published
    BY <1>6 DEF SettleFailed, kafkaVars, Records
  <2>3. CASE UNCHANGED rowVars
    BY <2>2, <2>3 DEF rowVars
  <2>4. CASE Mine(d, x.event) /\ status' = [status EXCEPT ![x.event] = "FAILED"]
    <3>1. Delivery!GiveUp(x.event)
      BY <2>2, <2>4 DEF Mine, Delivery!GiveUp, Delivery!Move
    <3> QED
      BY <2>2, <3>1 DEF Delivery!Next
  <2>5. CASE Mine(d, x.event) /\ status' = [status EXCEPT ![x.event] = "PENDING"]
    BY <2>2, <2>5 DEF Mine
  <2> QED
    BY <2>1, <2>3, <2>4, <2>5
<1>7. ASSUME NEW d \in Dispatchers, SettleSent(d) PROVE Step
  <2>1. PICK mine \in SUBSET Events : mine = {e \in oks[d] : Mine(d, e)}
    OBVIOUS
  <2>2. Delivery!Confirm(mine)
    BY <1>7, <2>1 DEF SettleSent, Mine, OkIsPublished, kafkaVars, Delivery!Confirm
  <2> QED
    BY <2>2 DEF Delivery!Next
<1>8. ASSUME NEW d \in Dispatchers, SettleError(d) PROVE Step
  BY <1>8 DEF SettleError, rowVars, kafkaVars
<1>9. ASSUME NEW p \in Owners, Crash(p) PROVE Step
  BY <1>9 DEF Crash, rowVars, kafkaVars
<1>10. CASE ReapStuck
  BY <1>10 DEF ReapStuck, kafkaVars
<1>11. CASE UNCHANGED outboxVars
  BY <1>11 DEF outboxVars, rowVars, kafkaVars
<1> QED
  BY <1>1, <1>2, <1>3, <1>4, <1>5, <1>6, <1>7, <1>8, <1>9, <1>10, <1>11
  DEF Next, DispatchStep

\* No registered event is lost, whatever fails, dies or is reaped.
THEOREM OutboxDelivers == Spec => NoEventLost
<1>1. Init => Delivery!Init
  BY DEF Init, Delivery!Init
<1>2. OInv /\ [Next]_outboxVars => [Delivery!Next]_(Delivery!deliveryVars)
  BY StepsDeliver
<1> QED
  BY <1>1, <1>2, OutboxInductive, PTL DEF Spec, NoEventLost, Delivery!Spec

-----------------------------------------------------------------------------
(* One dispatcher per event, while no claim is reaped from one at work. *)

\* A dispatcher has one record of an event, in one place.
OneRecord ==
    \A d \in Dispatchers :
        /\ \A x, y \in todo[d] \cup errs[d] : x.event = y.event => x = y
        /\ todo[d] \cap errs[d] = {}
        /\ EventsOf(todo[d] \cup errs[d]) \cap oks[d] = {}

HeldIsInFlight ==
    slow = 0 => \A d \in Dispatchers : \A e \in Holding(d) : status[e] = "IN_FLIGHT"

CInv == OutboxTypeOK /\ OneRecord /\ HeldIsInFlight /\ ClaimedOnce

LEMMA OneRecordStep ==
    ASSUME OutboxTypeOK, OneRecord, [Next]_outboxVars
    PROVE  OneRecord'
<1> USE DEF OutboxTypeOK, Records, OneRecord, EventsOf
<1>1. ASSUME NEW d \in Dispatchers, ClaimBatch(d) PROVE OneRecord'
  BY <1>1 DEF ClaimBatch, Idle
<1>2. ASSUME NEW d \in Dispatchers, DeliverOk(d) PROVE OneRecord'
  BY <1>2 DEF DeliverOk
<1>3. ASSUME NEW d \in Dispatchers, DeliverError(d) PROVE OneRecord'
  BY <1>3 DEF DeliverError
<1>4. ASSUME NEW d \in Dispatchers, SettleFailed(d) PROVE OneRecord'
  BY <1>4 DEF SettleFailed
<1>5. ASSUME NEW d \in Dispatchers, SettleSent(d) PROVE OneRecord'
  BY <1>5 DEF SettleSent
<1>6. ASSUME NEW d \in Dispatchers, SettleError(d) PROVE OneRecord'
  BY <1>6 DEF SettleError
<1>7. ASSUME NEW p \in Owners, Crash(p) PROVE OneRecord'
  BY <1>7 DEF Crash
<1>8. ASSUME NEW e \in Events, Register(e) \/ PurgeSent(e) PROVE OneRecord'
  BY <1>8 DEF Register, PurgeSent, workVars
<1>9. CASE ReapStuck
  BY <1>9 DEF ReapStuck, workVars
<1>10. CASE UNCHANGED outboxVars
  BY <1>10 DEF outboxVars, workVars
<1> QED
  BY <1>1, <1>2, <1>3, <1>4, <1>5, <1>6, <1>7, <1>8, <1>9, <1>10 DEF Next, DispatchStep

\* A step leaves an event with its holder in flight: a row in flight is
\* only settled by one of the holders, and they are one.
LEMMA InFlightStep ==
    ASSUME OutboxAssumption, CInv, [Next]_outboxVars
    PROVE  HeldIsInFlight'
<1> SUFFICES ASSUME slow' = 0, NEW c \in Dispatchers, NEW e \in Holding(c)'
             PROVE  status'[e] = "IN_FLIGHT"
  BY DEF HeldIsInFlight
<1> USE DEF CInv, OutboxTypeOK
<1>1. slow = 0
  BY DEF Next, DispatchStep, Register, PurgeSent, ClaimBatch, DeliverOk, DeliverError,
         SettleFailed, SettleSent, SettleError, Crash, ReapStuck, outboxVars, boundVars
<1>2. e \in Holding(c) \/ status'[e] = "IN_FLIGHT"
  BY HoldingStep
<1> SUFFICES ASSUME e \in Holding(c) PROVE status'[e] = "IN_FLIGHT"
  BY <1>2
<1>3. e \in Events /\ status[e] = "IN_FLIGHT"
  BY <1>1, HoldingType DEF HeldIsInFlight
<1>4. \A d \in Dispatchers : d # c => e \notin Holding(d)
  BY <1>1 DEF ClaimedOnce
<1>5. ASSUME NEW d \in Dispatchers, ClaimBatch(d) PROVE status'[e] = "IN_FLIGHT"
  BY <1>3, <1>5 DEF ClaimBatch
<1>6. ASSUME NEW d \in Dispatchers, SettleFailed(d) PROVE status'[e] = "IN_FLIGHT"
  <2>1. PICK x \in errs[d] : /\ \/ UNCHANGED status
                                \/ status' = [status EXCEPT ![x.event] = "FAILED"]
                                \/ status' = [status EXCEPT ![x.event] = "PENDING"]
                             /\ errs' = [errs EXCEPT ![d] = @ \ {x}]
                             /\ UNCHANGED <<todo, oks>>
    BY <1>6 DEF SettleFailed, rowVars
  <2>2. x.event \in Holding(d)
    BY <2>1 DEF Holding, EventsOf
  <2>3. x.event \notin Holding(d)'
    BY <2>1 DEF OneRecord, Holding, EventsOf
  <2>4. x.event # e
    BY <2>2, <2>3, <1>4
  <2> QED
    BY <2>1, <2>4, <1>3
<1>7. ASSUME NEW d \in Dispatchers, SettleSent(d) PROVE status'[e] = "IN_FLIGHT"
  <2>1. e \notin oks[d]
    <3>1. CASE d = c
      BY <3>1, <1>7 DEF SettleSent, Holding, EventsOf
    <3>2. CASE d # c
      BY <3>2, <1>4 DEF Holding
    <3> QED
      BY <3>1, <3>2
  <2> QED
    BY <2>1, <1>3, <1>7 DEF SettleSent
<1>8. CASE ReapStuck
  <2>1. AtWork(e)
    BY DEF AtWork
  <2> QED
    BY <2>1, <1>1, <1>3, <1>8 DEF ReapStuck
<1>9. ASSUME NEW f \in Events, Register(f) \/ PurgeSent(f) PROVE status'[e] = "IN_FLIGHT"
  BY <1>9, <1>3 DEF Register, PurgeSent
<1>10. ASSUME NEW d \in Dispatchers, DeliverOk(d) \/ DeliverError(d) \/ SettleError(d)
       PROVE  status'[e] = "IN_FLIGHT"
  BY <1>10, <1>3 DEF DeliverOk, DeliverError, SettleError, rowVars
<1>11. ASSUME NEW p \in Owners, Crash(p) PROVE status'[e] = "IN_FLIGHT"
  BY <1>11, <1>3 DEF Crash, rowVars
<1>12. CASE UNCHANGED outboxVars
  BY <1>12, <1>3 DEF outboxVars, rowVars
<1> QED
  BY <1>5, <1>6, <1>7, <1>8, <1>9, <1>10, <1>11, <1>12 DEF Next, DispatchStep

\* A new holder has claimed a PENDING row, which nobody held.
LEMMA ClaimedOnceStep ==
    ASSUME OutboxAssumption, CInv, [Next]_outboxVars
    PROVE  ClaimedOnce'
<1> SUFFICES ASSUME slow' = 0, NEW c \in Dispatchers, NEW d \in Dispatchers, c # d,
                    NEW e \in Holding(c)', e \in Holding(d)'
             PROVE  FALSE
  BY DEF ClaimedOnce
<1> USE DEF CInv, OutboxTypeOK
<1>1. slow = 0
  BY DEF Next, DispatchStep, Register, PurgeSent, ClaimBatch, DeliverOk, DeliverError,
         SettleFailed, SettleSent, SettleError, Crash, ReapStuck, outboxVars, boundVars
<1>2. ~(e \in Holding(c) /\ e \in Holding(d))
  BY <1>1 DEF ClaimedOnce
<1>3. ASSUME NEW b \in Dispatchers, ClaimBatch(b) PROVE FALSE
  <2>1. \A x \in Dispatchers : x # b => Holding(x)' = Holding(x)
    BY <1>3 DEF ClaimBatch, Holding
  <2>2. \A f \in Holding(b)' : status[f] = "PENDING"
    BY <1>3 DEF ClaimBatch, Holding, EventsOf, Idle
  <2>3. \A x \in Dispatchers : \A f \in Holding(x) : status[f] = "IN_FLIGHT"
    BY <1>1 DEF HeldIsInFlight
  <2> QED
    BY <1>2, <2>1, <2>2, <2>3
<1>4. CASE ~(\E b \in Dispatchers : ClaimBatch(b))
  <2>1. ASSUME NEW x \in Dispatchers PROVE Holding(x)' \subseteq Holding(x)
    BY <1>4 DEF Next, DispatchStep, DeliverOk, DeliverError, SettleFailed, SettleSent,
         SettleError, Crash, ReapStuck, Register, PurgeSent, outboxVars, workVars,
         Holding, EventsOf
  <2> QED
    BY <1>2, <2>1
<1> QED
  BY <1>3, <1>4

\* No two dispatchers work on an event, over crashes, lost answers and
\* retries, as long as no claim is reaped from a dispatcher at work.
THEOREM EventsClaimedOnce == Spec => []ClaimedOnce
<1>1. Init => CInv
  BY OutboxAssumption DEF OutboxAssumption, Init, CInv, OutboxTypeOK, Statuses, Records,
       OneRecord, HeldIsInFlight, ClaimedOnce, Holding, EventsOf
<1>2. CInv /\ [Next]_outboxVars => CInv'
  BY OutboxAssumption, TypeStep, OneRecordStep, InFlightStep, ClaimedOnceStep DEF CInv
<1>3. CInv => ClaimedOnce
  BY DEF CInv
<1> QED
  BY <1>1, <1>2, <1>3, PTL DEF Spec

-----------------------------------------------------------------------------
(* A row is given up after as many failures as its retry count says: each  *)
(* record with an error stands for one that is not counted in the row yet. *)

\* The dispatchers with a record of the event that failed.
Failing(e) == {d \in Dispatchers : e \in EventsOf(errs[d])}

RecordsAreOld ==
    \A d \in Dispatchers : \A x \in todo[d] \cup errs[d] : x.retry <= retry[x.event]

FailuresCounted ==
    \A e \in Events :
        failures[e] = MaxRetries \/ retry[e] + Cardinality(Failing(e)) <= failures[e]

GInv == OutboxTypeOK /\ OneRecord /\ RecordsAreOld /\ FailuresCounted /\ GivenUpWasTried

LEMMA FailingFinite ==
    ASSUME OutboxAssumption, NEW e
    PROVE  /\ IsFiniteSet(Failing(e)) /\ Cardinality(Failing(e)) \in Nat
           /\ \A S \in SUBSET Failing(e) : Cardinality(S) \in Nat
                                            /\ Cardinality(S) <= Cardinality(Failing(e))
<1>1. IsFiniteSet(Failing(e))
  BY FS_Subset DEF Failing, OutboxAssumption
<1>2. ASSUME NEW S \in SUBSET Failing(e)
      PROVE  Cardinality(S) \in Nat /\ Cardinality(S) <= Cardinality(Failing(e))
  BY <1>1, <1>2, FS_Subset, FS_CardinalityType
<1> QED
  BY <1>1, <1>2, FS_CardinalityType

\* Steps that record no failure and settle no row.
LEMMA CountKept ==
    ASSUME OutboxAssumption, GInv, UNCHANGED <<retry, failures>>,
           \A e \in Events : Failing(e)' \subseteq Failing(e)
    PROVE  FailuresCounted'
<1> SUFFICES ASSUME NEW e \in Events
             PROVE  failures[e] = MaxRetries
                    \/ retry[e] + Cardinality(Failing(e)') <= failures[e]
  BY DEF FailuresCounted
<1>1. Cardinality(Failing(e)') \in Nat /\ Cardinality(Failing(e)') <= Cardinality(Failing(e))
      /\ Cardinality(Failing(e)) \in Nat
  BY FailingFinite
<1>2. retry[e] \in Nat /\ failures[e] \in Nat
  BY DEF GInv, OutboxTypeOK, OutboxAssumption
<1> QED
  BY <1>1, <1>2 DEF GInv, FailuresCounted

\* Every step keeps the count.
LEMMA CountStep ==
    ASSUME OutboxAssumption, GInv, [Next]_outboxVars
    PROVE  RecordsAreOld' /\ FailuresCounted' /\ GivenUpWasTried'
<1> USE DEF GInv
<1>1. ASSUME NEW e \in Events, Register(e) \/ PurgeSent(e)
      PROVE  RecordsAreOld' /\ FailuresCounted' /\ GivenUpWasTried'
  <2>1. UNCHANGED <<retry, failures, todo, errs>>
    BY <1>1 DEF Register, PurgeSent, workVars, kafkaVars
  <2>2. FailuresCounted'
    BY <2>1, CountKept DEF Failing
  <2>3. GivenUpWasTried'
    BY <1>1, <2>1 DEF Register, PurgeSent, GivenUpWasTried, OutboxTypeOK
  <2> QED
    BY <2>1, <2>2, <2>3 DEF RecordsAreOld
<1>2. ASSUME NEW d \in Dispatchers, ClaimBatch(d)
      PROVE  RecordsAreOld' /\ FailuresCounted' /\ GivenUpWasTried'
  <2>1. UNCHANGED <<retry, failures, errs>>
    BY <1>2 DEF ClaimBatch, kafkaVars
  <2>2. FailuresCounted'
    BY <2>1, CountKept DEF Failing
  <2>3. GivenUpWasTried'
    BY <1>2, <2>1 DEF ClaimBatch, GivenUpWasTried, OutboxTypeOK
  <2>4. RecordsAreOld'
    BY <1>2, <2>1 DEF ClaimBatch, RecordsAreOld, OutboxTypeOK, Records
  <2> QED
    BY <2>2, <2>3, <2>4
<1>3. ASSUME NEW d \in Dispatchers, DeliverOk(d)
      PROVE  RecordsAreOld' /\ FailuresCounted' /\ GivenUpWasTried'
  <2>1. UNCHANGED <<status, retry, failures, errs>>
    BY <1>3 DEF DeliverOk, rowVars
  <2>2. FailuresCounted'
    BY <2>1, CountKept DEF Failing
  <2>3. RecordsAreOld'
    BY <1>3, <2>1 DEF DeliverOk, RecordsAreOld, OutboxTypeOK
  <2> QED
    BY <2>1, <2>2, <2>3 DEF GivenUpWasTried
<1>4. ASSUME NEW d \in Dispatchers, DeliverError(d)
      PROVE  RecordsAreOld' /\ FailuresCounted' /\ GivenUpWasTried'
  <2>1. PICK x \in todo[d] :
           /\ todo' = [todo EXCEPT ![d] = @ \ {x}]
           /\ errs' = [errs EXCEPT ![d] = @ \cup {x}]
           /\ failures' = [failures EXCEPT ![x.event] =
                              IF @ < MaxRetries THEN @ + 1 ELSE @]
           /\ UNCHANGED <<status, retry>>
    BY <1>4 DEF DeliverError, rowVars
  <2>2. x.event \in Events /\ d \notin Failing(x.event)
    BY DEF OneRecord, EventsOf, Failing, OutboxTypeOK, Records
  <2>3. Failing(x.event)' = Failing(x.event) \cup {d}
    BY <2>1, <2>2 DEF Failing, EventsOf, OutboxTypeOK
  <2>4. \A e \in Events : e # x.event => Failing(e)' = Failing(e)
    BY <2>1 DEF Failing, EventsOf, OutboxTypeOK
  <2>5. FailuresCounted'
    <3> SUFFICES ASSUME NEW e \in Events
                 PROVE  failures'[e] = MaxRetries
                        \/ retry'[e] + Cardinality(Failing(e)') <= failures'[e]
      BY DEF FailuresCounted
    <3>1. retry[e] \in Nat /\ failures[e] \in 0..MaxRetries /\ MaxRetries \in Nat
      BY DEF OutboxTypeOK, OutboxAssumption
    <3>2. Cardinality(Failing(e)) \in Nat
      BY FailingFinite
    <3>3. CASE e # x.event
      BY <2>1, <2>4, <3>3 DEF FailuresCounted, OutboxTypeOK
    <3>4. CASE e = x.event
      <4>1. Cardinality(Failing(e)') = Cardinality(Failing(e)) + 1
        BY <2>2, <2>3, <3>4, FailingFinite, FS_AddElement
      <4>2. failures'[e] = (IF failures[e] < MaxRetries THEN failures[e] + 1 ELSE failures[e])
            /\ retry'[e] = retry[e]
        BY <2>1, <3>4 DEF OutboxTypeOK
      <4> QED
        BY <3>1, <3>2, <4>1, <4>2 DEF FailuresCounted
    <3> QED
      BY <3>3, <3>4
  <2>6. GivenUpWasTried'
    BY <2>1, <2>2 DEF GivenUpWasTried, OutboxTypeOK, OutboxAssumption
  <2>7. RecordsAreOld'
    BY <2>1 DEF RecordsAreOld, OutboxTypeOK
  <2> QED
    BY <2>5, <2>6, <2>7
<1>5. ASSUME NEW d \in Dispatchers, SettleFailed(d)
      PROVE  RecordsAreOld' /\ FailuresCounted' /\ GivenUpWasTried'
  <2>1. PICK x \in errs[d] :
           /\ errs' = [errs EXCEPT ![d] = @ \ {x}]
           /\ \/ UNCHANGED <<status, retry>>
              \/ /\ x.retry + 1 >= MaxRetries
                 /\ status' = [status EXCEPT ![x.event] = "FAILED"] /\ UNCHANGED retry
              \/ /\ status' = [status EXCEPT ![x.event] = "PENDING"]
                 /\ retry' = [retry EXCEPT ![x.event] = @ + 1]
           /\ UNCHANGED <<todo, failures>>
    BY <1>5 DEF SettleFailed, rowVars, kafkaVars
  <2>2. x.event \in Events /\ x.retry \in Nat /\ d \in Failing(x.event)
    BY DEF EventsOf, Failing, OutboxTypeOK, Records
  <2>3. Failing(x.event)' = Failing(x.event) \ {d}
    BY <2>1, <2>2 DEF Failing, EventsOf, OutboxTypeOK, OneRecord
  <2>4. \A e \in Events : e # x.event => Failing(e)' = Failing(e)
    BY <2>1 DEF Failing, EventsOf, OutboxTypeOK
  <2>5. Cardinality(Failing(x.event)') = Cardinality(Failing(x.event)) - 1
        /\ Cardinality(Failing(x.event)) \in Nat /\ Cardinality(Failing(x.event)') \in Nat
    BY <2>2, <2>3, FailingFinite, FS_RemoveElement, FS_CardinalityType
  <2>6. retry[x.event] \in Nat /\ failures[x.event] \in 0..MaxRetries /\ MaxRetries \in Nat
        /\ x.retry <= retry[x.event]
    BY <2>2 DEF OutboxTypeOK, OutboxAssumption, RecordsAreOld
  <2>7. failures[x.event] = MaxRetries \/ x.retry + 1 <= failures[x.event]
    BY <2>2, <2>5, <2>6 DEF FailuresCounted
  <2>8. retry'[x.event] \in {retry[x.event], retry[x.event] + 1}
        /\ \A e \in Events : e # x.event => retry'[e] = retry[e]
    BY <2>1, <2>2 DEF OutboxTypeOK
  <2>9. FailuresCounted'
    <3> SUFFICES ASSUME NEW e \in Events
                 PROVE  failures[e] = MaxRetries
                        \/ retry'[e] + Cardinality(Failing(e)') <= failures[e]
      BY <2>1 DEF FailuresCounted
    <3>1. CASE e # x.event
      BY <2>4, <2>8, <3>1 DEF FailuresCounted
    <3>2. CASE e = x.event
      BY <2>5, <2>6, <2>8, <3>2 DEF FailuresCounted
    <3> QED
      BY <3>1, <3>2
  <2>10. GivenUpWasTried'
    BY <2>1, <2>2, <2>6, <2>7 DEF GivenUpWasTried, OutboxTypeOK
  <2>11. RecordsAreOld'
    <3> SUFFICES ASSUME NEW c \in Dispatchers, NEW y \in todo[c] \cup errs[c]
                 PROVE  y.retry <= retry'[y.event]
      BY <2>1 DEF RecordsAreOld, OutboxTypeOK
    <3>1. y.event \in Events /\ y.retry \in Nat /\ retry[y.event] \in Nat
          /\ y.retry <= retry[y.event]
      BY DEF OutboxTypeOK, Records, RecordsAreOld
    <3>2. retry'[y.event] \in {retry[y.event], retry[y.event] + 1}
      BY <2>8, <3>1
    <3> QED
      BY <3>1, <3>2
  <2> QED
    BY <2>9, <2>10, <2>11
<1>6. ASSUME NEW d \in Dispatchers, SettleSent(d)
      PROVE  RecordsAreOld' /\ FailuresCounted' /\ GivenUpWasTried'
  <2>1. UNCHANGED <<retry, failures, todo, errs>>
    BY <1>6 DEF SettleSent, kafkaVars
  <2>2. FailuresCounted'
    BY <2>1, CountKept DEF Failing
  <2>3. GivenUpWasTried'
    BY <1>6, <2>1 DEF SettleSent, GivenUpWasTried
  <2> QED
    BY <2>1, <2>2, <2>3 DEF RecordsAreOld
<1>7. ASSUME NEW d \in Dispatchers, SettleError(d)
      PROVE  RecordsAreOld' /\ FailuresCounted' /\ GivenUpWasTried'
  <2>1. UNCHANGED <<status, retry, failures, todo>> /\ errs' = [errs EXCEPT ![d] = {}]
    BY <1>7 DEF SettleError, rowVars, kafkaVars
  <2>2. FailuresCounted'
    BY <2>1, CountKept DEF Failing, EventsOf, OutboxTypeOK
  <2> QED
    BY <2>1, <2>2 DEF RecordsAreOld, GivenUpWasTried, OutboxTypeOK
<1>8. ASSUME NEW p \in Owners, Crash(p)
      PROVE  RecordsAreOld' /\ FailuresCounted' /\ GivenUpWasTried'
  <2>1. /\ UNCHANGED <<status, retry, failures>>
        /\ \A d \in Dispatchers : todo'[d] \subseteq todo[d] /\ errs'[d] \subseteq errs[d]
    BY <1>8 DEF Crash, rowVars, kafkaVars
  <2>2. FailuresCounted'
    BY <2>1, CountKept DEF Failing, EventsOf
  <2> QED
    BY <2>1, <2>2 DEF RecordsAreOld, GivenUpWasTried
<1>9. CASE ReapStuck
  <2>1. UNCHANGED <<retry, failures, todo, errs>>
    BY <1>9 DEF ReapStuck, workVars, kafkaVars
  <2>2. FailuresCounted'
    BY <2>1, CountKept DEF Failing
  <2>3. GivenUpWasTried'
    BY <1>9, <2>1 DEF ReapStuck, GivenUpWasTried
  <2> QED
    BY <2>1, <2>2, <2>3 DEF RecordsAreOld
<1>10. CASE UNCHANGED outboxVars
  <2>1. UNCHANGED <<status, retry, failures, todo, errs>>
    BY <1>10 DEF outboxVars, rowVars, workVars, kafkaVars
  <2>2. FailuresCounted'
    BY <2>1, CountKept DEF Failing
  <2> QED
    BY <2>1, <2>2 DEF RecordsAreOld, GivenUpWasTried
<1> QED
  BY <1>1, <1>2, <1>3, <1>4, <1>5, <1>6, <1>7, <1>8, <1>9, <1>10 DEF Next, DispatchStep

\* An event is given up only after MaxRetries failed publishings.
THEOREM GivenUpIsTried == Spec => []GivenUpWasTried
<1>1. Init => GInv
  <2>1. ASSUME Init PROVE OutboxTypeOK /\ OneRecord /\ RecordsAreOld /\ GivenUpWasTried
    BY <2>1, OutboxAssumption DEF OutboxAssumption, Init, OutboxTypeOK, Statuses, Records,
       OneRecord, RecordsAreOld, GivenUpWasTried, EventsOf
  <2>2. ASSUME Init, NEW e \in Events
        PROVE  retry[e] + Cardinality(Failing(e)) <= failures[e]
    <3>1. Failing(e) = {}
      BY <2>2 DEF Init, Failing, EventsOf
    <3> QED
      BY <2>2, <3>1, FS_EmptySet DEF Init
  <2> QED
    BY <2>1, <2>2 DEF GInv, FailuresCounted
<1>2. GInv /\ [Next]_outboxVars => GInv'
  BY OutboxAssumption, TypeStep, OneRecordStep, CountStep DEF GInv
<1>3. GInv => GivenUpWasTried
  BY DEF GInv
<1> QED
  BY <1>1, <1>2, <1>3, PTL DEF Spec

\* Both: the batches of the dispatchers are kept apart.
THEOREM BatchesApart == Spec => []BatchesKeepApart
<1>1. ClaimedOnce /\ GivenUpWasTried => BatchesKeepApart
  BY DEF BatchesKeepApart
<1> QED
  BY <1>1, EventsClaimedOnce, GivenUpIsTried, PTL

=============================================================================
