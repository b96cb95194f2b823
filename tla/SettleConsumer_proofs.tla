------------------------ MODULE SettleConsumer_proofs ------------------------
(***************************************************************************)
(* What the settle consumer keeps whatever fails: it lets no event through *)
(* twice but after a failed claim, and it passes no message whose row is   *)
(* neither stored nor on its way, but those it drops itself.               *)
(*                                                                         *)
(* Two arguments.  The first counts: every row on its way or in ClickHouse *)
(* was handed to the watchdog once, and every such handing over was        *)
(* claimed or let pass.  The second one follows the offsets: the group's   *)
(* offset never goes beyond a message that was in the memory of a process, *)
(* and up to such a message everything is stored, on its way, skipped or   *)
(* dropped.                                                                *)
(***************************************************************************)
EXTENDS SettleConsumer, FiniteSetTheorems, TLAPS

\* Where the loops are, and when there is a current message.
StageInv ==
    /\ stage["run"] \in Stages \ {"tick"}
    /\ stage["ticker"] \in {"tick", "insert", "commit", "down"}
    /\ stage["run"] \in {"claim", "watch", "add", "skip"} <=> current # 0
    /\ stage["run"] = "down" <=> stage["ticker"] = "down"
    /\ stage["run"] = "down" => items = <<>>

\* The numbers of the counting argument.
At(s, e) == IF stage["run"] = s /\ EventAt[current] = e THEN 1 ELSE 0

Pending(l, e) == IF stage[l] = "insert" THEN RowsOf(e, batch[l]) ELSE 0

Waiting(e) == At("add", e) + RowsOf(e, items) + Pending("run", e) + Pending("ticker", e)

Claimed(e) == IF e \in claims THEN 1 ELSE 0

CountInv ==
    /\ \A e \in Identified : watched[e] + At("watch", e) <= Claimed(e) + unclaimed[e]
    /\ \A e \in Events : rows[e] + Waiting(e) <= watched[e]

\* The row of e is on its way, and past its claim.
Kept(e) ==
    \/ stage["run"] \in {"watch", "add"} /\ EventAt[current] = e
    \/ e \in EventsIn(items)
    \/ \E l \in Loops : stage[l] = "insert" /\ e \in EventsIn(batch[l])

Settled(e) == e \in dropped \/ rows[e] > 0 \/ Kept(e)

ClaimInv == \A e \in claims : Settled(e)

Safe(o) == o \in skipped \/ Settled(EventAt[o]) \/ (current = o /\ stage["run"] = "claim")

\* The messages in the memory of the process.
Remembered == ({current} \cup OffsetsIn(items) \cup UNION {OffsetsIn(batch[l]) : l \in Loops}) \ {0}

Passed(o) == o < position \/ o < committed \/ \E m \in Remembered : o <= m

PassedInv == \A o \in Offsets : Passed(o) => Safe(o)

SInv == SettleTypeOK /\ StageInv /\ CountInv /\ ClaimInv /\ PassedInv

-----------------------------------------------------------------------------
(* The rows of a batch *)

LEMMA RowsOfType ==
    ASSUME NEW e, NEW s \in Seq(Offsets)
    PROVE  /\ IsFiniteSet({i \in DOMAIN s : EventAt[s[i]] = e})
           /\ RowsOf(e, s) \in Nat
<1> DEFINE R == {i \in DOMAIN s : EventAt[s[i]] = e}
<1>1. DOMAIN s = 1..Len(s) /\ Len(s) \in Nat
  OBVIOUS
<1>2. IsFiniteSet(1..Len(s))
  BY <1>1, FS_Interval
<1>3. R \in SUBSET (1..Len(s))
  BY <1>1
<1>4. IsFiniteSet(R)
  BY <1>2, <1>3, FS_Subset
<1> QED
  BY <1>4, FS_CardinalityType DEF RowsOf

LEMMA RowsOfNone ==
    ASSUME NEW e
    PROVE  RowsOf(e, <<>>) = 0
<1>1. {i \in DOMAIN <<>> : EventAt[<<>>[i]] = e} = {}
  OBVIOUS
<1> QED
  BY <1>1, FS_EmptySet DEF RowsOf

LEMMA RowsOfAppend ==
    ASSUME NEW e, NEW s \in Seq(Offsets), NEW o \in Offsets
    PROVE  RowsOf(e, Append(s, o)) = RowsOf(e, s) + (IF EventAt[o] = e THEN 1 ELSE 0)
<1> DEFINE R == {i \in DOMAIN s : EventAt[s[i]] = e}
           t == Append(s, o)
           Q == {i \in DOMAIN t : EventAt[t[i]] = e}
           n == Len(s) + 1
<1>1. IsFiniteSet(R) /\ RowsOf(e, s) \in Nat
  BY RowsOfType
<1>2. /\ n \notin DOMAIN s /\ DOMAIN t = DOMAIN s \cup {n}
      /\ t[n] = o /\ \A i \in DOMAIN s : t[i] = s[i]
  OBVIOUS
<1>3. CASE EventAt[o] = e
  <2>1. Q = R \cup {n} /\ n \notin R
    BY <1>2, <1>3
  <2>2. Cardinality(R \cup {n}) = Cardinality(R) + 1
    BY <1>1, <2>1, FS_AddElement
  <2>3. RowsOf(e, t) = Cardinality(Q) /\ RowsOf(e, s) = Cardinality(R)
    BY DEF RowsOf
  <2> HIDE DEF R, Q
  <2> QED
    BY <1>3, <2>1, <2>2, <2>3
<1>4. CASE EventAt[o] # e
  <2>1. Q = R
    BY <1>2, <1>4
  <2>2. RowsOf(e, t) = Cardinality(Q) /\ RowsOf(e, s) = Cardinality(R)
    BY DEF RowsOf
  <2> HIDE DEF R, Q
  <2> QED
    BY <1>1, <1>4, <2>1, <2>2
<1> QED
  BY <1>3, <1>4

LEMMA RowsOfSome ==
    ASSUME NEW s \in Seq(Offsets), NEW e \in EventsIn(s)
    PROVE  RowsOf(e, s) > 0
<1> DEFINE R == {i \in DOMAIN s : EventAt[s[i]] = e}
<1>1. IsFiniteSet(R) /\ RowsOf(e, s) \in Nat
  BY RowsOfType
<1>2. R # {}
  BY DEF EventsIn, OffsetsIn
<1>3. Cardinality(R) # 0
  BY <1>1, <1>2, FS_EmptySet
<1> QED
  BY <1>1, <1>3 DEF RowsOf

\* What a batch holds when it is empty, or when a message is appended.
LEMMA ContentNone == OffsetsIn(<<>>) = {} /\ EventsIn(<<>>) = {}
BY DEF OffsetsIn, EventsIn

LEMMA ContentAppend ==
    ASSUME NEW s \in Seq(Offsets), NEW o \in Offsets
    PROVE  /\ Append(s, o) \in Seq(Offsets)
           /\ OffsetsIn(Append(s, o)) = OffsetsIn(s) \cup {o}
           /\ EventsIn(Append(s, o)) = EventsIn(s) \cup {EventAt[o]}
<1>1. /\ DOMAIN Append(s, o) = DOMAIN s \cup {Len(s) + 1}
      /\ Append(s, o)[Len(s) + 1] = o
      /\ \A i \in DOMAIN s : Append(s, o)[i] = s[i]
  OBVIOUS
<1>2. OffsetsIn(Append(s, o)) = OffsetsIn(s) \cup {o}
  BY <1>1 DEF OffsetsIn
<1>3. EventsIn(Append(s, o)) = EventsIn(s) \cup {EventAt[o]}
  BY <1>2 DEF EventsIn
<1>4. Append(s, o) \in Seq(Offsets)
  OBVIOUS
<1> QED
  BY <1>2, <1>3, <1>4

LEMMA ContentType ==
    ASSUME SettleAssumption, NEW s \in Seq(Offsets)
    PROVE  OffsetsIn(s) \subseteq Offsets /\ EventsIn(s) \subseteq Events
BY DEF SettleAssumption, OffsetsIn, EventsIn

-----------------------------------------------------------------------------
(* Types, and where the loops are *)

\* The counters of failures, stops and rebalances, which a step may raise.
Bounds == faults \in 0..MaxFaults /\ stops \in 0..MaxStops /\ rejoins \in 0..MaxRejoins

LEMMA FailsType ==
    ASSUME SettleAssumption, SettleTypeOK, NEW l \in Loops, Fails(l)
    PROVE  Bounds'
BY DEF SettleAssumption, SettleTypeOK, Fails, Bounds

LEMMA CommitType ==
    ASSUME PartitionAssumption, NEW msgs \in SUBSET Offsets, CommitMessages(msgs)
    PROVE  /\ committed' \in 1..Last + 1 /\ position' = position
           /\ \E m \in msgs : committed' = m + 1
<1>1. PICK m \in msgs : committed' = m + 1
  BY DEF CommitMessages
<1>2. m \in 1..Last
  BY DEF Offsets
<1> QED
  BY <1>1, <1>2 DEF PartitionAssumption, CommitMessages

LEMMA InsertedType ==
    ASSUME SettleTypeOK, NEW l \in Loops, Inserted(l)
    PROVE  rows' \in [Events -> Nat]
<1>1. \A e \in Events : RowsOf(e, batch[l]) \in Nat
  BY RowsOfType DEF SettleTypeOK
<1>2. \A e \in Events : rows[e] + RowsOf(e, batch[l]) \in Nat
  BY <1>1 DEF SettleTypeOK
<1> QED
  BY <1>2 DEF Inserted

LEMMA StageInitially ==
    ASSUME Init
    PROVE  StageInv
BY DEF Init, StageInv, Stages, Loops

LEMMA StageStep ==
    ASSUME SettleAssumption, PartitionAssumption, SettleTypeOK, StageInv, [Next]_settleVars
    PROVE  StageInv'
<1> USE DEF SettleTypeOK, StageInv, Stages, Loops, Goto, Resume
<1>1. CASE UNCHANGED settleVars
  BY <1>1 DEF settleVars, memoryVars
<1>2. CASE Fetch
  BY <1>2 DEF Fetch, FetchMessage, PartitionTypeOK, PartitionAssumption
<1>3. CASE ParseFails
  BY <1>3 DEF ParseFails
<1>4. CASE Claim
  BY <1>4 DEF Claim, Parsed
<1>5. CASE ClaimDuplicate
  BY <1>5 DEF ClaimDuplicate, Parsed
<1>6. CASE ClaimError
  BY <1>6 DEF ClaimError, Parsed
<1>7. CASE CommitSkipped
  BY <1>7 DEF CommitSkipped
<1>8. CASE EvaluateRtp
  BY <1>8 DEF EvaluateRtp
<1>9. CASE Add
  BY <1>9 DEF Add
<1>10. CASE StopFetching
  BY <1>10 DEF StopFetching
<1>11. CASE TakeBatch
  BY <1>11 DEF TakeBatch, Due
<1>12. ASSUME NEW l \in Loops, FlushStep(l) PROVE StageInv'
  BY <1>12 DEF FlushStep, Insert, InsertError, CommitBatch
<1>13. CASE SigTerm
  BY <1>13 DEF SigTerm
<1>14. CASE Exit
  BY <1>14 DEF Exit, Gone
<1>15. CASE Crash
  BY <1>15 DEF Crash, Gone
<1>16. CASE Restart
  BY <1>16 DEF Restart, Up
<1>17. CASE Rebalance
  BY <1>17 DEF Rebalance, memoryVars
<1> QED
  BY <1>1, <1>2, <1>3, <1>4, <1>5, <1>6, <1>7, <1>8, <1>9, <1>10, <1>11, <1>12,
     <1>13, <1>14, <1>15, <1>16, <1>17 DEF Next, RunStep

\* No loop flushes anything.
LEMMA NoBatch == [l \in Loops |-> <<>>] \in [Loops -> Seq(Offsets)] /\ <<>> \in Seq(Offsets)
OBVIOUS

LEMMA TypeInitially ==
    ASSUME SettleAssumption, PartitionAssumption, Init
    PROVE  SettleTypeOK
<1>1. items \in Seq(Offsets) /\ batch \in [Loops -> Seq(Offsets)]
  BY NoBatch DEF Init
<1>2. PartitionTypeOK
  BY DEF Init, PartitionInit, PartitionTypeOK, PartitionAssumption
<1>3. stage \in [Loops -> Stages]
  BY DEF Init, Stages, Loops
<1>4. Bounds
  BY DEF Init, Bounds, SettleAssumption
<1>5. /\ rows \in [Events -> Nat] /\ watched \in [Events -> Nat]
      /\ unclaimed \in [Events -> Nat]
  BY DEF Init
<1> QED
  BY <1>1, <1>2, <1>3, <1>4, <1>5 DEF Init, SettleTypeOK, Bounds

LEMMA TypeStep ==
    ASSUME SettleAssumption, PartitionAssumption, SettleTypeOK, StageInv, [Next]_settleVars
    PROVE  SettleTypeOK'
<1> USE DEF SettleAssumption, SettleTypeOK, StageInv, Loops, Stages, Goto, Resume
<1>1. CASE UNCHANGED settleVars
  BY <1>1 DEF settleVars, partitionVars, memoryVars, storeVars, historyVars, boundVars,
              PartitionTypeOK
<1>2. CASE Fetch
  BY <1>2 DEF Fetch, FetchMessage, storeVars, historyVars, boundVars, PartitionTypeOK,
              PartitionAssumption, Offsets
<1>3. CASE ParseFails
  <2>1. Bounds'
    BY <1>3 DEF ParseFails, boundVars, Bounds
  <2>2. current \in Offsets
    BY <1>3 DEF ParseFails
  <2> QED
    BY <1>3, <2>1, <2>2 DEF ParseFails, partitionVars, storeVars, PartitionTypeOK, Bounds
<1>4. CASE Claim
  BY <1>4 DEF Claim, Parsed, Registered, partitionVars, historyVars, boundVars, PartitionTypeOK
<1>5. CASE ClaimDuplicate
  BY <1>5 DEF ClaimDuplicate, partitionVars, storeVars, historyVars, boundVars, PartitionTypeOK
<1>6. CASE ClaimError
  <2>1. Bounds'
    BY <1>6, FailsType DEF ClaimError
  <2> QED
    BY <1>6, <2>1 DEF ClaimError, Parsed, partitionVars, PartitionTypeOK, Bounds
<1>7. CASE CommitSkipped
  <2>1. Bounds'
    BY <1>7, FailsType DEF CommitSkipped, boundVars, Bounds
  <2>2. PartitionTypeOK'
    BY <1>7, CommitType DEF CommitSkipped, partitionVars, PartitionTypeOK
  <2> QED
    BY <1>7, <2>1, <2>2 DEF CommitSkipped, storeVars, historyVars, Bounds
<1>8. CASE EvaluateRtp
  BY <1>8 DEF EvaluateRtp, partitionVars, historyVars, boundVars, PartitionTypeOK
<1>9. CASE Add
  <2>1. Append(items, current) \in Seq(Offsets)
    BY <1>9, ContentAppend DEF Add
  <2>2. items' \in Seq(Offsets) /\ batch' \in [Loops -> Seq(Offsets)]
    <3>1. CASE Len(Append(items, current)) >= MaxSize
      BY <1>9, <2>1, <3>1, NoBatch DEF Add
    <3>2. CASE ~ (Len(Append(items, current)) >= MaxSize)
      BY <1>9, <2>1, <3>2 DEF Add
    <3> QED
      BY <3>1, <3>2
  <2> QED
    BY <1>9, <2>2 DEF Add, partitionVars, storeVars, historyVars, boundVars, PartitionTypeOK
<1>10. CASE StopFetching
  BY <1>10 DEF StopFetching, partitionVars, storeVars, historyVars, boundVars, PartitionTypeOK
<1>11. CASE TakeBatch
  BY <1>11 DEF TakeBatch, partitionVars, storeVars, historyVars, boundVars, PartitionTypeOK
<1>12. ASSUME NEW l \in Loops, Insert(l) PROVE SettleTypeOK'
  BY <1>12, InsertedType DEF Insert, partitionVars, historyVars, boundVars, PartitionTypeOK
<1>13. ASSUME NEW l \in Loops, InsertError(l) PROVE SettleTypeOK'
  <2>1. Bounds' /\ rows' \in [Events -> Nat]
    BY <1>13, FailsType, InsertedType DEF InsertError
  <2>2. EventsIn(batch[l]) \subseteq Events
    BY <1>13, ContentType
  <2>3. <<>> \in Seq(Offsets)
    OBVIOUS
  <2> QED
    BY <1>13, <2>1, <2>2, <2>3 DEF InsertError, partitionVars, PartitionTypeOK, Bounds
<1>14. ASSUME NEW l \in Loops, CommitBatch(l) PROVE SettleTypeOK'
  <2>1. Bounds'
    BY <1>14, FailsType DEF CommitBatch, boundVars, Bounds
  <2>2. OffsetsIn(batch[l]) \subseteq Offsets
    BY <1>14, ContentType
  <2>3. PartitionTypeOK'
    BY <1>14, <2>2, CommitType DEF CommitBatch, partitionVars, PartitionTypeOK
  <2> QED
    BY <1>14, <2>1, <2>3 DEF CommitBatch, storeVars, historyVars, Bounds
<1>15. CASE SigTerm
  BY <1>15 DEF SigTerm, partitionVars, storeVars, historyVars, PartitionTypeOK
<1>16. CASE Exit
  BY <1>16, NoBatch DEF Exit, Gone, partitionVars, storeVars, historyVars, boundVars, PartitionTypeOK
<1>17. CASE Crash
  <2>1. {EventAt[o] : o \in {p \in Offsets : Held(p)}} \subseteq Events
    OBVIOUS
  <2>2. dropped' \subseteq Events
    BY <1>17, <2>1 DEF Crash
  <2>3. Bounds'
    <3>1. stops < MaxStops /\ stops' = stops + 1 /\ faults' = faults /\ rejoins' = rejoins
      BY <1>17, Zenon DEF Crash
    <3> QED
      BY <3>1 DEF Bounds
  <2>4. items' \in Seq(Offsets) /\ batch' \in [Loops -> Seq(Offsets)]
    BY <1>17, NoBatch DEF Crash, Gone
  <2> QED
    BY <1>17, <2>2, <2>3, <2>4 DEF Crash, Gone, partitionVars, storeVars, PartitionTypeOK, Bounds
<1>18. CASE Restart
  BY <1>18 DEF Restart, Rejoin, storeVars, historyVars, boundVars, PartitionTypeOK
<1>19. CASE Rebalance
  BY <1>19 DEF Rebalance, Rejoin, memoryVars, storeVars, historyVars, PartitionTypeOK
<1> QED
  BY <1>1, <1>2, <1>3, <1>4, <1>5, <1>6, <1>7, <1>8, <1>9, <1>10, <1>11, <1>12,
     <1>13, <1>14, <1>15, <1>16, <1>17, <1>18, <1>19 DEF Next, RunStep, FlushStep

-----------------------------------------------------------------------------
(* The counting argument *)

LEMMA CountType ==
    ASSUME SettleTypeOK, NEW e \in Events
    PROVE  /\ RowsOf(e, items) \in Nat /\ \A l \in Loops : RowsOf(e, batch[l]) \in Nat
           /\ Pending("run", e) \in Nat /\ Pending("ticker", e) \in Nat
           /\ At("watch", e) \in 0..1 /\ At("add", e) \in 0..1
           /\ rows[e] \in Nat /\ watched[e] \in Nat /\ unclaimed[e] \in Nat
<1>1. RowsOf(e, items) \in Nat
  BY RowsOfType DEF SettleTypeOK
<1>2. ASSUME NEW l \in Loops PROVE RowsOf(e, batch[l]) \in Nat
  BY RowsOfType DEF SettleTypeOK
<1>3. Pending("run", e) \in Nat /\ Pending("ticker", e) \in Nat
  BY <1>2 DEF Pending, Loops
<1> QED
  BY <1>1, <1>2, <1>3 DEF At, SettleTypeOK

\* A step that lets nothing through and adds no row.
LEMMA CountQuiet ==
    ASSUME SettleTypeOK, SettleTypeOK', CountInv, Identified \subseteq Events,
           UNCHANGED <<rows, watched, unclaimed>>, claims \subseteq claims',
           \A e \in Events : At("watch", e)' <= At("watch", e) /\ Waiting(e)' <= Waiting(e)
    PROVE  CountInv'
<1>1. ASSUME NEW e \in Identified
      PROVE  watched'[e] + At("watch", e)' <= Claimed(e)' + unclaimed'[e]
  <2>1. At("watch", e) \in 0..1 /\ At("watch", e)' \in 0..1
    BY DEF At
  <2>2. watched[e] \in Nat /\ unclaimed[e] \in Nat
    BY DEF SettleTypeOK
  <2>3. watched[e] + At("watch", e) <= Claimed(e) + unclaimed[e]
    BY DEF CountInv
  <2>4. Claimed(e) \in 0..1 /\ Claimed(e)' \in 0..1 /\ Claimed(e) <= Claimed(e)'
    BY DEF Claimed
  <2> QED
    BY <2>1, <2>2, <2>3, <2>4
<1>2. ASSUME NEW e \in Events
      PROVE  rows'[e] + Waiting(e)' <= watched'[e]
  <2>1. Waiting(e) \in Nat
    BY CountType DEF Waiting
  <2>2. Waiting(e)' \in Nat
    <3>1. RowsOf(e, items') \in Nat /\ \A l \in Loops : RowsOf(e, batch'[l]) \in Nat
      BY RowsOfType DEF SettleTypeOK
    <3> QED
      BY <3>1 DEF Waiting, At, Pending, Loops
  <2>3. rows[e] \in Nat /\ watched[e] \in Nat /\ rows[e] + Waiting(e) <= watched[e]
    BY DEF SettleTypeOK, CountInv
  <2> QED
    BY <2>1, <2>2, <2>3
<1> QED
  BY <1>1, <1>2 DEF CountInv

LEMMA CountInitially ==
    ASSUME SettleAssumption, Init
    PROVE  CountInv
<1>1. ASSUME NEW e \in Events PROVE Waiting(e) = 0 /\ At("watch", e) = 0
  BY RowsOfNone DEF Init, Waiting, At, Pending, Loops
<1> QED
  BY <1>1 DEF Init, CountInv, Claimed, SettleAssumption

LEMMA CountStep ==
    ASSUME SettleAssumption, SettleTypeOK, SettleTypeOK', StageInv, CountInv,
           [Next]_settleVars
    PROVE  CountInv'
<1> DEFINE Less == \A e \in Events : At("watch", e)' <= At("watch", e) /\ Waiting(e)' <= Waiting(e)
<1> Identified \subseteq Events
  BY DEF SettleAssumption
\* Steps that move no row.
<1>1. CASE \/ UNCHANGED settleVars \/ Fetch \/ ParseFails \/ ClaimDuplicate \/ CommitSkipped
           \/ StopFetching \/ SigTerm \/ Rebalance \/ Restart
  <2>1. /\ UNCHANGED <<rows, watched, unclaimed, claims, items, batch>>
        /\ \A l \in Loops : stage[l] = stage'[l] \/ {stage[l], stage'[l]} \cap {"watch", "add", "insert"} = {}
        /\ stage["run"] \in {"watch", "add"} => current' = current
    BY <1>1 DEF settleVars, memoryVars, storeVars, historyVars, Fetch, ParseFails, ClaimDuplicate, Parsed,
                CommitSkipped, StopFetching, SigTerm, Rebalance, Restart, Goto, Loops, SettleTypeOK,
                StageInv, Up
  <2>2. ASSUME NEW e \in Events PROVE At("watch", e)' = At("watch", e) /\ Waiting(e)' = Waiting(e)
    BY <2>1 DEF At, Waiting, Pending, Loops
  <2>3. Less
    BY <2>1, <2>2, CountType DEF Waiting
  <2> QED
    BY <2>1, <2>3, CountQuiet
\* A message is let through.
<1>2. ASSUME NEW e \in Identified PROVE watched[e] + At("watch", e) <= Claimed(e) + unclaimed[e]
  BY DEF CountInv
<1>3. ASSUME NEW e \in Events PROVE rows[e] + Waiting(e) <= watched[e]
  BY DEF CountInv
<1>4. CASE Claim \/ ClaimError
  <2>1. /\ UNCHANGED <<rows, watched, items, batch, current>>
        /\ stage["run"] = "claim" /\ stage'["run"] = "watch" /\ stage'["ticker"] = stage["ticker"]
    BY <1>4 DEF Claim, ClaimError, Parsed, Goto, SettleTypeOK, Loops
  <2>2. ASSUME NEW e \in Identified
        PROVE  At("watch", e)' + Claimed(e) + unclaimed[e] <= Claimed(e)' + unclaimed'[e]
    <3>1. CASE Claim
      BY <3>1, <2>1 DEF Claim, Parsed, Claimable, Registered, At, Claimed, historyVars, SettleTypeOK
    <3>2. CASE ClaimError
      <4>1. /\ claims \subseteq claims' /\ EventAt[current] \in Identified
            /\ unclaimed' = [unclaimed EXCEPT ![EventAt[current]] = @ + 1]
        BY <3>2 DEF ClaimError
      <4>2. unclaimed[e] \in Nat /\ unclaimed' \in [Events -> Nat]
        BY DEF SettleTypeOK
      <4>3. CASE e = EventAt[current]
        <5>1. At("watch", e)' <= 1 /\ At("watch", e)' \in 0..1
          BY DEF At
        <5>2. Claimed(e) <= Claimed(e)' /\ Claimed(e) \in 0..1 /\ Claimed(e)' \in 0..1
          BY <4>1 DEF Claimed
        <5>3. unclaimed'[e] = unclaimed[e] + 1
          BY <4>1, <4>2, <4>3 DEF SettleTypeOK
        <5> QED
          BY <4>2, <5>1, <5>2, <5>3
      <4>4. CASE e # EventAt[current]
        BY <2>1, <4>1, <4>2, <4>4 DEF At, Claimed, SettleTypeOK
      <4> QED
        BY <4>3, <4>4
    <3> QED
      BY <1>4, <3>1, <3>2
  <2>3. ASSUME NEW e \in Identified
        PROVE  watched'[e] + At("watch", e)' <= Claimed(e)' + unclaimed'[e]
    <3>1. At("watch", e) = 0
      BY <2>1 DEF At
    <3>2. /\ watched[e] \in Nat /\ unclaimed[e] \in Nat /\ unclaimed'[e] \in Nat
          /\ watched'[e] = watched[e]
      BY <2>1 DEF SettleTypeOK
    <3>3. At("watch", e)' \in 0..1 /\ Claimed(e) \in 0..1 /\ Claimed(e)' \in 0..1
      BY DEF At, Claimed
    <3> QED
      BY <1>2, <2>2, <3>1, <3>2, <3>3
  <2>4. ASSUME NEW e \in Events PROVE rows'[e] + Waiting(e)' <= watched'[e]
    <3>1. Waiting(e)' = Waiting(e)
      BY <2>1 DEF Waiting, At, Pending, Loops
    <3> QED
      BY <1>3, <2>1, <3>1
  <2> QED
    BY <2>3, <2>4 DEF CountInv
\* It is handed to the watchdog.
<1>5. CASE EvaluateRtp
  <2>1. /\ UNCHANGED <<rows, unclaimed, claims, items, batch, current>>
        /\ stage["run"] = "watch" /\ stage'["run"] = "add" /\ stage'["ticker"] = stage["ticker"]
        /\ watched' = [watched EXCEPT ![EventAt[current]] = @ + 1]
    BY <1>5 DEF EvaluateRtp, historyVars, Goto, SettleTypeOK, Loops
  <2>2. ASSUME NEW e \in Events
        PROVE  /\ watched'[e] = watched[e] + At("watch", e)
               /\ At("watch", e)' = 0 /\ At("add", e) = 0 /\ At("add", e)' = At("watch", e)
               /\ watched[e] \in Nat
    BY <2>1 DEF At, SettleTypeOK
  <2>3. ASSUME NEW e \in Identified
        PROVE  watched'[e] + At("watch", e)' <= Claimed(e)' + unclaimed'[e]
    <3>1. At("watch", e) \in 0..1 /\ Claimed(e)' = Claimed(e) /\ unclaimed'[e] = unclaimed[e]
      BY <2>1 DEF At, Claimed
    <3> QED
      BY <1>2, <2>2, <3>1
  <2>4. ASSUME NEW e \in Events PROVE rows'[e] + Waiting(e)' <= watched'[e]
    <3>1. Waiting(e)' = Waiting(e) + At("watch", e)
      BY <2>1, <2>2, CountType DEF Waiting, Pending, Loops
    <3>2. rows[e] \in Nat /\ rows'[e] = rows[e] /\ Waiting(e) \in Nat /\ At("watch", e) \in 0..1
      BY <2>1, CountType DEF Waiting
    <3> QED
      BY <1>3, <2>2, <3>1, <3>2
  <2> QED
    BY <2>3, <2>4 DEF CountInv
\* Its row moves into the batcher and on to a loop.
<1>6. CASE Add
  <2>1. /\ UNCHANGED <<rows, watched, unclaimed, claims>>
        /\ stage["run"] = "add" /\ stage'["run"] \in {"insert", "fetch"}
        /\ stage'["ticker"] = stage["ticker"] /\ batch'["ticker"] = batch["ticker"]
        /\ stage'["run"] = "insert" => items' = <<>> /\ batch'["run"] = Append(items, current)
        /\ stage'["run"] = "fetch" => items' = Append(items, current)
        /\ current \in Offsets
    BY <1>6 DEF Add, storeVars, historyVars, Goto, SettleTypeOK, StageInv, Loops
  <2>2. ASSUME NEW e \in Events
        PROVE  At("watch", e)' <= At("watch", e) /\ Waiting(e)' <= Waiting(e)
    <3>1. At("watch", e) = 0 /\ At("watch", e)' = 0 /\ At("add", e)' = 0
          /\ At("add", e) = IF EventAt[current] = e THEN 1 ELSE 0
      BY <2>1 DEF At
    <3>2. RowsOf(e, Append(items, current)) = RowsOf(e, items) + At("add", e)
      BY <2>1, <3>1, RowsOfAppend DEF SettleTypeOK
    <3>3. Pending("ticker", e)' = Pending("ticker", e) /\ Pending("run", e) = 0
      BY <2>1 DEF Pending
    <3>4. RowsOf(e, items') + Pending("run", e)' = RowsOf(e, items) + At("add", e)
      <4>1. RowsOf(e, items) \in Nat /\ At("add", e) \in 0..1
        BY CountType
      <4>2. CASE stage'["run"] = "insert"
        <5>1. RowsOf(e, items') = 0 /\ Pending("run", e)' = RowsOf(e, Append(items, current))
          BY <2>1, <4>2, RowsOfNone DEF Pending
        <5> QED
          BY <3>2, <4>1, <5>1
      <4>3. CASE stage'["run"] = "fetch"
        <5>1. RowsOf(e, items') = RowsOf(e, Append(items, current)) /\ Pending("run", e)' = 0
          BY <2>1, <4>3 DEF Pending
        <5> QED
          BY <3>2, <4>1, <5>1
      <4> QED
        BY <2>1, <4>2, <4>3
    <3>5. RowsOf(e, items') \in Nat /\ Pending("run", e)' \in Nat
      <4>1. RowsOf(e, items') \in Nat /\ RowsOf(e, batch'["run"]) \in Nat
        BY RowsOfType DEF SettleTypeOK, Loops
      <4> QED
        BY <4>1 DEF Pending
    <3>6. Waiting(e)' = Waiting(e)
      BY <3>1, <3>3, <3>4, <3>5, CountType DEF Waiting
    <3>7. Waiting(e) \in Nat
      BY CountType DEF Waiting
    <3> QED
      BY <3>1, <3>6, <3>7
  <2> QED
    BY <2>1, <2>2, CountQuiet
<1>7. CASE TakeBatch
  <2>1. /\ UNCHANGED <<rows, watched, unclaimed, claims, current>>
        /\ stage["ticker"] = "tick" /\ stage'["ticker"] = "insert" /\ stage'["run"] = stage["run"]
        /\ items' = <<>> /\ batch'["ticker"] = items /\ batch'["run"] = batch["run"]
    BY <1>7 DEF TakeBatch, storeVars, historyVars, Goto, SettleTypeOK, Loops
  <2>2. ASSUME NEW e \in Events
        PROVE  At("watch", e)' <= At("watch", e) /\ Waiting(e)' <= Waiting(e)
    BY <2>1, RowsOfNone, CountType DEF Waiting, Pending, At
  <2> QED
    BY <2>1, <2>2, CountQuiet
<1>8. ASSUME NEW l \in Loops, FlushStep(l) PROVE CountInv'
  <2>1. /\ UNCHANGED <<watched, unclaimed, claims, items, current>>
        /\ stage[l] \in {"insert", "commit"} /\ stage'[l] \in {"commit", "fetch", "tick"}
        /\ \A k \in Loops \ {l} : stage'[k] = stage[k] /\ batch'[k] = batch[k]
    BY <1>8 DEF FlushStep, Insert, InsertError, CommitBatch, storeVars, historyVars, Goto, Resume,
                SettleTypeOK
  <2>2. ASSUME NEW e \in Events PROVE rows'[e] <= rows[e] + Pending(l, e)
    <3>1. RowsOf(e, batch[l]) \in Nat /\ rows[e] \in Nat
      BY CountType
    <3>2. Insert(l) \/ InsertError(l) => stage[l] = "insert" /\ (Inserted(l) \/ rows' = rows)
      BY DEF Insert, InsertError
    <3>3. CommitBatch(l) => rows' = rows
      BY DEF CommitBatch, storeVars
    <3>4. Pending(l, e) \in Nat /\ (stage[l] = "insert" => Pending(l, e) = RowsOf(e, batch[l]))
      BY <3>1 DEF Pending
    <3> QED
      BY <1>8, <3>1, <3>2, <3>3, <3>4 DEF FlushStep, Inserted
  <2>3. ASSUME NEW e \in Events
        PROVE  /\ At("watch", e)' <= At("watch", e)
               /\ Waiting(e)' + Pending(l, e) <= Waiting(e)
    <3>1. At("watch", e)' = At("watch", e) /\ At("add", e)' = At("add", e)
      BY <2>1 DEF At, Loops
    <3>2. /\ Pending(l, e)' = 0
          /\ \A k \in Loops \ {l} : Pending(k, e)' = Pending(k, e)
      BY <2>1 DEF Pending
    <3>3. RowsOf(e, items)' = RowsOf(e, items)
      BY <2>1
    <3> QED
      BY <3>1, <3>2, <3>3, CountType DEF Waiting, Loops
  <2>4. ASSUME NEW e \in Identified
        PROVE  watched'[e] + At("watch", e)' <= Claimed(e)' + unclaimed'[e]
    <3>1. watched[e] \in Nat /\ At("watch", e) \in 0..1 /\ At("watch", e)' \in 0..1
      BY CountType DEF At
    <3>2. Claimed(e)' = Claimed(e) /\ Claimed(e) \in 0..1 /\ unclaimed[e] \in Nat
      BY <2>1 DEF Claimed, SettleTypeOK
    <3> QED
      BY <1>2, <2>1, <2>3, <3>1, <3>2
  <2>5. ASSUME NEW e \in Events PROVE rows'[e] + Waiting(e)' <= watched'[e]
    <3>1. Waiting(e) \in Nat /\ Pending(l, e) \in Nat /\ rows[e] \in Nat /\ watched[e] \in Nat
      BY CountType DEF Waiting, Loops
    <3>2. rows'[e] \in Nat
      BY DEF SettleTypeOK
    <3>3. Waiting(e)' \in Nat
      <4>1. RowsOf(e, items') \in Nat /\ \A k \in Loops : RowsOf(e, batch'[k]) \in Nat
        BY RowsOfType DEF SettleTypeOK
      <4> QED
        BY <4>1 DEF Waiting, At, Pending, Loops
    <3> QED
      BY <1>3, <2>1, <2>2, <2>3, <3>1, <3>2, <3>3
  <2> QED
    BY <2>4, <2>5 DEF CountInv
\* The memory is lost.
<1>9. CASE Exit \/ Crash
  <2>1. /\ UNCHANGED <<rows, watched, unclaimed, claims>> /\ items' = <<>>
        /\ stage'["run"] = "down" /\ stage'["ticker"] = "down"
    BY <1>9 DEF Exit, Crash, Gone, storeVars, historyVars, Loops
  <2>2. ASSUME NEW e \in Events
        PROVE  At("watch", e)' <= At("watch", e) /\ Waiting(e)' <= Waiting(e)
    <3>1. At("watch", e)' = 0 /\ Waiting(e)' = 0
      BY <2>1, RowsOfNone DEF At, Waiting, Pending
    <3> QED
      BY <3>1, CountType DEF Waiting
  <2> QED
    BY <2>1, <2>2, CountQuiet
<1> QED
  BY <1>1, <1>4, <1>5, <1>6, <1>7, <1>8, <1>9 DEF Next, RunStep

-----------------------------------------------------------------------------
(* What is settled stays settled *)

LEMMA RowsGrow ==
    ASSUME SettleTypeOK, [Next]_settleVars, NEW e \in Events, rows[e] > 0
    PROVE  rows'[e] > 0
<1>1. \A l \in Loops : RowsOf(e, batch[l]) \in Nat /\ rows[e] \in Nat
  BY CountType
<1>2. ASSUME NEW l \in Loops, Inserted(l) PROVE rows'[e] > 0
  BY <1>1, <1>2 DEF Inserted
<1>3. rows' = rows \/ \E l \in Loops : Inserted(l)
  BY DEF Next, RunStep, FlushStep, settleVars, storeVars, Fetch, ParseFails, Claim, ClaimDuplicate,
         ClaimError, CommitSkipped, EvaluateRtp, Add, StopFetching, TakeBatch, Insert, InsertError,
         CommitBatch, SigTerm, Exit, Crash, Restart, Rebalance
<1> QED
  BY <1>2, <1>3

LEMMA DroppedGrows ==
    ASSUME [Next]_settleVars
    PROVE  dropped \subseteq dropped' /\ skipped \subseteq skipped'
BY DEF Next, RunStep, FlushStep, settleVars, historyVars, Fetch, ParseFails, Claim, ClaimDuplicate,
       ClaimError, CommitSkipped, EvaluateRtp, Add, StopFetching, TakeBatch, Insert, InsertError,
       CommitBatch, SigTerm, Exit, Crash, Restart, Rebalance

\* A row past its claim is held in the sense of the properties.
LEMMA KeptIsHeld ==
    ASSUME SettleAssumption, SettleTypeOK, StageInv, NEW e \in Events, Kept(e)
    PROVE  \E p \in Offsets : EventAt[p] = e /\ Held(p)
<1>1. items \in Seq(Offsets) /\ \A l \in Loops : batch[l] \in Seq(Offsets)
  BY DEF SettleTypeOK
<1>2. CASE stage["run"] \in {"watch", "add"} /\ EventAt[current] = e
  BY <1>2 DEF StageInv, SettleTypeOK, Held
<1>3. CASE e \in EventsIn(items)
  BY <1>1, <1>3, ContentType DEF EventsIn, Held
<1>4. CASE \E l \in Loops : stage[l] = "insert" /\ e \in EventsIn(batch[l])
  BY <1>1, <1>4, ContentType DEF EventsIn, Held
<1> QED
  BY <1>2, <1>3, <1>4 DEF Kept

\* A row on its way is stored, dropped or still on its way.
LEMMA KeptStep ==
    ASSUME SettleAssumption, SettleTypeOK, StageInv, [Next]_settleVars,
           NEW e \in Events, Kept(e)
    PROVE  Settled(e)'
<1> USE DEF Loops
<1>1. CASE \/ UNCHANGED settleVars \/ Fetch \/ ParseFails \/ ClaimDuplicate \/ CommitSkipped
           \/ StopFetching \/ SigTerm \/ Rebalance \/ Claim \/ ClaimError \/ EvaluateRtp
  <2>1. /\ UNCHANGED <<items, batch>>
        /\ \A l \in Loops : stage[l] = "insert" => stage'[l] = "insert"
        /\ stage["run"] \in {"watch", "add"} => current' = current /\ stage'["run"] \in {"watch", "add"}
    BY <1>1 DEF settleVars, memoryVars, Fetch, ParseFails, ClaimDuplicate, Parsed, CommitSkipped,
                StopFetching, SigTerm, Rebalance, Claim, ClaimError, EvaluateRtp, Goto, SettleTypeOK
  <2>2. Kept(e)'
    BY <2>1 DEF Kept
  <2> QED
    BY <2>2 DEF Settled
<1>2. CASE Add
  <2>1. /\ stage["run"] = "add" /\ stage'["run"] \in {"insert", "fetch"}
        /\ stage'["ticker"] = stage["ticker"] /\ batch'["ticker"] = batch["ticker"]
        /\ stage'["run"] = "insert" => batch'["run"] = Append(items, current)
        /\ stage'["run"] = "fetch" => items' = Append(items, current)
        /\ current \in Offsets
    BY <1>2 DEF Add, Goto, SettleTypeOK, StageInv
  <2>2. EventsIn(Append(items, current)) = EventsIn(items) \cup {EventAt[current]}
    BY <2>1, ContentAppend DEF SettleTypeOK
  <2>3. Kept(e)'
    BY <2>1, <2>2 DEF Kept
  <2> QED
    BY <2>3 DEF Settled
<1>3. CASE TakeBatch
  <2>1. /\ stage["ticker"] = "tick" /\ stage'["ticker"] = "insert" /\ stage'["run"] = stage["run"]
        /\ batch'["ticker"] = items /\ batch'["run"] = batch["run"] /\ current' = current
    BY <1>3 DEF TakeBatch, Goto, SettleTypeOK
  <2>2. Kept(e)'
    BY <2>1 DEF Kept
  <2> QED
    BY <2>2 DEF Settled
<1>4. ASSUME NEW l \in Loops, FlushStep(l) PROVE Settled(e)'
  <2>1. /\ UNCHANGED <<items, current>> /\ stage[l] \in {"insert", "commit"}
        /\ \A k \in Loops \ {l} : stage'[k] = stage[k] /\ batch'[k] = batch[k]
    BY <1>4 DEF FlushStep, Insert, InsertError, CommitBatch, Goto, Resume, SettleTypeOK
  <2>2. CASE stage[l] = "insert" /\ e \in EventsIn(batch[l])
    <3>1. CASE Insert(l)
      <4>1. RowsOf(e, batch[l]) > 0 /\ RowsOf(e, batch[l]) \in Nat /\ rows[e] \in Nat
        BY <2>2, RowsOfSome, CountType DEF SettleTypeOK
      <4>2. rows'[e] = rows[e] + RowsOf(e, batch[l])
        BY <3>1 DEF Insert, Inserted
      <4>3. rows'[e] > 0
        BY <4>1, <4>2
      <4> QED
        BY <4>3 DEF Settled
    <3>2. CASE InsertError(l)
      BY <2>2, <3>2 DEF InsertError, Settled
    <3>3. CASE CommitBatch(l)
      BY <2>2, <3>3 DEF CommitBatch
    <3> QED
      BY <1>4, <3>1, <3>2, <3>3 DEF FlushStep
  <2>3. CASE ~ (stage[l] = "insert" /\ e \in EventsIn(batch[l]))
    <3>1. Kept(e)'
      BY <2>1, <2>3 DEF Kept
    <3> QED
      BY <3>1 DEF Settled
  <2> QED
    BY <2>2, <2>3
<1>5. CASE Exit
  <2>1. /\ stage["run"] = "stop" /\ stage["ticker"] = "tick" /\ EventsIn(items) = {}
    BY <1>5, ContentNone DEF Exit, LastFlushDone
  <2> QED
    BY <2>1 DEF Kept
<1>6. CASE Crash
  <2>1. PICK o \in Offsets : EventAt[o] = e /\ Held(o)
    BY KeptIsHeld
  <2>2. e \in dropped'
    BY <1>6, <2>1 DEF Crash
  <2> QED
    BY <2>2 DEF Settled
<1>7. CASE Restart
  <2>1. stage["run"] = "down" /\ stage["ticker"] = "down" /\ EventsIn(items) = {}
    BY <1>7, ContentNone DEF Restart, Up, StageInv
  <2> QED
    BY <2>1 DEF Kept
<1> QED
  BY <1>1, <1>2, <1>3, <1>4, <1>5, <1>6, <1>7 DEF Next, RunStep

LEMMA SettledStep ==
    ASSUME SettleAssumption, SettleTypeOK, StageInv, [Next]_settleVars,
           NEW e \in Events, Settled(e)
    PROVE  Settled(e)'
<1>1. CASE e \in dropped
  BY <1>1, DroppedGrows DEF Settled
<1>2. CASE rows[e] > 0
  BY <1>2, RowsGrow DEF Settled
<1>3. CASE Kept(e)
  BY <1>3, KeptStep
<1> QED
  BY <1>1, <1>2, <1>3 DEF Settled

LEMMA ClaimStep ==
    ASSUME SettleAssumption, SettleTypeOK, StageInv, ClaimInv, [Next]_settleVars
    PROVE  ClaimInv'
<1>1. \A e \in claims : e \in Events
  BY DEF SettleTypeOK, SettleAssumption
<1>2. \A e \in claims : Settled(e)'
  BY <1>1, SettledStep DEF ClaimInv
<1>3. CASE Claim \/ ClaimError
  <2>1. /\ claims' \subseteq claims \cup {EventAt[current]}
        /\ stage'["run"] = "watch" /\ current' = current
    BY <1>3 DEF Claim, ClaimError, Registered, Goto, SettleTypeOK, Loops
  <2>2. Settled(EventAt[current])'
    BY <2>1 DEF Settled, Kept
  <2> QED
    BY <1>2, <2>1, <2>2 DEF ClaimInv
<1>4. CASE claims' = claims
  BY <1>2, <1>4 DEF ClaimInv
<1>5. Claim \/ ClaimError \/ claims' = claims
  BY DEF Next, RunStep, FlushStep, settleVars, storeVars, Fetch, ParseFails, ClaimDuplicate,
         CommitSkipped, EvaluateRtp, Add, StopFetching, TakeBatch, Insert, InsertError,
         CommitBatch, SigTerm, Exit, Crash, Restart, Rebalance
<1> QED
  BY <1>3, <1>4, <1>5

-----------------------------------------------------------------------------
(* The offsets *)

LEMMA SafeStep ==
    ASSUME SettleAssumption, SettleTypeOK, StageInv, ClaimInv, [Next]_settleVars,
           NEW o \in Offsets, Safe(o)
    PROVE  Safe(o)'
<1>1. EventAt[o] \in Events
  BY DEF SettleAssumption
<1>2. CASE o \in skipped
  BY <1>2, DroppedGrows DEF Safe
<1>3. CASE Settled(EventAt[o])
  BY <1>1, <1>3, SettledStep DEF Safe
<1>4. CASE current = o /\ stage["run"] = "claim"
  <2>1. CASE ParseFails
    BY <1>4, <2>1 DEF ParseFails, Safe
  <2>2. CASE Claim \/ ClaimError
    <3>1. stage'["run"] = "watch" /\ current' = o
      BY <1>4, <2>2 DEF Claim, ClaimError, Goto, SettleTypeOK, Loops
    <3>2. Settled(EventAt[o])'
      BY <3>1 DEF Settled, Kept
    <3> QED
      BY <3>2 DEF Safe
  <2>3. CASE ClaimDuplicate
    <3>1. Settled(EventAt[o])
      BY <1>4, <2>3 DEF ClaimDuplicate, Claimable, ClaimInv
    <3> QED
      BY <1>3, <3>1
  <2>4. CASE Crash
    <3>1. Held(o)
      BY <1>4 DEF Held
    <3>2. EventAt[o] \in dropped'
      BY <2>4, <3>1 DEF Crash
    <3> QED
      BY <3>2 DEF Safe, Settled
  <2>5. CASE ~ (ParseFails \/ Claim \/ ClaimError \/ ClaimDuplicate \/ Crash)
    <3>1. current' = current /\ stage'["run"] = "claim"
      BY <1>4, <2>5 DEF Next, RunStep, FlushStep, settleVars, memoryVars, Fetch, CommitSkipped,
         EvaluateRtp, Add, StopFetching, TakeBatch, Insert, InsertError, CommitBatch, SigTerm, Exit,
         Restart, Rebalance, Up, Goto, Resume, SettleTypeOK, StageInv, Loops
    <3> QED
      BY <1>4, <3>1 DEF Safe
  <2> QED
    BY <2>1, <2>2, <2>3, <2>4, <2>5
<1> QED
  BY <1>2, <1>3, <1>4 DEF Safe

\* A flush or a process death remembers no message that was not remembered.
LEMMA PassedBack ==
    ASSUME SettleAssumption, PartitionAssumption, SettleTypeOK, StageInv, [Next]_settleVars,
           NEW o \in Offsets, Passed(o)'
    PROVE  Passed(o) \/ (Fetch /\ o = position)
<1> USE DEF Loops
<1>1. position \in Nat /\ committed \in Nat /\ o \in Nat
  BY DEF SettleTypeOK, PartitionTypeOK, PartitionAssumption, Offsets
<1>2. Remembered \subseteq Offsets
  <2>1. OffsetsIn(items) \subseteq Offsets /\ \A l \in Loops : OffsetsIn(batch[l]) \subseteq Offsets
    BY ContentType DEF SettleTypeOK
  <2> QED
    BY <2>1 DEF Remembered, SettleTypeOK
<1>3. SUFFICES ASSUME ~ Fetch PROVE Passed(o)
  <2>1. CASE Fetch
    <3>1. /\ UNCHANGED <<items, batch, committed>> /\ position' = position + 1 /\ current' = position
      BY <2>1 DEF Fetch, FetchMessage
    <3>2. Remembered' \subseteq Remembered \cup {position}
      BY <3>1 DEF Remembered
    <3>3. o < position + 1 \/ o < committed \/ \E m \in Remembered : o <= m
      BY <1>1, <3>1, <3>2 DEF Passed
    <3> QED
      BY <1>1, <2>1, <3>3 DEF Passed
  <2> QED
    BY <1>3, <2>1
<1>4. Remembered' \subseteq Remembered
  <2>1. CASE Add
    <3>1. /\ current \in Offsets /\ items \in Seq(Offsets) /\ current' = 0
          /\ batch'["ticker"] = batch["ticker"]
          /\ \/ items' = <<>> /\ batch'["run"] = Append(items, current)
             \/ items' = Append(items, current) /\ batch'["run"] = batch["run"]
      BY <2>1 DEF Add, Goto, SettleTypeOK, StageInv
    <3>2. OffsetsIn(Append(items, current)) = OffsetsIn(items) \cup {current}
      BY <3>1, ContentAppend
    <3> QED
      BY <3>1, <3>2, ContentNone DEF Remembered
  <2>2. CASE TakeBatch
    <3>1. /\ current' = current /\ items' = <<>> /\ batch'["ticker"] = items
          /\ batch'["run"] = batch["run"]
      BY <2>2 DEF TakeBatch, SettleTypeOK
    <3> QED
      BY <3>1, ContentNone DEF Remembered
  <2>3. ASSUME NEW l \in Loops, FlushStep(l) PROVE Remembered' \subseteq Remembered
    <3>1. /\ UNCHANGED <<items, current>> /\ (batch'[l] = batch[l] \/ batch'[l] = <<>>)
          /\ \A k \in Loops \ {l} : batch'[k] = batch[k]
      BY <2>3 DEF FlushStep, Insert, InsertError, CommitBatch, SettleTypeOK
    <3> QED
      BY <3>1, ContentNone DEF Remembered
  <2>4. CASE Exit \/ Crash
    <3>1. current' = 0 /\ items' = <<>> /\ \A l \in Loops : batch'[l] = <<>>
      BY <2>4 DEF Exit, Crash, Gone
    <3> QED
      BY <3>1, ContentNone DEF Remembered
  <2>5. CASE CommitSkipped
    BY <2>5 DEF CommitSkipped, Remembered
  <2>6. CASE UNCHANGED <<current, items, batch>>
    BY <2>6 DEF Remembered
  <2> QED
    BY <1>3, <2>1, <2>2, <2>3, <2>4, <2>5, <2>6 DEF Next, RunStep, settleVars, memoryVars, ParseFails,
       Claim, ClaimDuplicate, ClaimError, EvaluateRtp, StopFetching, SigTerm, Restart, Rebalance
<1>5. /\ position' \in {position, committed}
      /\ committed' = committed \/ \E m \in Remembered : committed' = m + 1
  <2>1. CASE CommitSkipped
    <3>1. current \in Offsets /\ 0 \notin Offsets
      BY <2>1 DEF CommitSkipped, SettleTypeOK, StageInv, Offsets
    <3>2. current \in Remembered
      BY <3>1 DEF Remembered
    <3> QED
      BY <2>1, <3>1, <3>2, CommitType DEF CommitSkipped, partitionVars
  <2>2. ASSUME NEW l \in Loops, CommitBatch(l)
        PROVE  /\ position' = position
               /\ committed' = committed \/ \E m \in Remembered : committed' = m + 1
    <3>1. OffsetsIn(batch[l]) \subseteq Offsets /\ 0 \notin Offsets
      BY ContentType DEF SettleTypeOK, Offsets
    <3>2. OffsetsIn(batch[l]) \subseteq Remembered
      BY <3>1 DEF Remembered
    <3> QED
      BY <2>2, <3>1, <3>2, CommitType DEF CommitBatch, partitionVars
  <2>3. CASE Restart \/ Rebalance
    BY <2>3 DEF Restart, Rebalance, Rejoin
  <2>4. CASE UNCHANGED partitionVars
    BY <2>4 DEF partitionVars
  <2> QED
    BY <1>3, <2>1, <2>2, <2>3, <2>4 DEF Next, RunStep, FlushStep, settleVars, ParseFails,
       Claim, ClaimDuplicate, ClaimError, EvaluateRtp, Add, StopFetching, TakeBatch, Insert,
       InsertError, SigTerm, Exit, Crash
<1>6. o < position' \/ o < committed' \/ \E m \in Remembered : o <= m
  BY <1>4 DEF Passed
<1>7. \A m \in Remembered : m \in Nat
  BY <1>2 DEF Offsets
<1> QED
  BY <1>1, <1>5, <1>6, <1>7 DEF Passed

LEMMA PassedStep ==
    ASSUME SettleAssumption, PartitionAssumption, SettleTypeOK, StageInv, ClaimInv, PassedInv,
           [Next]_settleVars
    PROVE  PassedInv'
<1> SUFFICES ASSUME NEW o \in Offsets, Passed(o)' PROVE Safe(o)'
  BY DEF PassedInv, Offsets
<1>1. CASE Passed(o)
  BY <1>1, SafeStep DEF PassedInv
<1>2. CASE Fetch /\ o = position
  <2>1. current' = o /\ stage'["run"] = "claim"
    BY <1>2 DEF Fetch, Goto, SettleTypeOK, Loops
  <2> QED
    BY <2>1 DEF Safe
<1> QED
  BY <1>1, <1>2, PassedBack

-----------------------------------------------------------------------------
(* The invariant and its theorems *)

LEMMA SInvInitially ==
    ASSUME SettleAssumption, PartitionAssumption, Init
    PROVE  SInv
<1>1. SettleTypeOK /\ StageInv /\ CountInv
  BY TypeInitially, StageInitially, CountInitially
<1>2. ClaimInv
  BY DEF Init, ClaimInv
<1>3. ASSUME NEW o \in Offsets PROVE ~ Passed(o)
  <2>1. Remembered = {} /\ position = 1 /\ committed = 1
    BY ContentNone DEF Init, PartitionInit, Remembered, Loops
  <2> QED
    BY <2>1 DEF Passed, Offsets
<1> QED
  BY <1>1, <1>2, <1>3 DEF SInv, PassedInv

LEMMA SInvStep ==
    ASSUME SettleAssumption, PartitionAssumption, SInv, [Next]_settleVars
    PROVE  SInv'
<1>1. SettleTypeOK' /\ StageInv'
  BY TypeStep, StageStep DEF SInv
<1>2. CountInv'
  BY <1>1, CountStep DEF SInv
<1>3. ClaimInv' /\ PassedInv'
  BY ClaimStep, PassedStep DEF SInv
<1> QED
  BY <1>1, <1>2, <1>3 DEF SInv

LEMMA SInvInvariant == Spec => []SInv
<1>1. Init => SInv
  BY SettleAssumption, PartitionAssumption, SInvInitially
<1>2. SInv /\ [Next]_settleVars => SInv'
  BY SettleAssumption, PartitionAssumption, SInvStep
<1> QED
  BY <1>1, <1>2, PTL DEF Spec

\* The variables of the consumer keep their types, for any partition and
\* any batch size.
THEOREM SettleTypes == Spec => []SettleTypeOK
<1>1. SInv => SettleTypeOK
  BY DEF SInv
<1> QED
  BY <1>1, SInvInvariant, PTL

\* AcquireInTx in front of the batcher: an event with an id is inserted and
\* watched once, and once more for every claim that failed.
THEOREM EventsProcessedOnce == Spec => []ProcessedOnce
<1>1. SInv => ProcessedOnce
  <2> SUFFICES ASSUME SInv, NEW e \in Identified
               PROVE  rows[e] <= 1 + unclaimed[e] /\ watched[e] <= 1 + unclaimed[e]
    BY DEF ProcessedOnce
  <2>1. e \in Events
    BY SettleAssumption DEF SettleAssumption
  <2>2. watched[e] + At("watch", e) <= Claimed(e) + unclaimed[e] /\ rows[e] + Waiting(e) <= watched[e]
    BY <2>1 DEF SInv, CountInv
  <2>3. /\ rows[e] \in Nat /\ watched[e] \in Nat /\ unclaimed[e] \in Nat
        /\ Waiting(e) \in Nat /\ At("watch", e) \in 0..1
    BY <2>1, CountType DEF SInv, Waiting
  <2>4. Claimed(e) \in 0..1
    BY DEF Claimed
  <2> QED
    BY <2>2, <2>3, <2>4
<1> QED
  BY <1>1, SInvInvariant, PTL

\* The committed offset passes a message only when its row is stored or on
\* its way, or when the consumer itself skipped or dropped it.
THEOREM OnlyDroppedIsLost == Spec => []LossIsDropped
<1>1. SInv => LossIsDropped
  <2> SUFFICES ASSUME SInv, NEW o \in Offsets, o < committed
               PROVE  \/ o \in skipped \/ EventAt[o] \in dropped
                      \/ rows[EventAt[o]] > 0
                      \/ \E p \in Offsets : EventAt[p] = EventAt[o] /\ Held(p)
    BY DEF LossIsDropped
  <2>1. Safe(o)
    BY DEF SInv, PassedInv, Passed
  <2>2. EventAt[o] \in Events
    BY SettleAssumption DEF SettleAssumption
  <2>3. CASE Kept(EventAt[o])
    BY <2>2, <2>3, SettleAssumption, KeptIsHeld DEF SInv
  <2>4. CASE current = o /\ stage["run"] = "claim"
    BY <2>4 DEF Held
  <2> QED
    BY <2>1, <2>3, <2>4 DEF Safe, Settled
<1> QED
  BY <1>1, SInvInvariant, PTL

\* processed_events never holds an event that the consumer has forgotten,
\* but those whose row it dropped after the claim.
THEOREM ClaimsAreKept == Spec => []ClaimedIsKept
<1>1. SInv => ClaimedIsKept
  <2> SUFFICES ASSUME SInv, NEW e \in claims
               PROVE  e \in dropped \/ rows[e] > 0 \/ \E p \in Offsets : EventAt[p] = e /\ Held(p)
    BY DEF ClaimedIsKept
  <2>1. e \in Events
    BY SettleAssumption DEF SInv, SettleTypeOK, SettleAssumption
  <2>2. Settled(e)
    BY DEF SInv, ClaimInv
  <2> QED
    BY <2>1, <2>2, SettleAssumption, KeptIsHeld DEF SInv, Settled
<1> QED
  BY <1>1, SInvInvariant, PTL

\* Passed messages and claimed events are stored, in hand or known losses.
THEOREM KnownLosses == Spec => []LossesAreKnown
<1>1. LossIsDropped /\ ClaimedIsKept => LossesAreKnown
  BY DEF LossesAreKnown
<1> QED
  BY <1>1, OnlyDroppedIsLost, ClaimsAreKept, PTL

=============================================================================
