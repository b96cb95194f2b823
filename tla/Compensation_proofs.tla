------------------------- MODULE Compensation_proofs -------------------------
(***************************************************************************)
(* What holds of a round of bets, for every set of requests, processes and *)
(* rounds and every bound on faults.                                       *)
(*                                                                         *)
(* First BetFlow by itself, whose requests no reconciler disturbs: the     *)
(* type invariant, and the properties that keep the money of a round right *)
(* without any help of the lock.                                           *)
(*                                                                         *)
(* Then what the reconcilers do to a round, for any number of loops, any   *)
(* limit of retries, and a wallet that recognises a repeated call or pays  *)
(* each one.  Two arguments carry it.  A worker knows of the row it works  *)
(* on that the money moved before it was booked, and was booked before the *)
(* row is closed.  And a round passes from hand to hand: while a request   *)
(* owns it no orphan loop has listed it; once it is answered its row asks  *)
(* for the win, so that nobody who lists it has a reason to refund it.     *)
(***************************************************************************)
EXTENDS Compensation, FiniteSetTheorems, TLAPS

USE BetRequestsAssumption, RedisLockAssumption, IdempotentStoreAssumption,
    SeamlessWalletAssumption, RoundStoreAssumption, BetFlowAssumption
    DEF BetRequestsAssumption, RedisLockAssumption, IdempotentStoreAssumption,
    SeamlessWalletAssumption, RoundStoreAssumption, BetFlowAssumption

-----------------------------------------------------------------------------
(* Types: each store keeps its own under the operations the steps use. *)

\* What a step leaves alone keeps its type.
LEMMA TypeFrame ==
    /\ LockTypeOK /\ UNCHANGED lockVars => LockTypeOK'
    /\ IdemTypeOK /\ UNCHANGED idemVars => IdemTypeOK'
    /\ SessionTypeOK /\ UNCHANGED sessionVars => SessionTypeOK'
    /\ WalletTypeOK /\ UNCHANGED walletVars => WalletTypeOK'
    /\ StoreTypeOK /\ UNCHANGED storeVars => StoreTypeOK'
BY DEF LockTypeOK, IdemTypeOK, SessionTypeOK, WalletTypeOK, StoreTypeOK,
       lockVars, idemVars, sessionVars, walletVars, storeVars

LEMMA LockOpsType ==
    ASSUME LockTypeOK, NEW h \in Handlers,
           Acquire(h) \/ AcquireBusy(h) \/ AcquireUnanswered(h) \/ TakeToken(h) \/ EvalUnlock(h)
    PROVE  LockTypeOK'
BY DEF LockTypeOK, Acquire, AcquireBusy, AcquireUnanswered, TakeToken, EvalUnlock, lockVars

\* The pipeline of SaveResult, all of it or its first half.
Saves(r, s) == SaveResult(r, s) \/ SaveResultHalf(r, s)

LEMMA IdemOpsType ==
    ASSUME IdemTypeOK, NEW r \in Rounds, NEW t \in Tokens, NEW s \in Answers,
           ClaimWithToken(r, t) \/ ClaimTaken(r, t) \/ ReleaseClaim(r) \/ Saves(r, s)
    PROVE  IdemTypeOK'
BY DEF IdemTypeOK, ClaimValues, ResultValues, Answers, idemVars,
       ClaimWithToken, ClaimTaken, ReleaseClaim, Saves, SaveResult, SaveResultHalf

LEMMA SessionOpsType ==
    ASSUME SessionTypeOK, NEW h \in Handlers,
           ReadSequence(h) \/ SequenceMismatch(h) \/ WriteSequence(h)
    PROVE  SessionTypeOK'
BY DEF SessionTypeOK, sessionVars, ReadSequence, SequenceMismatch, WriteSequence

LEMMA WalletOpsType ==
    ASSUME WalletTypeOK, NEW r \in Rounds, NEW o, WalletBet(r, o) \/ WalletWin(r, o)
    PROVE  WalletTypeOK'
BY DEF WalletTypeOK, TxStatuses, walletVars, WalletBet, WalletWin

LEMMA StoreOpsType ==
    ASSUME StoreTypeOK, NEW r \in Rounds,
           \/ PostLedger(r, "BET", "SUCCESS") \/ PostLedger(r, "WIN", "PENDING_RETRY")
           \/ InsertPendingTx(r) \/ InsertPendingOp(r) \/ MarkWinPending(r)
           \/ \E w \in BOOLEAN : RecordSettled(r, w)
    PROVE  StoreTypeOK'
<1> USE DEF StoreTypeOK, OpRows, TxRows, RowStatuses, Phases, LedgerKeys, EventKeys
<1>1. CASE PostLedger(r, "BET", "SUCCESS") BY <1>1 DEF PostLedger
<1>2. CASE PostLedger(r, "WIN", "PENDING_RETRY") BY <1>2 DEF PostLedger
<1>3. CASE InsertPendingTx(r) BY <1>3 DEF InsertPendingTx
<1>4. CASE InsertPendingOp(r) BY <1>4 DEF InsertPendingOp
<1>5. CASE MarkWinPending(r) BY <1>5 DEF MarkWinPending, UpdatedTx
<1>6. CASE \E w \in BOOLEAN : RecordSettled(r, w) BY <1>6 DEF RecordSettled, UpdatedTx
<1> QED BY <1>1, <1>2, <1>3, <1>4, <1>5, <1>6

-----------------------------------------------------------------------------
(* The inductive invariant *)

BeforePay == {"config", "bet", "unclaim", "postBet", "insertTx", "compute", "win"}
Postponed == {"pendOp", "markWin", "pendLedger"}

\* A request has composed its answer when it records and saves it.
Composed ==
    \A h \in Handlers :
        /\ pc[h] \in Postponed => resp[h] = "pending"
        /\ pc[h] = "record" => resp[h] = "settled"
        /\ pc[h] = "save" => resp[h] \in Answers

\* The owner of a round holds its claim.
OwnerClaims == \A h \in Handlers : pc[h] \in Owning => claim[RoundOf[h]] = "PENDING"

\* A round that is paid or answered.
Spent(r) ==
    \/ result[r] # "none"
    \/ wins[r] > 0
    \/ <<r, "settled">> \in events
    \/ \E h \in Handlers : RoundOf[h] = r /\ resp[h] \in Answers

\* Such a round can never be claimed again ...
SpentIsClaimed == \A r \in Rounds : Spent(r) => claim[r] # "none"

\* ... and a request that has yet to pay works on a round that is not spent.
OwnerUnspent == \A h \in Handlers : pc[h] \in BeforePay => ~Spent(RoundOf[h])

\* How far the money of the owner's round has moved.
OwnerMoney ==
    \A h \in Handlers :
        /\ pc[h] \in Paying => bets[RoundOf[h]] > 0
        /\ pc[h] = "record" /\ RoundOf[h] \in Winning => wins[RoundOf[h]] > 0

\* Whoever has an answer has the saved one, if an answer is saved.
AnswerIsResult ==
    \A h \in Handlers :
        resp[h] \in Answers /\ result[RoundOf[h]] # "none" => resp[h] = result[RoundOf[h]]

SettledResult ==
    \A r \in Rounds : <<r, "settled">> \in events => result[r] # "pending"

RoundInv ==
    /\ Composed /\ OwnerClaims /\ ClaimExclusive
    /\ SpentIsClaimed /\ OwnerUnspent /\ OwnerMoney
    /\ AnswersAgree /\ AnswerIsResult /\ EventBacked /\ SettledResult /\ PaidOnce

IInv == TypeOK /\ RoundInv

-----------------------------------------------------------------------------
(* Preservation *)

\* A step that moves one request to another call, and neither money nor the
\* keys of a round, nor an answer other than an error.
LEMMA QuietStep ==
    ASSUME IInv, NEW h \in Handlers, NEW s \in Steps,
           pc' = [pc EXCEPT ![h] = s],
           UNCHANGED resp \/ resp' = [resp EXCEPT ![h] = "error"],
           UNCHANGED <<claim, result, bets, wins, events>>, ledger \subseteq ledger',
           s \in Owning => pc[h] \in Owning,
           s \in BeforePay => pc[h] \in BeforePay,
           s \in Paying => pc[h] \in Paying,
           s \in Postponed \cup {"save"} => pc[h] \in Postponed \cup {"record"} /\ UNCHANGED resp,
           s \in Postponed => pc[h] \in Postponed,
           s # "record"
    PROVE  RoundInv'
<1> USE DEF IInv, TypeOK, BetTypeOK, IdemTypeOK, WalletTypeOK, RoundInv
<1>1. Composed' BY DEF Composed, Answers, Postponed
<1>2. OwnerClaims' BY DEF OwnerClaims
<1>3. ClaimExclusive' BY DEF ClaimExclusive
<1>4. \A r \in Rounds : Spent(r)' => Spent(r) BY DEF Spent, Answers
<1>5. SpentIsClaimed' BY <1>4 DEF SpentIsClaimed
<1>6. OwnerUnspent' BY <1>4 DEF OwnerUnspent
<1>7. OwnerMoney' BY DEF OwnerMoney
<1>8. AnswersAgree' BY DEF AnswersAgree, Answers
<1>9. AnswerIsResult' BY DEF AnswerIsResult, Answers
<1>10. EventBacked' BY DEF EventBacked
<1>11. SettledResult' /\ PaidOnce' BY DEF SettledResult, PaidOnce
<1> QED BY <1>1, <1>2, <1>3, <1>5, <1>6, <1>7, <1>8, <1>9, <1>10, <1>11

\* A request takes the saved answer of its round.
LEMMA CachedStep ==
    ASSUME IInv, NEW h \in Handlers, NEW s \in {"done", "release"},
           HasResult(RoundOf[h]), Respond(h, result[RoundOf[h]], s),
           UNCHANGED <<idemVars, walletVars, storeVars>>
    PROVE  RoundInv'
<1> USE DEF IInv, TypeOK, BetTypeOK, IdemTypeOK, WalletTypeOK, RoundInv, HasResult, Respond,
            idemVars, walletVars, storeVars
<1>0. result[RoundOf[h]] \in Answers BY DEF ResultValues, Answers
<1>1. Composed' BY DEF Composed, Answers, Postponed
<1>2. OwnerClaims' BY DEF OwnerClaims, Owning, Paying
<1>3. ClaimExclusive' BY DEF ClaimExclusive, Owning, Paying
<1>4. \A r \in Rounds : Spent(r)' => Spent(r) BY DEF Spent
<1>5. SpentIsClaimed' BY <1>4 DEF SpentIsClaimed
<1>6. OwnerUnspent' BY <1>4 DEF OwnerUnspent, BeforePay
<1>7. OwnerMoney' BY DEF OwnerMoney, Paying
<1>8. AnswersAgree' BY <1>0 DEF AnswersAgree, AnswerIsResult
<1>9. AnswerIsResult' BY DEF AnswerIsResult
<1>10. EventBacked' BY DEF EventBacked, SettledResult
<1>11. SettledResult' /\ PaidOnce' BY DEF SettledResult, PaidOnce
<1> QED BY <1>1, <1>2, <1>3, <1>5, <1>6, <1>7, <1>8, <1>9, <1>10, <1>11

\* A request claims its round; or it does and never learns.
LEMMA ClaimStep ==
    ASSUME IInv, NEW h \in Handlers,
           NEW t, ClaimWithToken(RoundOf[h], t),
           Goto(h, "config") \/ Respond(h, "error", "release"),
           UNCHANGED <<walletVars, storeVars>>
    PROVE  RoundInv'
<1> DEFINE r == RoundOf[h]
<1> USE DEF IInv, TypeOK, BetTypeOK, IdemTypeOK, WalletTypeOK, RoundInv,
            ClaimWithToken, Goto, Respond, walletVars, storeVars
<1>1. Composed' BY DEF Composed, Answers, Postponed
<1>2. OwnerClaims' BY DEF OwnerClaims, Owning, Paying
<1>3. ClaimExclusive' BY DEF ClaimExclusive, OwnerClaims, Owning, Paying
<1>4. \A q \in Rounds : Spent(q)' => Spent(q) BY DEF Spent, Answers
<1>5. SpentIsClaimed' BY <1>4 DEF SpentIsClaimed
<1>6. OwnerUnspent' BY <1>4 DEF OwnerUnspent, SpentIsClaimed, BeforePay
<1>7. OwnerMoney' BY DEF OwnerMoney, Paying
<1>8. AnswersAgree' BY DEF AnswersAgree, Answers
<1>9. AnswerIsResult' BY DEF AnswerIsResult, Answers
<1>10. EventBacked' BY DEF EventBacked
<1>11. SettledResult' BY DEF SettledResult
<1>12. PaidOnce' BY DEF PaidOnce
<1> QED BY <1>1, <1>2, <1>3, <1>5, <1>6, <1>7,
          <1>8, <1>9, <1>10, <1>11, <1>12

\* A request debits the bet.
LEMMA DebitStep ==
    ASSUME IInv, NEW h \in Handlers,
           NEW o \in WalletOutcomes, pc[h] = "bet", WalletBet(RoundOf[h], o),
           Goto(h, IF o = "ok" THEN "postBet" ELSE "unclaim"),
           UNCHANGED <<idemVars, storeVars>>
    PROVE  RoundInv'
<1> DEFINE r == RoundOf[h]
<1> USE DEF IInv, TypeOK, BetTypeOK, IdemTypeOK, WalletTypeOK, RoundInv,
            WalletBet, Moves, Goto, idemVars, walletVars, storeVars
<1>1. Composed' BY DEF Composed, Answers, Postponed
<1>2. OwnerClaims' BY DEF OwnerClaims, Owning, Paying
<1>3. ClaimExclusive' BY DEF ClaimExclusive, Owning, Paying
<1>4. \A q \in Rounds : Spent(q)' => Spent(q) BY DEF Spent
<1>5. SpentIsClaimed' BY <1>4 DEF SpentIsClaimed
<1>6. OwnerUnspent' BY <1>4 DEF OwnerUnspent, BeforePay
<1>7. OwnerMoney' BY DEF OwnerMoney, Paying
<1>8. AnswersAgree' BY DEF AnswersAgree, Answers
<1>9. AnswerIsResult' BY DEF AnswerIsResult, Answers
<1>10. EventBacked' BY DEF EventBacked
<1>11. SettledResult' BY DEF SettledResult
<1>12. PaidOnce' BY DEF PaidOnce
<1> QED BY <1>1, <1>2, <1>3, <1>5, <1>6, <1>7,
          <1>8, <1>9, <1>10, <1>11, <1>12

\* A request gives its claim back.
LEMMA UnclaimStep ==
    ASSUME IInv, NEW h \in Handlers,
           pc[h] = "unclaim", ReleaseClaim(RoundOf[h]), Respond(h, "error", "release"),
           UNCHANGED <<walletVars, storeVars>>
    PROVE  RoundInv'
<1> DEFINE r == RoundOf[h]
<1> USE DEF IInv, TypeOK, BetTypeOK, IdemTypeOK, WalletTypeOK, RoundInv,
            ReleaseClaim, Respond, walletVars, storeVars
<1>1. Composed' BY DEF Composed, Answers, Postponed
<1>2. OwnerClaims' BY DEF OwnerClaims, ClaimExclusive, Owning, Paying
<1>3. ClaimExclusive' BY DEF ClaimExclusive, Owning, Paying
<1>4. \A q \in Rounds : Spent(q)' => Spent(q) BY DEF Spent, Answers
<1>5. SpentIsClaimed' BY <1>4 DEF SpentIsClaimed, OwnerUnspent, BeforePay
<1>6. OwnerUnspent' BY <1>4 DEF OwnerUnspent, BeforePay
<1>7. OwnerMoney' BY DEF OwnerMoney, Paying
<1>8. AnswersAgree' BY DEF AnswersAgree, Answers
<1>9. AnswerIsResult' BY DEF AnswerIsResult, Answers
<1>10. EventBacked' BY DEF EventBacked
<1>11. SettledResult' BY DEF SettledResult
<1>12. PaidOnce' BY DEF PaidOnce
<1> QED BY <1>1, <1>2, <1>3, <1>5, <1>6, <1>7,
          <1>8, <1>9, <1>10, <1>11, <1>12

\* A losing round is settled without a payment.
LEMMA LossStep ==
    ASSUME IInv, NEW h \in Handlers,
           pc[h] = "compute", RoundOf[h] \notin Winning, Respond(h, "settled", "record"),
           UNCHANGED <<idemVars, walletVars, storeVars>>
    PROVE  RoundInv'
<1> DEFINE r == RoundOf[h]
<1> USE DEF IInv, TypeOK, BetTypeOK, IdemTypeOK, WalletTypeOK, RoundInv,
            Respond, idemVars, walletVars, storeVars
<1>1. Composed' BY DEF Composed, Answers, Postponed
<1>2. OwnerClaims' BY DEF OwnerClaims, Owning, Paying
<1>3. ClaimExclusive' BY DEF ClaimExclusive, Owning, Paying
<1>4. \A q \in Rounds : Spent(q)' => Spent(q) \/ q = r BY DEF Spent
<1>5. SpentIsClaimed' BY <1>4 DEF SpentIsClaimed, OwnerClaims, Owning, Paying
<1>6. OwnerUnspent' BY <1>4 DEF OwnerUnspent, ClaimExclusive, BeforePay, Owning, Paying
<1>7. OwnerMoney' BY DEF OwnerMoney, Paying
<1>8. AnswersAgree' BY DEF AnswersAgree, OwnerUnspent, Spent, BeforePay
<1>9. AnswerIsResult' BY DEF AnswerIsResult, OwnerUnspent, Spent, BeforePay
<1>10. EventBacked' BY DEF EventBacked, OwnerUnspent, Spent, BeforePay
<1>11. SettledResult' BY DEF SettledResult
<1>12. PaidOnce' BY DEF PaidOnce
<1> QED BY <1>1, <1>2, <1>3, <1>5, <1>6, <1>7,
          <1>8, <1>9, <1>10, <1>11, <1>12

\* A request has the win paid, or cannot tell whether it is.
LEMMA CreditStep ==
    ASSUME IInv, NEW h \in Handlers,
           NEW o \in WalletOutcomes, pc[h] = "win", WalletWin(RoundOf[h], o),
           IF o = "ok" THEN Respond(h, "settled", "record") ELSE Respond(h, "pending", "pendOp"),
           UNCHANGED <<idemVars, storeVars>>
    PROVE  RoundInv'
<1> DEFINE r == RoundOf[h]
<1> USE DEF IInv, TypeOK, BetTypeOK, IdemTypeOK, WalletTypeOK, RoundInv,
            WalletWin, Moves, Respond, idemVars, walletVars, storeVars
<1>a. ~Spent(r) BY DEF OwnerUnspent, BeforePay
<1>b. wins[r] = 0 /\ result[r] = "none" /\ \A g \in Handlers : RoundOf[g] = r => resp[g] \notin Answers
  BY <1>a DEF Spent
<1>c. \A g \in Handlers \ {h} : resp'[g] = resp[g] OBVIOUS
<1>1. Composed' BY DEF Composed, Answers, Postponed
<1>2. OwnerClaims' BY DEF OwnerClaims, Owning, Paying
<1>3. ClaimExclusive' BY DEF ClaimExclusive, Owning, Paying
<1>4. \A q \in Rounds : Spent(q)' => Spent(q) \/ q = r BY DEF Spent
<1>5. SpentIsClaimed' BY <1>4 DEF SpentIsClaimed, OwnerClaims, Owning, Paying
<1>6. OwnerUnspent' BY <1>4 DEF OwnerUnspent, ClaimExclusive, BeforePay, Owning, Paying
<1>7. OwnerMoney' BY DEF OwnerMoney, Paying
<1>8. AnswersAgree' BY <1>b, <1>c DEF AnswersAgree
<1>9. AnswerIsResult' BY <1>b, <1>c DEF AnswerIsResult
<1>10. EventBacked' BY DEF EventBacked, OwnerUnspent, Spent, BeforePay
<1>11. SettledResult' BY DEF SettledResult
<1>12. PaidOnce' BY <1>b DEF PaidOnce
<1> QED BY <1>1, <1>2, <1>3, <1>5, <1>6, <1>7,
          <1>8, <1>9, <1>10, <1>11, <1>12

\* A settled round is recorded.
LEMMA RecordStep ==
    ASSUME IInv, NEW h \in Handlers,
           pc[h] = "record", RecordSettled(RoundOf[h], RoundOf[h] \in Winning), Goto(h, "save"),
           UNCHANGED <<idemVars, walletVars>>
    PROVE  RoundInv'
<1> DEFINE r == RoundOf[h]
<1> USE DEF IInv, TypeOK, BetTypeOK, IdemTypeOK, WalletTypeOK, RoundInv,
            RecordSettled, Goto, idemVars, walletVars
<1>1. Composed' BY DEF Composed, Answers, Postponed
<1>2. OwnerClaims' BY DEF OwnerClaims, Owning, Paying
<1>3. ClaimExclusive' BY DEF ClaimExclusive, Owning, Paying
<1>4. \A q \in Rounds : Spent(q)' => Spent(q) \/ q = r BY DEF Spent
<1>5. SpentIsClaimed' BY <1>4 DEF SpentIsClaimed, OwnerClaims, Owning, Paying
<1>6. OwnerUnspent' BY <1>4 DEF OwnerUnspent, ClaimExclusive, BeforePay, Owning, Paying
<1>7. OwnerMoney' BY DEF OwnerMoney, Paying
<1>8. AnswersAgree' BY DEF AnswersAgree, Answers
<1>9. AnswerIsResult' BY DEF AnswerIsResult, Answers
<1>10. EventBacked' BY DEF EventBacked, Composed, AnswersAgree, OwnerMoney, Answers, Paying
<1>11. SettledResult' BY DEF SettledResult, Composed, AnswerIsResult, Answers
<1>12. PaidOnce' BY DEF PaidOnce
<1> QED BY <1>1, <1>2, <1>3, <1>5, <1>6, <1>7,
          <1>8, <1>9, <1>10, <1>11, <1>12

\* The answer is saved.
LEMMA SaveStep ==
    ASSUME IInv, NEW h \in Handlers,
           pc[h] = "save", Saves(RoundOf[h], resp[h]), Goto(h, "release"),
           UNCHANGED <<walletVars, storeVars>>
    PROVE  RoundInv'
<1> DEFINE r == RoundOf[h]
<1> USE DEF IInv, TypeOK, BetTypeOK, IdemTypeOK, WalletTypeOK, RoundInv,
            Saves, SaveResult, SaveResultHalf, Goto, walletVars, storeVars
<1>1. Composed' BY DEF Composed, Answers, Postponed
<1>2. OwnerClaims' BY DEF OwnerClaims, ClaimExclusive, Owning, Paying
<1>3. ClaimExclusive' BY DEF ClaimExclusive, Owning, Paying
<1>4. \A q \in Rounds : Spent(q)' => Spent(q) \/ q = r BY DEF Spent
<1>5. SpentIsClaimed' BY <1>4 DEF SpentIsClaimed, OwnerClaims, Owning, Paying
<1>6. OwnerUnspent' BY <1>4 DEF OwnerUnspent, ClaimExclusive, BeforePay, Owning, Paying
<1>7. OwnerMoney' BY DEF OwnerMoney, Paying
<1>8. AnswersAgree' BY DEF AnswersAgree, Answers
<1>9. AnswerIsResult' BY DEF AnswerIsResult, Composed, AnswersAgree
<1>10. EventBacked' BY DEF EventBacked
<1>11. SettledResult' BY DEF SettledResult, Composed, EventBacked
<1>12. PaidOnce' BY DEF PaidOnce
<1> QED BY <1>1, <1>2, <1>3, <1>5, <1>6, <1>7,
          <1>8, <1>9, <1>10, <1>11, <1>12

-----------------------------------------------------------------------------
(* Every step of a request *)

LEMMA ControlType ==
    ASSUME BetTypeOK, NEW h \in Handlers, NEW s \in Steps, NEW a \in Answers \cup {"none", "error"},
           Goto(h, s) \/ Respond(h, a, s), UNCHANGED faults \/ Fault,
           UNCHANGED <<crashes, overruns>>
    PROVE  BetTypeOK'
BY DEF BetTypeOK, Goto, Respond, Fault

LEMMA StepType == ASSUME TypeOK, Composed, NEW h \in Handlers, Step(h) PROVE TypeOK'
<1> DEFINE r == RoundOf[h]
<1> USE DEF TypeOK, Steps, BeforeLock, InLock, Owning, Paying, Ended
<1> USE TypeFrame, ControlType
<1>0. result[r] # "none" => result[r] \in Answers BY DEF IdemTypeOK, ResultValues, Answers
<1>1. CASE CheckCache(h) BY <1>0, <1>1 DEF CheckCache, HasResult
<1>2. CASE AcquireLock(h) BY <1>2, LockOpsType DEF AcquireLock, Fails
<1>3. CASE DoubleCheck(h) BY <1>0, <1>3 DEF DoubleCheck, HasResult
<1>4. CASE ConsumeSequenceGet(h) BY <1>4, SessionOpsType DEF ConsumeSequenceGet
<1>5. CASE ConsumeSequenceSet(h) BY <1>5, SessionOpsType DEF ConsumeSequenceSet, Fails
<1>6. CASE ClaimRound(h)
  <2>1. IdemTypeOK' BY <1>6, IdemOpsType DEF ClaimRound, Fails, Answers
  <2> QED BY <1>6, <2>1 DEF ClaimRound, Fails
<1>7. CASE AwaitResult(h) BY <1>0, <1>7 DEF AwaitResult, HasResult
<1>8. CASE LoadConfig(h) BY <1>8 DEF LoadConfig
<1>9. CASE DebitBet(h) BY <1>9, WalletOpsType DEF DebitBet
<1>10. CASE Unclaim(h)
  <2>1. IdemTypeOK' BY <1>10, IdemOpsType DEF Unclaim, Fails, Answers
  <2> QED BY <1>10, <2>1 DEF Unclaim, Fails
<1>11. CASE PostBet(h) BY <1>11, StoreOpsType DEF PostBet, Book, Fails
<1>12. CASE InsertTx(h) BY <1>12, StoreOpsType DEF InsertTx, Book, Fails
<1>13. CASE Compute(h) BY <1>13 DEF Compute, Answers
<1>14. CASE CreditWin(h) BY <1>14, WalletOpsType DEF CreditWin, Answers
<1>15. CASE RecordPendingOp(h) BY <1>15, StoreOpsType DEF RecordPendingOp, Book, Fails
<1>16. CASE MarkPending(h) BY <1>16, StoreOpsType DEF MarkPending, Book, Fails
<1>17. CASE PostPendingWin(h) BY <1>17, StoreOpsType DEF PostPendingWin, Book, Fails
<1>18. CASE Record(h)
  <2>1. (RoundOf[h] \in Winning) \in BOOLEAN OBVIOUS
  <2>2. RecordSettled(RoundOf[h], RoundOf[h] \in Winning) \/ UNCHANGED storeVars
    BY <1>18 DEF Record, Book, Fails
  <2>3. StoreTypeOK' BY <2>1, <2>2, StoreOpsType
  <2> QED BY <1>18, <2>3 DEF Record, Book, Fails
<1>19. CASE Save(h)
  <2>1. resp[h] \in Answers BY <1>19 DEF Save, Composed
  <2>2. IdemTypeOK' BY <1>19, <2>1, IdemOpsType DEF Save, Fails, Saves
  <2> QED BY <1>19, <2>2 DEF Save, Fails
<1>20. CASE ReleaseToken(h) BY <1>20, LockOpsType DEF ReleaseToken
<1>21. CASE ReleaseLock(h) BY <1>21, LockOpsType DEF ReleaseLock, Fails
<1> QED
  BY <1>1, <1>2, <1>3, <1>4, <1>5, <1>6, <1>7, <1>8, <1>9, <1>10, <1>11, <1>12,
     <1>13, <1>14, <1>15, <1>16, <1>17, <1>18, <1>19, <1>20, <1>21 DEF Step

LEMMA StepRound == ASSUME IInv, NEW h \in Handlers, Step(h) PROVE RoundInv'
<1> DEFINE Quiet(s) ==
      /\ pc' = [pc EXCEPT ![h] = s]
      /\ UNCHANGED resp \/ resp' = [resp EXCEPT ![h] = "error"]
      /\ UNCHANGED <<claim, result, bets, wins, events>>
      /\ ledger \subseteq ledger'
<1> USE DEF Goto, Respond, idemVars, walletVars, storeVars
<1>q. ASSUME NEW s \in {"done", "acquire", "locked", "readSeq", "writeSeq", "claim", "wait",
                        "release", "unlock"}, Quiet(s)
      PROVE  RoundInv'
  BY <1>q, QuietStep DEF Steps, BeforeLock, InLock, Owning, Paying, Ended, BeforePay, Postponed
<1>o. ASSUME \/ Quiet("bet") /\ pc[h] = "config"
             \/ Quiet("unclaim") /\ pc[h] = "config"
             \/ Quiet("insertTx") /\ pc[h] = "postBet"
             \/ Quiet("compute") /\ pc[h] = "insertTx"
             \/ Quiet("win") /\ pc[h] = "compute"
      PROVE  RoundInv'
  BY <1>o, QuietStep DEF Steps, InLock, Owning, Paying, BeforePay, Postponed
<1>p. ASSUME \/ Quiet("markWin") /\ pc[h] = "pendOp"
             \/ Quiet("pendLedger") /\ pc[h] = "markWin"
             \/ Quiet("save") /\ pc[h] \in {"pendLedger", "record"},
             UNCHANGED resp
      PROVE  RoundInv'
  BY <1>p, QuietStep DEF Steps, InLock, Owning, Paying, BeforePay, Postponed
<1>1. CASE CheckCache(h) BY <1>1, <1>q, CachedStep DEF CheckCache
<1>2. CASE AcquireLock(h) BY <1>2, <1>q DEF AcquireLock
<1>3. CASE DoubleCheck(h) BY <1>3, <1>q, CachedStep DEF DoubleCheck
<1>4. CASE ConsumeSequenceGet(h) BY <1>4, <1>q DEF ConsumeSequenceGet
<1>5. CASE ConsumeSequenceSet(h) BY <1>5, <1>q DEF ConsumeSequenceSet
<1>6. CASE ClaimRound(h) BY <1>6, <1>q, ClaimStep DEF ClaimRound, Fails, ClaimTaken
<1>7. CASE AwaitResult(h) BY <1>7, <1>q, CachedStep DEF AwaitResult
<1>8. CASE LoadConfig(h)
  <2>1. (Quiet("bet") \/ Quiet("unclaim")) /\ pc[h] = "config" BY <1>8 DEF LoadConfig
  <2> QED BY <2>1, <1>o
<1>9. CASE DebitBet(h) BY <1>9, DebitStep DEF DebitBet
<1>10. CASE Unclaim(h) BY <1>10, <1>q, UnclaimStep DEF Unclaim, Fails
<1>11. CASE PostBet(h)
  <2>1. Quiet("insertTx") /\ UNCHANGED resp /\ pc[h] = "postBet"
    BY <1>11 DEF PostBet, Book, Fails, PostLedger
  <2> QED BY <2>1, <1>o
<1>12. CASE InsertTx(h)
  <2>1. Quiet("compute") /\ UNCHANGED resp /\ pc[h] = "insertTx"
    BY <1>12 DEF InsertTx, Book, Fails, InsertPendingTx
  <2> QED BY <2>1, <1>o
<1>13. CASE Compute(h) BY <1>13, <1>q, <1>o, LossStep DEF Compute
<1>14. CASE CreditWin(h) BY <1>14, CreditStep DEF CreditWin
<1>15. CASE RecordPendingOp(h)
  <2>1. Quiet("markWin") /\ UNCHANGED resp /\ pc[h] = "pendOp"
    BY <1>15 DEF RecordPendingOp, Book, Fails, InsertPendingOp
  <2> QED BY <2>1, <1>p
<1>16. CASE MarkPending(h)
  <2>1. Quiet("pendLedger") /\ UNCHANGED resp /\ pc[h] = "markWin"
    BY <1>16 DEF MarkPending, Book, Fails, MarkWinPending
  <2> QED BY <2>1, <1>p
<1>17. CASE PostPendingWin(h)
  <2>1. Quiet("save") /\ UNCHANGED resp /\ pc[h] = "pendLedger"
    BY <1>17 DEF PostPendingWin, Book, Fails, PostLedger
  <2> QED BY <2>1, <1>p
<1>18. CASE Record(h) BY <1>18, <1>p, RecordStep DEF Record, Book, Fails
<1>19. CASE Save(h) BY <1>19, <1>q, SaveStep DEF Save, Fails, Saves
<1>20. CASE ReleaseToken(h) BY <1>20, <1>q DEF ReleaseToken
<1>21. CASE ReleaseLock(h) BY <1>21, <1>q DEF ReleaseLock
<1> QED
  BY <1>1, <1>2, <1>3, <1>4, <1>5, <1>6, <1>7, <1>8, <1>9, <1>10, <1>11, <1>12,
     <1>13, <1>14, <1>15, <1>16, <1>17, <1>18, <1>19, <1>20, <1>21 DEF Step

-----------------------------------------------------------------------------
(* The environment, and the theorems *)

LEMMA EnvironmentType ==
    ASSUME TypeOK, ExpireLock \/ \E p \in Pods : Crash(p)
    PROVE  TypeOK'
<1> USE DEF TypeOK, BetTypeOK
<1>1. CASE ExpireLock
  BY <1>1, TypeFrame DEF ExpireLock, Expire, LockTypeOK
<1>2. ASSUME NEW p \in Pods, Crash(p) PROVE TypeOK'
  BY <1>2, TypeFrame DEF Crash, LosePod, LockTypeOK, Steps, Ended
<1> QED BY <1>1, <1>2

LEMMA EnvironmentKeeps ==
    ASSUME IInv, ExpireLock \/ \E p \in Pods : Crash(p)
    PROVE  IInv'
<1> USE DEF IInv, TypeOK, BetTypeOK, IdemTypeOK, WalletTypeOK, RoundInv,
            idemVars, walletVars, storeVars
<1>1. TypeOK' BY EnvironmentType DEF IInv
<1>2. /\ UNCHANGED <<resp, claim, result, bets, wins, events, ledger>>
      /\ \A h \in Handlers : pc'[h] \in {pc[h], "crashed"}
  BY DEF ExpireLock, Crash
<1>3. \A r \in Rounds : Spent(r)' => Spent(r) BY <1>2 DEF Spent
<1>4. Composed' BY <1>2 DEF Composed, Postponed
<1>5. OwnerClaims' /\ ClaimExclusive'
  BY <1>2 DEF OwnerClaims, ClaimExclusive, Owning, Paying
<1>6. SpentIsClaimed' BY <1>2, <1>3 DEF SpentIsClaimed
<1>7. OwnerUnspent' BY <1>2, <1>3 DEF OwnerUnspent, BeforePay
<1>8. OwnerMoney' BY <1>2 DEF OwnerMoney, Paying
<1>9. AnswersAgree' /\ AnswerIsResult' BY <1>2 DEF AnswersAgree, AnswerIsResult
<1>10. EventBacked' /\ SettledResult' /\ PaidOnce'
  BY <1>2 DEF EventBacked, SettledResult, PaidOnce
<1> QED BY <1>1, <1>4, <1>5, <1>6, <1>7, <1>8, <1>9, <1>10

LEMMA InitInv == Init => IInv
<1> SUFFICES ASSUME Init PROVE IInv OBVIOUS
<1> USE DEF Init, LockInit, IdemInit, SessionInit, WalletInit, StoreInit
<1>1. LockTypeOK /\ IdemTypeOK /\ SessionTypeOK /\ WalletTypeOK
  BY DEF LockTypeOK, IdemTypeOK, ClaimValues, ResultValues, SessionTypeOK, WalletTypeOK, TxStatuses
<1>2. StoreTypeOK
  BY DEF StoreTypeOK, OpRows, TxRows, RowStatuses, Phases, LedgerKeys, EventKeys
<1>3. BetTypeOK BY DEF BetTypeOK, Steps, BeforeLock
<1>4. RoundInv
  BY DEF RoundInv, Composed, Postponed, OwnerClaims, ClaimExclusive, Owning, Paying, Spent,
         SpentIsClaimed, OwnerUnspent, BeforePay, OwnerMoney, AnswersAgree, AnswerIsResult,
         EventBacked, SettledResult, PaidOnce, Answers
<1> QED BY <1>1, <1>2, <1>3, <1>4 DEF IInv, TypeOK

LEMMA NextInv == IInv /\ [Next]_vars => IInv'
<1> SUFFICES ASSUME IInv, [Next]_vars PROVE IInv' OBVIOUS
<1>1. ASSUME NEW h \in Handlers, Step(h) PROVE IInv'
  BY <1>1, StepType, StepRound DEF IInv, RoundInv
<1>2. CASE UNCHANGED vars
  <2>1. TypeOK'
    BY <1>2, TypeFrame DEF vars, betVars, IInv, TypeOK, BetTypeOK
  <2>2. RoundInv'
    BY <1>2 DEF vars, betVars, idemVars, walletVars, storeVars, IInv, RoundInv, Composed,
       OwnerClaims, ClaimExclusive, Spent, SpentIsClaimed, OwnerUnspent, OwnerMoney,
       AnswersAgree, AnswerIsResult, EventBacked, SettledResult, PaidOnce
  <2> QED BY <2>1, <2>2 DEF IInv
<1> QED BY <1>1, <1>2, EnvironmentKeeps DEF Next

\* The inductive invariant holds in every reachable state.
THEOREM Inductive == Spec => []IInv
BY InitInv, NextInv, PTL DEF Spec

\* Every variable keeps its type: in particular a request saves an answer
\* only after it has composed one (SaveResult at the end of Bet).
THEOREM TypeCorrect == Spec => []TypeOK
<1>1. IInv => TypeOK BY DEF IInv
<1> QED BY <1>1, Inductive, PTL

\* At most one request works on a round between ClaimWithToken and
\* SaveResult, for any number of requests and processes, whatever expires,
\* fails or crashes.
THEOREM ClaimIsExclusive == Spec => []ClaimExclusive
<1>1. IInv => ClaimExclusive BY DEF IInv, RoundInv
<1> QED BY <1>1, Inductive, PTL

\* The RGS has a round paid at most once, without relying on the wallet to
\* recognise a repeated call (the wallet.Win call of Bet).
THEOREM RoundPaidOnce == Spec => []PaidOnce
<1>1. IInv => PaidOnce BY DEF IInv, RoundInv
<1> QED BY <1>1, Inductive, PTL

\* All requests of a round that get an answer get the same one (GetResult,
\* WaitAndGetResult and the composed BetResp).
THEOREM SameAnswer == Spec => []AnswersAgree
<1>1. IInv => AnswersAgree BY DEF IInv, RoundInv
<1> QED BY <1>1, Inductive, PTL

\* A settled event in the outbox is backed by the money and the ledger
\* (recordSettled).
THEOREM EventsAreBacked == Spec => []EventBacked
<1>1. IInv => EventBacked BY DEF IInv, RoundInv
<1> QED BY <1>1, Inductive, PTL

\* A saved answer is never replaced by another (SaveResult).
THEOREM SavedAnswerStays == Spec => ResultStable
<1> DEFINE Stays == \A r \in Rounds : result[r] # "none" => result'[r] = result[r]
<1>1. ASSUME IInv, Next PROVE Stays
  <2>1. ASSUME NEW h \in Handlers, Save(h) PROVE Stays
    BY <1>1, <2>1 DEF Save, SaveResult, SaveResultHalf, Fails, idemVars, IInv, TypeOK, IdemTypeOK,
       RoundInv, Composed, AnswerIsResult
  <2>2. ASSUME NEW h \in Handlers, Step(h), ~Save(h) PROVE UNCHANGED result
    BY <2>2 DEF Step, CheckCache, AcquireLock, DoubleCheck, ConsumeSequenceGet,
       ConsumeSequenceSet, ClaimRound, ClaimWithToken, ClaimTaken, AwaitResult, LoadConfig,
       DebitBet, Unclaim, ReleaseClaim, PostBet, InsertTx, Compute, CreditWin,
       RecordPendingOp, MarkPending, PostPendingWin, Record, ReleaseToken, ReleaseLock,
       Fails, idemVars
  <2>3. ExpireLock \/ (\E p \in Pods : Crash(p)) => UNCHANGED result
    BY DEF ExpireLock, Crash, idemVars
  <2> QED BY <1>1, <2>1, <2>2, <2>3 DEF Next
<1>2. IInv /\ [Next]_vars => [Stays]_vars BY <1>1
<1> QED BY <1>2, Inductive, PTL DEF Spec, ResultStable

\* A round has one result, for any number of requests, processes and rounds.
THEOREM OneResult == Spec => []OneResultPerRound
<1>1. ClaimExclusive /\ PaidOnce /\ AnswersAgree /\ EventBacked => OneResultPerRound
  BY DEF OneResultPerRound
<1> QED BY <1>1, ClaimIsExclusive, RoundPaidOnce, SameAnswer, EventsAreBacked, PTL

-----------------------------------------------------------------------------
(* The lock: as long as it does not run out under its holder, the requests of *)
(* the player follow one another, and so do the reads and writes of the       *)
(* sequence.                                                                  *)

HolderInLock == \A h \in Handlers : pc[h] \in InLock => lock = h

\* The counter is past every consumed sequenceId, and a request that is about
\* to write it back has read it as it is.
SequenceInv ==
    /\ \A h \in accepted : SeqOf[h] < nextSeq
    /\ \A h \in Handlers : pc[h] = "writeSeq" => seqRead[h] = nextSeq /\ SeqOf[h] = nextSeq

TurnInv == overruns = 0 => HolderInLock /\ SequenceInv /\ SequenceConsumedOnce

\* A request stays in the lock or leaves it.
LEMMA StayOrLeave ==
    ASSUME TypeOK, TurnInv, NEW h \in Handlers, NEW s \in Steps,
           pc' = [pc EXCEPT ![h] = s], s \in InLock => pc[h] \in InLock, s # "writeSeq",
           UNCHANGED <<lock, nextSeq, seqRead, accepted, overruns>>
    PROVE  TurnInv'
<1> USE DEF TypeOK, BetTypeOK
<1>1. HolderInLock => HolderInLock' BY DEF HolderInLock
<1>2. SequenceInv => SequenceInv' BY DEF SequenceInv
<1>3. SequenceConsumedOnce => SequenceConsumedOnce' BY DEF SequenceConsumedOnce
<1> QED BY <1>1, <1>2, <1>3 DEF TurnInv

LEMMA AcquireTurn ==
    ASSUME TypeOK, TurnInv, NEW h \in Handlers, AcquireLock(h)
    PROVE  TurnInv'
<1> USE DEF TypeOK, BetTypeOK
<1>0. UNCHANGED <<sessionVars, overruns>> BY DEF AcquireLock
<1>1. CASE lock = NoOne /\ lock' = h
  <2>1. HolderInLock => HolderInLock'
    BY <1>1 DEF HolderInLock, AcquireLock, Goto, Respond, InLock, Owning, Paying
  <2>2. SequenceInv => SequenceInv'
    BY <1>0 DEF SequenceInv, AcquireLock, Goto, Respond, sessionVars
  <2>3. SequenceConsumedOnce => SequenceConsumedOnce'
    BY <1>0 DEF SequenceConsumedOnce, sessionVars
  <2> QED BY <1>0, <2>1, <2>2, <2>3 DEF TurnInv
<1>2. CASE UNCHANGED lock /\ Respond(h, "error", "done")
  BY <1>0, <1>2, StayOrLeave DEF Respond, sessionVars, Steps, Ended, InLock, Owning, Paying
<1> QED
  BY <1>1, <1>2 DEF AcquireLock, Fails, Acquire, AcquireBusy, AcquireUnanswered, lockVars

\* Under the lock the GET and the SET of the sequence are one step.
LEMMA SequenceTurn ==
    ASSUME TypeOK, TurnInv, NEW h \in Handlers, ConsumeSequenceGet(h) \/ ConsumeSequenceSet(h)
    PROVE  TurnInv'
<1> USE DEF TypeOK, BetTypeOK, SessionTypeOK
<1>0. UNCHANGED <<lock, overruns>> /\ pc[h] \in InLock
  BY DEF ConsumeSequenceGet, ConsumeSequenceSet, lockVars, InLock
<1>1. {"claim", "release", "writeSeq"} \subseteq InLock /\ InLock \subseteq Steps
  BY DEF InLock, Steps
<1>2. CASE ReadSequence(h) /\ Goto(h, "writeSeq")
  <2>1. HolderInLock => HolderInLock'
    BY <1>0, <1>1, <1>2 DEF HolderInLock, Goto
  <2>2. SequenceInv => SequenceInv'
    BY <1>2 DEF SequenceInv, ReadSequence, Goto
  <2>3. SequenceConsumedOnce => SequenceConsumedOnce'
    BY <1>0, <1>2 DEF SequenceConsumedOnce, ReadSequence
  <2> QED BY <1>0, <2>1, <2>2, <2>3 DEF TurnInv
<1>3. CASE /\ pc[h] = "writeSeq" /\ WriteSequence(h)
           /\ Goto(h, "claim") \/ Respond(h, "error", "release")
  <2>0. PICK s \in {"claim", "release"} : pc' = [pc EXCEPT ![h] = s]
    BY <1>3 DEF Goto, Respond
  <2>1. HolderInLock => HolderInLock'
    BY <1>0, <1>1, <2>0 DEF HolderInLock
  <2>2. HolderInLock /\ SequenceInv => SequenceInv'
    <3> SUFFICES ASSUME HolderInLock, SequenceInv PROVE SequenceInv'
      OBVIOUS
    <3>1. nextSeq' = nextSeq + 1 /\ SeqOf[h] = nextSeq /\ accepted' = accepted \cup {h}
      BY <1>3 DEF SequenceInv, WriteSequence
    <3>2. \A g \in accepted' : SeqOf[g] < nextSeq'
      BY <3>1 DEF SequenceInv
    <3>3. \A g \in Handlers : pc'[g] # "writeSeq"
      BY <1>0, <1>1, <2>0 DEF HolderInLock
    <3> QED BY <3>2, <3>3 DEF SequenceInv
  <2>3. SequenceInv /\ SequenceConsumedOnce => SequenceConsumedOnce'
    BY <1>0, <1>3 DEF SequenceInv, SequenceConsumedOnce, WriteSequence
  <2> QED BY <1>0, <2>1, <2>2, <2>3 DEF TurnInv
<1>4. CASE UNCHANGED sessionVars /\ Respond(h, "error", "release")
  BY <1>0, <1>1, <1>4, StayOrLeave DEF Respond, sessionVars
<1> QED
  BY <1>2, <1>3, <1>4 DEF ConsumeSequenceGet, ConsumeSequenceSet, SequenceMismatch, Fails

\* Whatever the unlock script deletes, its caller leaves the lock.
LEMMA UnlockTurn ==
    ASSUME TypeOK, TurnInv, NEW h \in Handlers, ReleaseLock(h)
    PROVE  TurnInv'
<1> USE DEF TypeOK, BetTypeOK
<1>0. /\ UNCHANGED <<sessionVars, overruns>> /\ pc' = [pc EXCEPT ![h] = "done"] /\ pc[h] = "unlock"
      /\ lock' \in {lock, NoOne}
  BY DEF ReleaseLock, Goto, Fails, EvalUnlock, lockVars
<1>1. "done" \notin InLock /\ "unlock" \in InLock BY DEF InLock, Owning, Paying
<1>2. HolderInLock => HolderInLock' BY <1>0, <1>1 DEF HolderInLock
<1>3. SequenceInv => SequenceInv' BY <1>0 DEF SequenceInv, sessionVars
<1>4. SequenceConsumedOnce => SequenceConsumedOnce'
  BY <1>0 DEF SequenceConsumedOnce, sessionVars
<1> QED BY <1>0, <1>2, <1>3, <1>4 DEF TurnInv

LEMMA StepTurn ==
    ASSUME TypeOK, TurnInv, NEW h \in Handlers, Step(h)
    PROVE  TurnInv'
<1> DEFINE Still == UNCHANGED <<lock, nextSeq, seqRead, accepted, overruns>>
           To(s) == pc' = [pc EXCEPT ![h] = s]
<1> USE DEF Goto, Respond, lockVars, sessionVars
<1>0. InLock \subseteq Steps /\ {"done", "acquire"} \subseteq Steps \ InLock
  BY DEF Steps, BeforeLock, InLock, Ended, Owning, Paying
<1>1. CASE CheckCache(h)
  BY <1>0, <1>1, StayOrLeave DEF CheckCache
<1>2. ASSUME NEW s \in InLock, To(s), Still, pc[h] \in InLock, s # "writeSeq" PROVE TurnInv'
  BY <1>0, <1>2, StayOrLeave
<1>3. CASE DoubleCheck(h) \/ ClaimRound(h) \/ AwaitResult(h)
  <2>1. Still /\ pc[h] \in InLock
    BY <1>3 DEF DoubleCheck, ClaimRound, AwaitResult, InLock
  <2>2. To("release") \/ To("readSeq") \/ To("config") \/ To("wait")
    BY <1>3 DEF DoubleCheck, ClaimRound, AwaitResult
  <2> QED BY <1>2, <2>1, <2>2 DEF InLock, Owning
<1>4. CASE LoadConfig(h) \/ DebitBet(h) \/ Unclaim(h) \/ PostBet(h) \/ InsertTx(h) \/ Compute(h)
  <2>1. Still /\ pc[h] \in InLock
    BY <1>4 DEF LoadConfig, DebitBet, Unclaim, PostBet, InsertTx, Compute, InLock, Owning, Paying
  <2>2. To("bet") \/ To("unclaim") \/ To("postBet") \/ To("release") \/ To("insertTx")
        \/ To("compute") \/ To("win") \/ To("record")
    BY <1>4 DEF LoadConfig, DebitBet, Unclaim, PostBet, InsertTx, Compute
  <2> QED BY <1>2, <2>1, <2>2 DEF InLock, Owning, Paying
<1>5. CASE CreditWin(h) \/ RecordPendingOp(h) \/ MarkPending(h) \/ PostPendingWin(h)
           \/ Record(h) \/ Save(h)
  <2>1. Still /\ pc[h] \in InLock
    BY <1>5 DEF CreditWin, RecordPendingOp, MarkPending, PostPendingWin, Record, Save, InLock,
       Owning, Paying
  <2>2. To("record") \/ To("pendOp") \/ To("markWin") \/ To("pendLedger") \/ To("save")
        \/ To("release")
    BY <1>5 DEF CreditWin, RecordPendingOp, MarkPending, PostPendingWin, Record, Save
  <2> QED BY <1>2, <2>1, <2>2 DEF InLock, Owning, Paying
<1>6. CASE ReleaseToken(h)
  <2>1. Still /\ To("unlock") /\ pc[h] = "release" BY <1>6 DEF ReleaseToken, TakeToken
  <2> QED BY <1>2, <2>1 DEF InLock
<1> QED
  BY <1>1, <1>3, <1>4, <1>5, <1>6, AcquireTurn, SequenceTurn, UnlockTurn DEF Step

LEMMA EnvironmentTurn ==
    ASSUME TypeOK, TurnInv, ExpireLock \/ \E p \in Pods : Crash(p)
    PROVE  TurnInv'
<1> USE DEF TypeOK, BetTypeOK, LockTypeOK
<1>1. CASE ExpireLock
  <2>1. UNCHANGED <<pc, sessionVars>> /\ overruns' >= overruns BY <1>1 DEF ExpireLock
  <2>2. overruns' = 0 /\ HolderInLock => HolderInLock'
    BY <1>1 DEF ExpireLock, Expire, HolderInLock
  <2> QED BY <2>1, <2>2 DEF TurnInv, SequenceInv, SequenceConsumedOnce, sessionVars
<1>2. ASSUME NEW p \in Pods, Crash(p) PROVE TurnInv'
  <2>1. /\ UNCHANGED <<lock, sessionVars, overruns>>
        /\ \A h \in Handlers : pc'[h] \in {pc[h], "crashed"}
    BY <1>2 DEF Crash, LosePod
  <2>2. "crashed" \notin InLock BY DEF InLock, Owning, Paying
  <2> QED BY <2>1, <2>2 DEF TurnInv, HolderInLock, SequenceInv, SequenceConsumedOnce, sessionVars
<1> QED BY <1>1, <1>2

\* As long as no lock runs out under a working request, bets of a player
\* follow one another and a sequenceId is consumed once (WithLock around
\* ConsumeSequence), for any number of requests, processes, crashes and
\* failed calls.
THEOREM PlayersTurns == Spec => []OnePlayerAtATime
<1>1. Init => TurnInv
  BY DEF Init, SessionInit, TurnInv, HolderInLock, SequenceInv, SequenceConsumedOnce, InLock,
     Owning, Paying
<1>2. IInv /\ TurnInv /\ [Next]_vars => TurnInv'
  <2> SUFFICES ASSUME IInv, TurnInv, [Next]_vars PROVE TurnInv' OBVIOUS
  <2>1. TypeOK BY DEF IInv
  <2>2. CASE UNCHANGED vars
    BY <2>2 DEF vars, lockVars, sessionVars, betVars, TurnInv, HolderInLock, SequenceInv,
       SequenceConsumedOnce
  <2> QED BY <2>1, <2>2, StepTurn, EnvironmentTurn DEF Next
<1>3. IInv /\ TurnInv => OnePlayerAtATime
  BY DEF TurnInv, HolderInLock, OnePlayerAtATime, LockExclusive, SequenceConsumedOnce
<1> QED BY <1>1, <1>2, <1>3, Inductive, PTL DEF Spec

-----------------------------------------------------------------------------
(* The rows: one failed call cannot take both from a win that is owed. *)

Kept(r) ==
    \/ pendOps[r].status = "pending"
    \/ pendTx[r].status = "pending" /\ pendTx[r].phase = "win_pending"

Recorded(r) == Kept(r) \/ faults >= 2

\* What a request has written down of its round by the time it gets somewhere.
HasRow(h) ==
    LET r == RoundOf[h]
    IN  /\ pc[h] \in {"compute", "win", "pendOp", "markWin"} =>
              pendTx[r].status = "pending" \/ faults >= 1
        /\ pc[h] = "markWin" =>
              \/ pendOps[r].status = "pending"
              \/ pendTx[r].status = "pending" /\ faults >= 1
              \/ faults >= 2
        /\ pc[h] \in {"pendLedger", "save", "release", "unlock", "done"} /\ resp[h] = "pending" =>
              Recorded(r)

RowInv ==
    /\ \A h \in Handlers : HasRow(h)
    /\ \A r \in Rounds : result[r] = "pending" => Recorded(r)

\* A request moves, and changes no more than the rows of a round it owns.
LEMMA RowsMove ==
    ASSUME IInv, RowInv, NEW h \in Handlers, NEW s \in Steps, NEW a,
           pc' = [pc EXCEPT ![h] = s], resp' = [resp EXCEPT ![h] = a],
           faults' \in Nat, faults' >= faults,
           \A q \in Rounds : q # RoundOf[h] =>
              UNCHANGED <<pendOps[q], pendTx[q], result[q]>>,
           pc[h] \in Owning \/ UNCHANGED <<pendOps, pendTx>>,
           HasRow(h)', result'[RoundOf[h]] = "pending" => Recorded(RoundOf[h])',
           \/ Kept(RoundOf[h]) => Kept(RoundOf[h])'
           \/ \A g \in Handlers \ {h} : RoundOf[g] = RoundOf[h] => resp[g] # "pending"
    PROVE  RowInv'
<1> DEFINE r == RoundOf[h]
<1> USE DEF IInv, TypeOK, BetTypeOK
<1>1. \A g \in Handlers \ {h} : pc'[g] = pc[g] /\ resp'[g] = resp[g]
  OBVIOUS
<1>2. \A q \in Rounds : q # r => (Recorded(q) => Recorded(q)')
  BY DEF Recorded, Kept
<1>3. ASSUME NEW g \in Handlers \ {h} PROVE HasRow(g)'
  <2>0. HasRow(g) BY DEF RowInv
  <2>1. CASE RoundOf[g] # r
    BY <1>1, <1>2, <2>0, <2>1 DEF HasRow
  <2>2. CASE RoundOf[g] = r /\ UNCHANGED <<pendOps, pendTx>>
    BY <1>1, <2>0, <2>2 DEF HasRow, Recorded, Kept
  <2>3. CASE RoundOf[g] = r /\ pc[h] \in Owning
    <3>1. pc[g] \notin {"compute", "win", "pendOp", "markWin"}
      BY <2>3 DEF RoundInv, ClaimExclusive, Owning, Paying
    <3>2. resp[g] = "pending" /\ Recorded(r) => Recorded(r)'
      BY <2>3 DEF Recorded
    <3> QED BY <1>1, <2>0, <2>3, <3>1, <3>2 DEF HasRow
  <2> QED BY <2>1, <2>2, <2>3
<1>4. ASSUME NEW q \in Rounds, result'[q] = "pending" PROVE Recorded(q)'
  BY <1>2, <1>4 DEF RowInv
<1> QED BY <1>3, <1>4 DEF RowInv

LEMMA StepRows ==
    ASSUME IInv, RowInv, NEW h \in Handlers, Step(h)
    PROVE  RowInv'
<1> DEFINE r == RoundOf[h]
           Calm == UNCHANGED <<pendOps, pendTx, result>>
           To(s, a) == pc' = [pc EXCEPT ![h] = s] /\ resp' = [resp EXCEPT ![h] = a]
           Told == {"pendLedger", "save", "release", "unlock", "done"}
<1> USE DEF idemVars, storeVars
<1>0. TypeOK /\ RoundInv /\ HasRow(h) /\ faults \in Nat
  BY DEF IInv, TypeOK, BetTypeOK, RowInv
<1>1. \A s \in Steps : Goto(h, s) => To(s, resp[h])
  BY <1>0 DEF Goto, TypeOK, BetTypeOK
<1>2. UNCHANGED faults \/ Fault => faults' \in Nat /\ faults' >= faults
  BY <1>0 DEF Fault, TypeOK, BetTypeOK
<1>3. ASSUME NEW s \in Steps, NEW a, To(s, a), Calm, UNCHANGED faults \/ Fault,
             s \in {"compute", "win", "pendOp"} => pc[h] \in {"compute", "win"}, s # "markWin",
             s \in Told /\ a = "pending" => (pc[h] \in Told /\ resp[h] = a) \/ result[r] = a
      PROVE  RowInv'
  <2>1. pc'[h] = s /\ resp'[h] = a BY <1>0, <1>3 DEF TypeOK, BetTypeOK
  <2>2. Recorded(r) => Recorded(r)' BY <1>2, <1>3, <1>0 DEF Recorded, Kept
  <2>3. HasRow(h)' BY <1>0, <1>2, <1>3, <2>1, <2>2 DEF HasRow, RowInv
  <2>4. result'[r] = "pending" => Recorded(r)' BY <1>3, <2>2 DEF RowInv
  <2>5. Kept(r) => Kept(r)' BY <1>3 DEF Kept
  <2> QED BY <1>2, <1>3, <2>3, <2>4, <2>5, RowsMove
<1>4. Steps = {"start", "acquire", "locked", "readSeq", "writeSeq", "claim", "wait", "config", "bet",
               "unclaim", "postBet", "insertTx", "compute", "win", "pendOp", "markWin", "pendLedger",
               "record", "save", "release", "unlock", "done", "crashed"}
  BY DEF Steps, BeforeLock, InLock, Owning, Paying, Ended
<1>5. CASE CheckCache(h) \/ DoubleCheck(h) \/ AwaitResult(h)
  <2>1. Calm /\ (UNCHANGED faults \/ Fault) BY <1>5 DEF CheckCache, DoubleCheck, AwaitResult
  <2>2. \/ \E s \in {"done", "release"}, a \in {result[r], "error"} : Respond(h, a, s)
        \/ Goto(h, "acquire") \/ Goto(h, "readSeq")
    BY <1>5 DEF CheckCache, DoubleCheck, AwaitResult
  <2>3. ASSUME NEW s \in {"done", "release"}, NEW a \in {result[r], "error"}, Respond(h, a, s)
        PROVE  RowInv'
    <3>1. To(s, a) /\ s \in Steps BY <1>4, <2>3 DEF Respond
    <3>2. s \in Told /\ a = "pending" => result[r] = a BY <2>3
    <3> QED BY <1>3, <2>1, <2>3, <3>1, <3>2
  <2>4. CASE Goto(h, "acquire") \/ Goto(h, "readSeq") BY <1>1, <1>3, <1>4, <2>1, <2>4
  <2> QED BY <2>2, <2>3, <2>4
<1>6. CASE AcquireLock(h) \/ ConsumeSequenceGet(h) \/ ConsumeSequenceSet(h) \/ ClaimRound(h)
  <2>1. Calm /\ (UNCHANGED faults \/ Fault)
    BY <1>6 DEF AcquireLock, ConsumeSequenceGet, ConsumeSequenceSet, ClaimRound, ClaimWithToken,
       ClaimTaken, Fails
  <2>2. \/ \E s \in {"done", "release"} : Respond(h, "error", s)
        \/ \E s \in {"locked", "writeSeq", "claim", "config", "wait"} : Goto(h, s)
    BY <1>6 DEF AcquireLock, ConsumeSequenceGet, ConsumeSequenceSet, ClaimRound
  <2> QED BY <1>1, <1>3, <1>4, <2>1, <2>2 DEF Respond
<1>7. CASE LoadConfig(h) \/ DebitBet(h) \/ Unclaim(h) \/ PostBet(h)
  <2>1. Calm /\ (UNCHANGED faults \/ Fault)
    BY <1>7 DEF LoadConfig, DebitBet, Unclaim, ReleaseClaim, PostBet, Book, PostLedger, Fails
  <2>2. \/ Respond(h, "error", "release")
        \/ \E s \in {"bet", "unclaim", "postBet", "insertTx"} : Goto(h, s)
    BY <1>7 DEF LoadConfig, DebitBet, Unclaim, PostBet
  <2> QED BY <1>1, <1>3, <1>4, <2>1, <2>2 DEF Respond
<1>8. CASE Compute(h) \/ CreditWin(h)
  <2>1. Calm /\ (UNCHANGED faults \/ Fault) /\ pc[h] \in {"compute", "win"}
    BY <1>8 DEF Compute, CreditWin
  <2>2. \/ Goto(h, "win") \/ Respond(h, "settled", "record") \/ Respond(h, "pending", "pendOp")
        \/ Respond(h, "error", "release")
    BY <1>8 DEF Compute, CreditWin
  <2> QED BY <1>1, <1>3, <1>4, <2>1, <2>2 DEF Respond
<1>9. CASE PostPendingWin(h) \/ ReleaseToken(h) \/ ReleaseLock(h)
  <2>1. Calm /\ (UNCHANGED faults \/ Fault) /\ pc[h] \in Told
    BY <1>9 DEF PostPendingWin, ReleaseToken, ReleaseLock, Book, PostLedger, Fails
  <2>2. Goto(h, "save") \/ Goto(h, "unlock") \/ Goto(h, "done")
    BY <1>9 DEF PostPendingWin, ReleaseToken, ReleaseLock
  <2> QED BY <1>1, <1>3, <1>4, <2>1, <2>2
\* The steps that write the rows, and the answer.
<1>10. ASSUME NEW s \in Steps, To(s, resp[h]), UNCHANGED faults \/ Fault, pc[h] \in Owning,
              \A q \in Rounds : q # r => UNCHANGED <<pendOps[q], pendTx[q], result[q]>>,
              HasRow(h)', result'[r] = "pending" => Recorded(r)',
              \/ Kept(r) => Kept(r)'
              \/ \A g \in Handlers \ {h} : RoundOf[g] = r => resp[g] # "pending"
       PROVE  RowInv'
  BY <1>2, <1>10, RowsMove
<1> USE DEF TypeOK, BetTypeOK, StoreTypeOK, IdemTypeOK
<1>11. CASE InsertTx(h)
  <2>1. /\ To("compute", resp[h]) /\ pc[h] = "insertTx" /\ UNCHANGED result
        /\ \/ InsertPendingTx(r) /\ UNCHANGED faults
           \/ Fault /\ (InsertPendingTx(r) \/ UNCHANGED storeVars)
    BY <1>1, <1>4, <1>11 DEF InsertTx, Book, Fails
  <2>2. pc[h] \in Owning /\ pc[h] \in BeforePay BY <2>1 DEF Owning, Paying, BeforePay
  <2>3. \A g \in Handlers : RoundOf[g] = r => resp[g] # "pending"
    BY <1>0, <2>2 DEF RoundInv, OwnerUnspent, Spent, Answers
  <2>4. result[r] = "none" BY <1>0, <2>2 DEF RoundInv, OwnerUnspent, Spent
  <2>5. \A q \in Rounds : q # r => UNCHANGED <<pendOps[q], pendTx[q]>>
    BY <1>0, <2>1 DEF InsertPendingTx
  <2>6. pendTx'[r].status = "pending" \/ faults' >= 1
    BY <1>0, <2>1 DEF InsertPendingTx, Fault
  <2>7. HasRow(h)' BY <1>0, <2>1, <2>6 DEF HasRow
  <2> QED BY <1>4, <1>10, <2>1, <2>2, <2>3, <2>4, <2>5, <2>7
<1>12. CASE RecordPendingOp(h)
  <2>1. /\ To("markWin", resp[h]) /\ pc[h] = "pendOp" /\ UNCHANGED <<result, pendTx>>
        /\ \/ InsertPendingOp(r) /\ UNCHANGED faults
           \/ Fault /\ (InsertPendingOp(r) \/ UNCHANGED storeVars)
    BY <1>1, <1>4, <1>12 DEF RecordPendingOp, Book, Fails, InsertPendingOp
  <2>2. pc[h] \in Owning BY <2>1 DEF Owning, Paying
  <2>3. \A q \in Rounds : q # r => UNCHANGED pendOps[q]
    BY <1>0, <2>1 DEF InsertPendingOp
  <2>4. pendOps'[r].status = "pending" \/ (UNCHANGED pendOps /\ Fault)
    BY <1>0, <2>1 DEF InsertPendingOp
  <2>5. Kept(r) => Kept(r)' BY <2>1, <2>4 DEF Kept
  <2>6. HasRow(h)' BY <1>0, <1>2, <2>1, <2>4 DEF HasRow, Fault
  <2>7. result'[r] = "pending" => Recorded(r)' BY <1>0, <1>2, <2>1, <2>5 DEF RowInv, Recorded
  <2> QED BY <1>4, <1>10, <2>1, <2>2, <2>3, <2>5, <2>6, <2>7
<1>13. CASE MarkPending(h)
  <2>1. /\ To("pendLedger", resp[h]) /\ pc[h] = "markWin" /\ UNCHANGED <<result, pendOps>>
        /\ \/ MarkWinPending(r) /\ UNCHANGED faults
           \/ Fault /\ (MarkWinPending(r) \/ UNCHANGED storeVars)
    BY <1>1, <1>4, <1>13 DEF MarkPending, Book, Fails, MarkWinPending
  <2>2. pc[h] \in Owning BY <2>1 DEF Owning, Paying
  <2>3. \A q \in Rounds : q # r => UNCHANGED pendTx[q]
    BY <1>0, <2>1 DEF MarkWinPending, UpdatedTx
  <2>4. \/ pendTx'[r].status = "pending" /\ pendTx'[r].phase = "win_pending"
        \/ UNCHANGED pendTx /\ (Fault \/ pendTx[r].status = "none")
    BY <1>0, <2>1 DEF MarkWinPending, UpdatedTx
  <2>5. Kept(r) => Kept(r)' BY <2>1, <2>4 DEF Kept
  <2>6. Recorded(r)' BY <1>0, <1>2, <2>1, <2>4 DEF HasRow, Recorded, Kept, Fault
  <2>7. HasRow(h)' BY <1>0, <2>1, <2>6 DEF HasRow
  <2> QED BY <1>4, <1>10, <2>1, <2>2, <2>3, <2>5, <2>6, <2>7
<1>14. CASE Record(h)
  <2>1. /\ To("save", resp[h]) /\ pc[h] = "record" /\ UNCHANGED <<result, pendOps>>
        /\ UNCHANGED faults \/ Fault
        /\ RecordSettled(r, r \in Winning) \/ UNCHANGED storeVars
    BY <1>1, <1>4, <1>14 DEF Record, Book, Fails, RecordSettled
  <2>2. pc[h] \in Owning BY <2>1 DEF Owning, Paying
  <2>3. resp[h] = "settled" BY <1>0, <2>1 DEF RoundInv, Composed
  <2>4. \A g \in Handlers : RoundOf[g] = r => resp[g] # "pending"
    BY <1>0, <2>3 DEF RoundInv, AnswersAgree, Answers
  <2>5. result[r] # "pending" BY <1>0, <2>3 DEF RoundInv, AnswerIsResult, Answers
  <2>6. \A q \in Rounds : q # r => UNCHANGED pendTx[q]
    BY <1>0, <2>1 DEF RecordSettled, UpdatedTx
  <2>7. HasRow(h)' BY <1>0, <2>1, <2>3 DEF HasRow
  <2> QED BY <1>4, <1>10, <2>1, <2>2, <2>4, <2>5, <2>6, <2>7
<1>15. CASE Save(h)
  <2>1. /\ To("release", resp[h]) /\ pc[h] = "save" /\ UNCHANGED <<pendTx, pendOps>>
        /\ UNCHANGED faults \/ Fault
        /\ Saves(r, resp[h]) \/ UNCHANGED idemVars
    BY <1>1, <1>4, <1>15 DEF Save, Fails, Saves
  <2>2. pc[h] \in Owning BY <2>1 DEF Owning, Paying
  <2>3. \A q \in Rounds : q # r => UNCHANGED result[q]
    BY <1>0, <2>1 DEF Saves, SaveResult, SaveResultHalf
  <2>4. Recorded(r) => Recorded(r)' BY <1>0, <1>2, <2>1 DEF Recorded, Kept
  <2>5. result'[r] = "pending" => Recorded(r)'
    BY <1>0, <2>1, <2>4 DEF Saves, SaveResult, SaveResultHalf, HasRow, RowInv
  <2>6. HasRow(h)' BY <1>0, <2>1, <2>4 DEF HasRow
  <2>7. Kept(r) => Kept(r)' BY <2>1 DEF Kept
  <2> QED BY <1>4, <1>10, <2>1, <2>2, <2>3, <2>5, <2>6, <2>7
<1> QED
  BY <1>5, <1>6, <1>7, <1>8, <1>9, <1>11, <1>12, <1>13, <1>14, <1>15 DEF Step

\* A player who was told "pending" has a row from which the win is paid, if
\* no more than one call failed (recordPending and MarkWinPending), for any
\* number of requests, processes, crashes and lock overruns.
THEOREM PendingRecorded == Spec => []PendingAnswerRecorded
<1>1. Init => RowInv
  BY DEF Init, IdemInit, StoreInit, RowInv, HasRow
<1>2. IInv /\ RowInv /\ [Next]_vars => RowInv'
  <2> SUFFICES ASSUME IInv, RowInv, [Next]_vars PROVE RowInv' OBVIOUS
  <2>1. CASE UNCHANGED vars
    BY <2>1 DEF vars, idemVars, storeVars, betVars, RowInv, HasRow, Recorded, Kept
  <2>2. CASE ExpireLock \/ \E p \in Pods : Crash(p)
    <3>1. /\ UNCHANGED <<pendOps, pendTx, result, resp, faults>>
          /\ \A h \in Handlers : pc'[h] \in {pc[h], "crashed"}
      BY <2>2 DEF ExpireLock, Crash, idemVars, storeVars
    <3> QED BY <3>1 DEF RowInv, HasRow, Recorded, Kept
  <2> QED BY <2>1, <2>2, StepRows DEF Next
<1>3. IInv /\ RowInv => PendingAnswerRecorded
  BY DEF IInv, TypeOK, BetTypeOK, RowInv, HasRow, Recorded, Kept, PendingAnswerRecorded
<1> QED BY <1>1, <1>2, <1>3, Inductive, PTL DEF Spec

-----------------------------------------------------------------------------
(* The claims and the debits: what is stranded or forgotten, failed calls have *)
(* to answer for, each for one round at most.                                  *)

\* A set that grows by one element at most when a call fails, and not otherwise.
LEMMA Counted ==
    ASSUME NEW S, NEW T, NEW e, IsFiniteSet(S), faults \in Nat, Cardinality(S) <= faults,
           \/ T \subseteq S /\ UNCHANGED faults
           \/ T \subseteq S \cup {e} /\ faults' = faults + 1
    PROVE  IsFiniteSet(T) /\ Cardinality(T) <= faults'
<1>1. /\ IsFiniteSet(S \cup {e}) /\ Cardinality(S) \in Nat
      /\ Cardinality(S \cup {e}) \in Nat
      /\ Cardinality(S \cup {e}) \in {Cardinality(S), Cardinality(S) + 1}
  BY FS_AddElement, FS_CardinalityType
<1>2. CASE T \subseteq S /\ UNCHANGED faults
  <2>1. IsFiniteSet(T) /\ Cardinality(T) <= Cardinality(S) /\ Cardinality(T) \in Nat
    BY <1>2, FS_Subset, FS_CardinalityType
  <2> QED BY <1>1, <1>2, <2>1
<1>3. CASE T \subseteq S \cup {e} /\ faults' = faults + 1
  <2>1. /\ IsFiniteSet(T) /\ Cardinality(T) <= Cardinality(S \cup {e})
        /\ Cardinality(T) \in Nat
    BY <1>1, <1>3, FS_Subset, FS_CardinalityType
  <2> QED BY <1>1, <1>3, <2>1
<1> QED BY <1>2, <1>3

\* A request goes on with step s.
Goes(h, s) == pc' = [pc EXCEPT ![h] = s]

\* What a step of a request may do to a round.
RoundsKept(h) ==
    \A q \in Rounds :
        /\ q # RoundOf[h] => claim'[q] = claim[q] /\ bets'[q] = bets[q]
        /\ pendTx[q].status # "none" => pendTx'[q].status # "none"
        /\ result[q] # "none" => result'[q] # "none"

\* The two sets grow by the round of the request that moves, if at all.
LEMMA StrandMoves ==
    ASSUME TypeOK, NEW h \in Handlers, NEW s, Goes(h, s), RoundsKept(h)
    PROVE  /\ Stranded' \subseteq Stranded \cup {RoundOf[h]}
           /\ \/ s \in Owning \/ claim'[RoundOf[h]] # "PENDING"
              \/ pc[h] \notin Owning \cup {"crashed"} /\ UNCHANGED claim
              => Stranded' \subseteq Stranded
<1>1. pc'[h] = s /\ \A g \in Handlers \ {h} : pc'[g] = pc[g]
  BY DEF Goes, TypeOK, BetTypeOK
<1>2. \A q \in Stranded' : q # RoundOf[h] => q \in Stranded
  BY <1>1 DEF Stranded, RoundsKept
<1>3. s \in Owning \/ claim'[RoundOf[h]] # "PENDING" => RoundOf[h] \notin Stranded'
  BY <1>1 DEF Stranded
<1>4. ASSUME pc[h] \notin Owning \cup {"crashed"}, UNCHANGED claim, RoundOf[h] \in Stranded'
      PROVE  RoundOf[h] \in Stranded
  BY <1>1, <1>4 DEF Stranded, RoundsKept
<1> QED BY <1>2, <1>3, <1>4

LEMMA ForgetMoves ==
    ASSUME TypeOK, NEW h \in Handlers, NEW s, Goes(h, s), RoundsKept(h)
    PROVE  /\ Forgotten' \subseteq Forgotten \cup {RoundOf[h]}
           /\ \/ s \in NoRowYet \/ claim'[RoundOf[h]] = "none"
              \/ pendTx'[RoundOf[h]].status # "none"
              \/ /\ pc[h] \notin NoRowYet \cup {"crashed"}
                 /\ bets'[RoundOf[h]] = bets[RoundOf[h]]
                 /\ claim[RoundOf[h]] # "none" \/ UNCHANGED claim
              => Forgotten' \subseteq Forgotten
<1>1. pc'[h] = s /\ \A g \in Handlers \ {h} : pc'[g] = pc[g]
  BY DEF Goes, TypeOK, BetTypeOK
<1>2. \A q \in Forgotten' : q # RoundOf[h] => q \in Forgotten
  BY <1>1 DEF Forgotten, RoundsKept
<1>3. s \in NoRowYet \/ claim'[RoundOf[h]] = "none" \/ pendTx'[RoundOf[h]].status # "none"
        => RoundOf[h] \notin Forgotten'
  BY <1>1 DEF Forgotten
<1>4. ASSUME pc[h] \notin NoRowYet \cup {"crashed"}, bets'[RoundOf[h]] = bets[RoundOf[h]],
             claim[RoundOf[h]] # "none" \/ UNCHANGED claim, RoundOf[h] \in Forgotten'
      PROVE  RoundOf[h] \in Forgotten
  BY <1>1, <1>4 DEF Forgotten, RoundsKept
<1> QED BY <1>2, <1>3, <1>4

LEMMA StepRounds ==
    ASSUME TypeOK, Composed, NEW h \in Handlers, Step(h)
    PROVE  RoundsKept(h)
<1> DEFINE r == RoundOf[h]
<1> USE DEF RoundsKept, TypeOK, IdemTypeOK, WalletTypeOK, StoreTypeOK, idemVars, walletVars,
            storeVars
<1>1. CASE CheckCache(h) \/ AcquireLock(h) \/ DoubleCheck(h) \/ ConsumeSequenceGet(h)
           \/ ConsumeSequenceSet(h) \/ AwaitResult(h) \/ ReleaseToken(h) \/ ReleaseLock(h)
           \/ LoadConfig(h) \/ Compute(h)
  BY <1>1 DEF CheckCache, AcquireLock, DoubleCheck, ConsumeSequenceGet, ConsumeSequenceSet,
     AwaitResult, ReleaseToken, ReleaseLock, LoadConfig, Compute
<1>2. CASE ClaimRound(h) \/ Unclaim(h)
  <2>1. /\ UNCHANGED <<walletVars, storeVars>>
        /\ UNCHANGED idemVars \/ ClaimWithToken(r, TokenOf[h]) \/ ReleaseClaim(r)
    BY <1>2 DEF ClaimRound, Unclaim, ClaimTaken, Fails
  <2> QED BY <2>1 DEF ClaimWithToken, ReleaseClaim
<1>3. CASE Save(h)
  <2>1. /\ UNCHANGED <<walletVars, storeVars>> /\ resp[h] \in Answers
        /\ UNCHANGED idemVars \/ Saves(r, resp[h])
    BY <1>3 DEF Save, Fails, Saves, Composed
  <2> QED BY <2>1 DEF Saves, SaveResult, SaveResultHalf, Answers
<1>4. CASE DebitBet(h) \/ CreditWin(h)
  <2>1. /\ UNCHANGED <<idemVars, storeVars>>
        /\ \E o \in WalletOutcomes : WalletBet(r, o) \/ WalletWin(r, o)
    BY <1>4 DEF DebitBet, CreditWin
  <2> QED BY <2>1 DEF WalletBet, WalletWin
<1>5. CASE PostBet(h) \/ InsertTx(h) \/ RecordPendingOp(h) \/ MarkPending(h)
           \/ PostPendingWin(h) \/ Record(h)
  <2>1. /\ UNCHANGED <<idemVars, walletVars>>
        /\ \/ UNCHANGED pendTx \/ InsertPendingTx(r) \/ MarkWinPending(r)
           \/ RecordSettled(r, r \in Winning)
    BY <1>5 DEF PostBet, InsertTx, RecordPendingOp, MarkPending, PostPendingWin, Record,
       Book, Fails, PostLedger, InsertPendingOp
  <2> QED BY <2>1 DEF InsertPendingTx, MarkWinPending, RecordSettled, UpdatedTx
<1> QED BY <1>1, <1>2, <1>3, <1>4, <1>5 DEF Step

\* A step strands or forgets a round only when its call fails.
LEMMA StepStrands ==
    ASSUME IInv, NEW h \in Handlers, Step(h)
    PROVE  \/ Stranded' \subseteq Stranded /\ UNCHANGED faults
           \/ Stranded' \subseteq Stranded \cup {RoundOf[h]} /\ faults' = faults + 1
<1> DEFINE r == RoundOf[h]
<1>0. TypeOK /\ Composed BY DEF IInv, RoundInv
<1>m. ASSUME NEW s, Goes(h, s)
      PROVE  /\ Stranded' \subseteq Stranded \cup {r}
             /\ \/ s \in Owning \/ claim'[r] # "PENDING"
                \/ pc[h] \notin Owning \cup {"crashed"} /\ UNCHANGED claim
                => Stranded' \subseteq Stranded
  BY <1>0, <1>m, StepRounds, StrandMoves
<1> USE DEF Goes, Goto, Respond, idemVars, Fault
<1>1. CASE CheckCache(h) \/ AcquireLock(h) \/ DoubleCheck(h) \/ ConsumeSequenceGet(h)
           \/ ConsumeSequenceSet(h) \/ AwaitResult(h) \/ ReleaseToken(h) \/ ReleaseLock(h)
  <2>1. /\ UNCHANGED claim /\ (UNCHANGED faults \/ faults' = faults + 1)
        /\ pc[h] \notin Owning \cup {"crashed"} /\ \E s : Goes(h, s)
    BY <1>1 DEF CheckCache, AcquireLock, DoubleCheck, ConsumeSequenceGet, ConsumeSequenceSet,
       AwaitResult, ReleaseToken, ReleaseLock, Fails, Owning, Paying
  <2> QED BY <1>0, <2>1, <1>m
<1>2. CASE ClaimRound(h)
  <2>1. /\ pc[h] \notin Owning \cup {"crashed"} /\ \E s : Goes(h, s)
        /\ \/ UNCHANGED <<claim, faults>>
           \/ Goes(h, "config") /\ UNCHANGED faults
           \/ faults' = faults + 1
    BY <1>2 DEF ClaimRound, ClaimTaken, Fails, Owning, Paying
  <2>2. "config" \in Owning BY DEF Owning
  <2> QED BY <1>0, <2>1, <2>2, <1>m
<1>3. CASE LoadConfig(h) \/ DebitBet(h) \/ PostBet(h) \/ InsertTx(h) \/ Compute(h) \/ CreditWin(h)
           \/ RecordPendingOp(h) \/ MarkPending(h) \/ PostPendingWin(h) \/ Record(h)
  <2>1. /\ \E s : Goes(h, s) /\ (s \in Owning \/ faults' = faults + 1)
        /\ UNCHANGED faults \/ faults' = faults + 1
    BY <1>3 DEF LoadConfig, DebitBet, PostBet, InsertTx, Compute, CreditWin, RecordPendingOp,
       MarkPending, PostPendingWin, Record, Book, Fails, Owning, Paying
  <2> QED BY <1>0, <2>1, <1>m
<1>4. CASE Unclaim(h)
  <2>1. Goes(h, "release") /\ ((ReleaseClaim(r) /\ UNCHANGED faults) \/ faults' = faults + 1)
    BY <1>4 DEF Unclaim, Fails
  <2>2. ReleaseClaim(r) => claim'[r] # "PENDING"
    BY <1>0 DEF ReleaseClaim, TypeOK, IdemTypeOK
  <2> QED BY <1>0, <2>1, <2>2, <1>m
<1>5. CASE Save(h)
  <2>1. Goes(h, "release") /\ ((SaveResult(r, resp[h]) /\ UNCHANGED faults) \/ faults' = faults + 1)
    BY <1>5 DEF Save, Fails
  <2>2. SaveResult(r, resp[h]) => claim'[r] # "PENDING"
    BY <1>0 DEF SaveResult, TypeOK, IdemTypeOK
  <2> QED BY <1>0, <2>1, <2>2, <1>m
<1> QED BY <1>1, <1>2, <1>3, <1>4, <1>5 DEF Step

LEMMA StepForgets ==
    ASSUME IInv, NEW h \in Handlers, Step(h)
    PROVE  \/ Forgotten' \subseteq Forgotten /\ UNCHANGED faults
           \/ Forgotten' \subseteq Forgotten \cup {RoundOf[h]} /\ faults' = faults + 1
<1> DEFINE r == RoundOf[h]
<1>0. TypeOK /\ Composed BY DEF IInv, RoundInv
<1>m. ASSUME NEW s, Goes(h, s)
      PROVE  /\ Forgotten' \subseteq Forgotten \cup {r}
             /\ \/ s \in NoRowYet \/ claim'[r] = "none" \/ pendTx'[r].status # "none"
                \/ /\ pc[h] \notin NoRowYet \cup {"crashed"} /\ bets'[r] = bets[r]
                   /\ claim[r] # "none" \/ UNCHANGED claim
                => Forgotten' \subseteq Forgotten
  BY <1>0, <1>m, StepRounds, ForgetMoves
<1> USE DEF Goes, Goto, Respond, idemVars, Fault
<1>1. CASE CheckCache(h) \/ AcquireLock(h) \/ DoubleCheck(h) \/ ConsumeSequenceGet(h)
           \/ ConsumeSequenceSet(h) \/ AwaitResult(h) \/ ReleaseToken(h) \/ ReleaseLock(h)
  <2>1. /\ UNCHANGED <<claim, bets>> /\ (UNCHANGED faults \/ faults' = faults + 1)
        /\ pc[h] \notin NoRowYet \cup {"crashed"} /\ \E s : Goes(h, s)
    BY <1>1 DEF CheckCache, AcquireLock, DoubleCheck, ConsumeSequenceGet, ConsumeSequenceSet,
       AwaitResult, ReleaseToken, ReleaseLock, Fails, NoRowYet, walletVars
  <2> QED BY <1>0, <2>1, <1>m
<1>2. CASE ClaimRound(h)
  <2>1. /\ pc[h] \notin NoRowYet \cup {"crashed"} /\ \E s : Goes(h, s)
        /\ UNCHANGED bets
        /\ \/ UNCHANGED <<claim, faults>>
           \/ Goes(h, "config") /\ UNCHANGED faults
           \/ faults' = faults + 1
    BY <1>2 DEF ClaimRound, ClaimTaken, Fails, NoRowYet, walletVars
  <2>2. "config" \in NoRowYet BY DEF NoRowYet
  <2> QED BY <1>0, <2>1, <2>2, <1>m
<1>3. CASE LoadConfig(h) \/ DebitBet(h) \/ PostBet(h)
  <2>1. /\ \E s \in NoRowYet : Goes(h, s)
        /\ UNCHANGED faults \/ faults' = faults + 1
    BY <1>3 DEF LoadConfig, DebitBet, PostBet, Book, Fails, NoRowYet
  <2> QED BY <1>0, <2>1, <1>m
<1>4. CASE InsertTx(h)
  <2>1. Goes(h, "compute") /\ ((InsertPendingTx(r) /\ UNCHANGED faults) \/ faults' = faults + 1)
    BY <1>4 DEF InsertTx, Book, Fails
  <2>2. InsertPendingTx(r) => pendTx'[r].status # "none"
    BY <1>0 DEF InsertPendingTx, TypeOK, StoreTypeOK
  <2> QED BY <1>0, <2>1, <2>2, <1>m
<1>5. CASE Compute(h) \/ CreditWin(h) \/ RecordPendingOp(h) \/ MarkPending(h)
           \/ PostPendingWin(h) \/ Record(h)
  <2>1. /\ UNCHANGED <<claim, bets>> /\ (UNCHANGED faults \/ faults' = faults + 1)
        /\ pc[h] \notin NoRowYet \cup {"crashed"} /\ \E s : Goes(h, s)
    BY <1>5 DEF Compute, CreditWin, RecordPendingOp, MarkPending, PostPendingWin, Record,
       WalletWin, Book, Fails, NoRowYet, walletVars
  <2> QED BY <1>0, <2>1, <1>m
<1>6. CASE Unclaim(h)
  <2>1. Goes(h, "release") /\ ((ReleaseClaim(r) /\ UNCHANGED faults) \/ faults' = faults + 1)
    BY <1>6 DEF Unclaim, Fails
  <2>2. ReleaseClaim(r) => claim'[r] = "none"
    BY <1>0 DEF ReleaseClaim, TypeOK, IdemTypeOK
  <2> QED BY <1>0, <2>1, <2>2, <1>m
<1>7. CASE Save(h)
  <2>1. /\ pc[h] = "save" /\ Goes(h, "release") /\ UNCHANGED bets
        /\ UNCHANGED faults \/ faults' = faults + 1
    BY <1>7 DEF Save, Fails, walletVars
  <2>2. claim[r] # "none" /\ pc[h] \notin NoRowYet \cup {"crashed"}
    BY <2>1 DEF IInv, RoundInv, OwnerClaims, Owning, Paying, NoRowYet
  <2> QED BY <1>0, <2>1, <2>2, <1>m
<1> QED BY <1>1, <1>2, <1>3, <1>4, <1>5, <1>6, <1>7 DEF Step

\* A process that dies strands and forgets no round but those of its requests.
LEMMA EnvironmentStrands ==
    ASSUME ExpireLock \/ (\E p \in Pods : Crash(p)) \/ UNCHANGED vars, TypeOK
    PROVE  Stranded' \subseteq Stranded /\ Forgotten' \subseteq Forgotten /\ UNCHANGED faults
<1>1. /\ UNCHANGED <<claim, result, bets, pendTx, faults>>
      /\ \A h \in Handlers : pc'[h] \in {pc[h], "crashed"}
  BY DEF ExpireLock, Crash, vars, idemVars, walletVars, storeVars, betVars, TypeOK, BetTypeOK
<1> QED BY <1>1 DEF Stranded, Forgotten

\* What is stranded and what is forgotten is counted by the failed calls.
LossInv ==
    /\ IsFiniteSet(Stranded) /\ Cardinality(Stranded) <= faults
    /\ IsFiniteSet(Forgotten) /\ Cardinality(Forgotten) <= faults

LEMMA LossNext == IInv /\ LossInv /\ [Next]_vars => LossInv'
<1> SUFFICES ASSUME IInv, LossInv, [Next]_vars PROVE LossInv' OBVIOUS
<1>0. TypeOK /\ faults \in Nat BY DEF IInv, TypeOK, BetTypeOK
<1>1. ASSUME NEW h \in Handlers, Step(h) PROVE LossInv'
  <2>1. IsFiniteSet(Stranded') /\ Cardinality(Stranded') <= faults'
    BY <1>0, <1>1, StepStrands, Counted DEF LossInv
  <2>2. IsFiniteSet(Forgotten') /\ Cardinality(Forgotten') <= faults'
    BY <1>0, <1>1, StepForgets, Counted DEF LossInv
  <2> QED BY <2>1, <2>2 DEF LossInv
<1>2. CASE ExpireLock \/ (\E p \in Pods : Crash(p)) \/ UNCHANGED vars
  <2>1. Stranded' \subseteq Stranded /\ Forgotten' \subseteq Forgotten /\ UNCHANGED faults
    BY <1>0, <1>2, EnvironmentStrands
  <2>2. IsFiniteSet(Stranded') /\ Cardinality(Stranded') <= faults'
    BY <1>0, <2>1, Counted DEF LossInv
  <2>3. IsFiniteSet(Forgotten') /\ Cardinality(Forgotten') <= faults'
    BY <1>0, <2>1, Counted DEF LossInv
  <2> QED BY <2>2, <2>3 DEF LossInv
<1> QED BY <1>1, <1>2 DEF Next

LEMMA LossHolds == Spec => []LossInv
<1>1. Init => LossInv
  <2> SUFFICES ASSUME Init PROVE LossInv OBVIOUS
  <2>1. Stranded = {} /\ Forgotten = {} /\ faults = 0
    BY DEF Init, IdemInit, WalletInit, Stranded, Forgotten
  <2> QED BY <2>1, FS_EmptySet DEF LossInv
<1> QED BY <1>1, LossNext, Inductive, PTL DEF Spec

\* A claim is left behind only by a failed call, one for each, or by the death of
\* its own request (ReleaseClaim and SaveResult on every way out of Bet), for any
\* number of requests, processes, rounds and deaths.
THEOREM NoClaimLeft == Spec => []ClaimsResolved
<1>1. LossInv => ClaimsResolved
  BY DEF LossInv, ClaimsResolved
<1> QED BY <1>1, LossHolds, PTL

\* Who was told an error does nothing more for the round.
ErrorsEnd ==
    \A h \in Handlers : resp[h] = "error" => pc[h] \in {"release", "unlock"} \cup Ended

FreedIsRefused ==
    \A r \in Rounds :
        bets[r] > 0 /\ claim[r] = "none" => \E h \in Handlers : RoundOf[h] = r /\ resp[h] = "error"

\* Only a step that tells an error frees a round.
LEMMA StepFrees ==
    ASSUME IInv, ErrorsEnd, FreedIsRefused, NEW h \in Handlers, Step(h)
    PROVE  ErrorsEnd' /\ FreedIsRefused'
<1> DEFINE r == RoundOf[h]
           To(s, a) == pc' = [pc EXCEPT ![h] = s] /\ resp' = [resp EXCEPT ![h] = a]
           Told == {"release", "unlock"} \cup Ended
<1> USE DEF idemVars, walletVars, Fault
<1>0. /\ TypeOK /\ Composed
      /\ pc \in [Handlers -> Steps] /\ resp \in [Handlers -> Answers \cup {"none", "error"}]
  BY DEF IInv, RoundInv, TypeOK, BetTypeOK
<1>1. \A s : Goto(h, s) => To(s, resp[h])
  BY <1>0 DEF Goto
<1>2. \A s, a : Respond(h, a, s) => To(s, a)
  BY DEF Respond
<1>3. ASSUME NEW s, NEW a, To(s, a), a = "error" => s \in Told,
             resp[h] = "error" => a = "error",
             UNCHANGED claim \/ claim'[r] # "none" \/ a = "error",
             UNCHANGED bets \/ (claim[r] # "none" /\ UNCHANGED claim)
      PROVE  ErrorsEnd' /\ FreedIsRefused'
  <2>1. /\ pc'[h] = s /\ resp'[h] = a
        /\ \A g \in Handlers \ {h} : pc'[g] = pc[g] /\ resp'[g] = resp[g]
    BY <1>0, <1>3
  <2>2. ErrorsEnd'
    BY <1>3, <2>1 DEF ErrorsEnd
  <2>3. ASSUME NEW q \in Rounds, bets'[q] > 0, claim'[q] = "none"
        PROVE  \E g \in Handlers : RoundOf[g] = q /\ resp'[g] = "error"
    <3>1. CASE q = r /\ a = "error"
      BY <2>1, <3>1
    <3>2. CASE ~(q = r /\ a = "error")
      <4>1. bets[q] > 0 /\ claim[q] = "none"
        BY <1>0, <1>3, <2>3, <3>2, StepRounds DEF RoundsKept
      <4>2. PICK g \in Handlers : RoundOf[g] = q /\ resp[g] = "error"
        BY <4>1 DEF FreedIsRefused
      <4> QED BY <1>3, <2>1, <4>2
    <3> QED BY <3>1, <3>2
  <2> QED BY <2>2, <2>3 DEF FreedIsRefused
<1>4. resp[h] = "error" => pc[h] \in Told
  BY DEF ErrorsEnd
<1>5. CASE CheckCache(h) \/ AcquireLock(h) \/ DoubleCheck(h) \/ ConsumeSequenceGet(h)
           \/ ConsumeSequenceSet(h) \/ AwaitResult(h) \/ LoadConfig(h) \/ Compute(h)
  <2>1. /\ UNCHANGED <<claim, bets>> /\ pc[h] \notin Told
        /\ \E s, a : To(s, a) /\ (a = "error" => s \in Told \/ resp[h] = "error")
    BY <1>0, <1>1, <1>2, <1>5 DEF CheckCache, AcquireLock, DoubleCheck, ConsumeSequenceGet,
       ConsumeSequenceSet, AwaitResult, LoadConfig, Compute, Ended, HasResult, Answers,
       TypeOK, IdemTypeOK, ResultValues
  <2> QED BY <1>3, <1>4, <2>1
<1>6. CASE PostBet(h) \/ InsertTx(h) \/ CreditWin(h) \/ RecordPendingOp(h)
           \/ MarkPending(h) \/ PostPendingWin(h) \/ Record(h)
  <2>1. /\ UNCHANGED <<claim, bets>> /\ pc[h] \notin Told
        /\ \E s, a : To(s, a) /\ (a = "error" => resp[h] = "error")
    BY <1>0, <1>1, <1>2, <1>6 DEF PostBet, InsertTx, CreditWin, WalletWin, RecordPendingOp,
       MarkPending, PostPendingWin, Record, Ended
  <2> QED BY <1>3, <1>4, <2>1
<1>7. CASE ReleaseToken(h) \/ ReleaseLock(h)
  <2>1. UNCHANGED <<claim, bets>> /\ \E s \in Told : To(s, resp[h])
    BY <1>0, <1>1, <1>7 DEF ReleaseToken, ReleaseLock, Ended
  <2> QED BY <1>3, <2>1
<1>8. CASE ClaimRound(h)
  <2>1. /\ UNCHANGED bets /\ pc[h] \notin Told
        /\ UNCHANGED claim \/ ClaimWithToken(r, TokenOf[h])
        /\ \E s, a : To(s, a) /\ (a = "error" => s \in Told \/ resp[h] = "error")
    BY <1>0, <1>1, <1>2, <1>8 DEF ClaimRound, ClaimTaken, Fails, Ended
  <2>2. ClaimWithToken(r, TokenOf[h]) => claim'[r] # "none"
    BY <1>0 DEF ClaimWithToken, TypeOK, IdemTypeOK
  <2> QED BY <1>3, <1>4, <2>1, <2>2
<1>9. CASE DebitBet(h)
  <2>1. /\ UNCHANGED claim /\ pc[h] = "bet" /\ pc[h] \notin Told
        /\ \E s : To(s, resp[h])
    BY <1>0, <1>1, <1>9 DEF DebitBet, Ended
  <2>2. claim[r] # "none"
    BY <2>1 DEF IInv, RoundInv, OwnerClaims, Owning
  <2> QED BY <1>3, <1>4, <2>1, <2>2
<1>10. CASE Unclaim(h)
  <2>1. UNCHANGED bets /\ To("release", "error")
    BY <1>2, <1>10 DEF Unclaim
  <2> QED BY <1>3, <2>1
<1>11. CASE Save(h)
  <2>1. /\ UNCHANGED bets /\ To("release", resp[h])
        /\ UNCHANGED claim \/ SaveResult(r, resp[h])
    BY <1>0, <1>1, <1>11 DEF Save, Fails, SaveResultHalf
  <2>2. SaveResult(r, resp[h]) => claim'[r] # "none"
    BY <1>0 DEF SaveResult, TypeOK, IdemTypeOK
  <2> QED BY <1>3, <2>1, <2>2
<1> QED BY <1>5, <1>6, <1>7, <1>8, <1>9, <1>10, <1>11 DEF Step

\* A debit whose claim is held is in pending_transactions, on its way there, or died
\* with its request, but for one round for each failed call; and a debited round is
\* free again only after a request of it was told an error (wallet.Bet and
\* PendingTx.Insert of Bet), for any number of requests, processes and rounds.
THEOREM NoDebitForgotten == Spec => []DebitsRemembered
<1>1. Init => ErrorsEnd /\ FreedIsRefused
  BY DEF Init, WalletInit, ErrorsEnd, FreedIsRefused
<1>2. IInv /\ ErrorsEnd /\ FreedIsRefused /\ [Next]_vars => ErrorsEnd' /\ FreedIsRefused'
  <2> SUFFICES ASSUME IInv, ErrorsEnd, FreedIsRefused, [Next]_vars
               PROVE  ErrorsEnd' /\ FreedIsRefused'
    OBVIOUS
  <2>1. CASE ExpireLock \/ (\E p \in Pods : Crash(p)) \/ UNCHANGED vars
    <3>1. /\ UNCHANGED <<claim, bets, resp>>
          /\ \A h \in Handlers : pc'[h] \in {pc[h], "crashed"}
      BY <2>1 DEF ExpireLock, Crash, vars, idemVars, walletVars, betVars, IInv, TypeOK, BetTypeOK
    <3> QED BY <3>1 DEF ErrorsEnd, FreedIsRefused, Ended
  <2> QED BY <2>1, StepFrees DEF Next
<1>3. LossInv /\ FreedIsRefused => DebitsRemembered
  BY DEF LossInv, FreedIsRefused, DebitsRemembered
<1> QED BY <1>1, <1>2, <1>3, Inductive, LossHolds, PTL DEF Spec

-----------------------------------------------------------------------------
(* The reconcilers *)

USE CompensationAssumption DEF CompensationAssumption

-----------------------------------------------------------------------------
(* What a worker knows of the row it works on *)

Tables == {"wallet_pending_ops", "pending_transactions"}
TableOf(w) == IF w \in OpWorkers THEN "wallet_pending_ops" ELSE "pending_transactions"
Retries(w, r) == IF w \in OpWorkers THEN pendOps[r].retry ELSE pendTx[r].retry

\* The rows a worker has listed, and the one it works on or worked on last.
InHand(w) == batch[w] \cup {row[w]}

\* It has a row, and takes the steps of its kind of loop only.
InPlace(w) ==
    /\ stage[w] \notin {"idle", "loop"} => row[w] \in Rows
    /\ w \in OpWorkers => stage[w] \notin {"check", "rollback", "ledgerRollback"}

\* The money has moved when it is booked, and the row is closed after that.
MoneyFirst(w) ==
    /\ stage[w] = "ledgerWin" => wins[row[w].round] > 0
    /\ stage[w] = "ledgerRollback" => refunds[row[w].round] > 0
    /\ stage[w] = "done" =>
          wins[row[w].round] > 0 \/ (w \in TxWorkers /\ refunds[row[w].round] > 0)
    /\ w \in OpWorkers /\ stage[w] = "done" /\ faults = 0 =>
          <<row[w].round, "WIN", "SUCCESS">> \in ledger

\* A copy of a row counts no more attempts than the row.
CopyIsOld(w) == \A x \in InHand(w) : x # NoRow => x.retry <= Retries(w, x.round)

GivesUp(w) ==
    /\ stage[w] \in {"dlq", "failed"} => row[w].retry >= MaxRetries
    /\ stage[w] = "failed" /\ faults = 0 => <<row[w].round, TableOf(w)>> \in dlq

WorkerOK(w) == InPlace(w) /\ MoneyFirst(w) /\ CopyIsOld(w) /\ GivesUp(w)

\* What CheckTransaction answers is what happened to the money.
StatusIsMoney ==
    \A r \in Rounds :
        /\ txStatus[r] = "settled" => wins[r] > 0
        /\ txStatus[r] = "rolled_back" => refunds[r] > 0
        /\ bets[r] > 0 => txStatus[r] # "not_found"

WorkInv ==
    /\ \A w \in Workers : WorkerOK(w)
    /\ StatusIsMoney /\ DoneOpIsPaid /\ DoneTxIsResolved /\ GivenUpIsReported

-----------------------------------------------------------------------------
(* How far a round has come *)

Unlisted(r) == refunds[r] = 0 /\ \A w \in TxWorkers : \A x \in InHand(w) : x.round # r

\* Nobody has heard of the round but a request that may yet give it back.
Untouched(r) == Unlisted(r) /\ pendTx[r].status = "none" /\ result[r] = "none"

\* The row of the round asks for the win, if it is still open.
AsksForWin(r) ==
    /\ pendTx[r].status # "none"
    /\ pendTx[r].status = "pending" => pendTx[r].phase = "win_pending"

Over     == {"release", "unlock", "done"}

\* The orphan loops keep away from a round while a request owns it.
OwnerAlone ==
    /\ \A r \in Rounds : claim[r] = "none" => Untouched(r)
    /\ \A h \in Handlers :
          /\ pc[h] \in Owning => Unlisted(RoundOf[h])
          /\ pc[h] \in NoRowYet => Untouched(RoundOf[h])
          /\ pc[h] \in Paying => bets[RoundOf[h]] > 0

\* The row follows its request, if no statement fails.
RowFollows ==
    faults = 0 =>
        \A h \in Handlers :
            /\ pc[h] \in Paying \ NoRowYet => pendTx[RoundOf[h]].status # "none"
            /\ pc[h] \in {"pendLedger", "save"} => AsksForWin(RoundOf[h])
            /\ pc[h] \in Over /\ resp[h] \in Answers => result[RoundOf[h]] # "none"

\* No copy of the row, and no worker, is after the bet of the round.
NotRefunding(w, r) ==
    /\ \A x \in InHand(w) : x.round = r => x.phase = "win_pending"
    /\ row[w].round = r => stage[w] \notin {"rollback", "ledgerRollback"}

\* A round with an answer is not refunded.
AnsweredKept ==
    faults = 0 =>
        \A r \in Rounds :
            result[r] # "none" =>
                /\ bets[r] > 0 /\ refunds[r] = 0 /\ AsksForWin(r)
                /\ \A w \in TxWorkers : NotRefunding(w, r)

\* Without deaths, a round with a row is answered or being worked on.
RowsAnswered ==
    faults = 0 /\ crashes = 0 =>
        /\ \A r \in Rounds :
              /\ refunds[r] = 0
              /\ pendTx[r].status # "none" =>
                    result[r] # "none" \/ \E h \in Handlers : RoundOf[h] = r /\ pc[h] \in Paying
        /\ \A w \in TxWorkers : \A x \in InHand(w) :
              x.round \in Rounds => result[x.round] # "none"

CaseInv ==
    /\ Composed /\ OwnerClaims /\ ClaimExclusive
    /\ OwnerAlone /\ RowFollows /\ AnsweredKept /\ RowsAnswered

CInv == CompTypeOK /\ WorkInv /\ CaseInv

-----------------------------------------------------------------------------
(* Types *)

LEMMA WorkerStoreType ==
    ASSUME StoreTypeOK, NEW r \in Rounds,
           \/ PostLedger(r, "WIN", "SUCCESS") \/ PostLedger(r, "ROLLBACK", "SUCCESS")
           \/ \E s \in {"done", "failed"} : MarkOp(r, s)
           \/ IncrementOpRetry(r) \/ IncrementTxRetry(r) \/ MarkTxDone(r) \/ MarkTxFailed(r)
    PROVE  StoreTypeOK'
<1> USE DEF StoreTypeOK, OpRows, TxRows, RowStatuses, Phases, LedgerKeys, EventKeys
<1>1. CASE PostLedger(r, "WIN", "SUCCESS") BY <1>1 DEF PostLedger
<1>2. CASE PostLedger(r, "ROLLBACK", "SUCCESS") BY <1>2 DEF PostLedger
<1>3. CASE \E s \in {"done", "failed"} : MarkOp(r, s) BY <1>3 DEF MarkOp
<1>4. CASE IncrementOpRetry(r) BY <1>4 DEF IncrementOpRetry
<1>5. CASE IncrementTxRetry(r) BY <1>5 DEF IncrementTxRetry
<1>6. CASE MarkTxDone(r) BY <1>6 DEF MarkTxDone, UpdatedTx
<1>7. CASE MarkTxFailed(r) BY <1>7 DEF MarkTxFailed, UpdatedTx
<1> QED BY <1>1, <1>2, <1>3, <1>4, <1>5, <1>6, <1>7

LEMMA WorkerWalletType ==
    ASSUME WalletTypeOK, NEW r \in Rounds, NEW o, WalletWin(r, o) \/ WalletRollback(r, o)
    PROVE  WalletTypeOK'
BY WalletOpsType DEF WalletTypeOK, TxStatuses, walletVars, WalletRollback

\* A row that a worker is on is a row of a round.
LEMMA RowOfRound ==
    ASSUME CInv, NEW w \in Workers, stage[w] \notin {"idle", "loop"}
    PROVE  row[w].round \in Rounds /\ row[w] \in Rows
BY DEF CInv, WorkInv, WorkerOK, InPlace, Rows

LEMMA ListedRows ==
    ASSUME StoreTypeOK
    PROVE  PendingOps \subseteq Rows /\ StalePending \subseteq Rows
BY DEF StoreTypeOK, OpRows, TxRows, Phases, PendingOps, StalePending, Rows

LEMMA CopiesTyped ==
    ASSUME CompTypeOK, NEW w \in Workers, NEW x \in InHand(w)
    PROVE  /\ x \in Rows \cup {NoRow}
           /\ x \in batch[w] => x \in Rows
           /\ x.round \in Rounds => x \in Rows
<1>1. batch[w] \subseteq Rows /\ row[w] \in Rows \cup {NoRow}
  BY DEF CompTypeOK
<1>2. NoRow.round \notin Rounds
  BY DEF NoRow
<1> HIDE DEF NoRow
<1> QED
  BY <1>1, <1>2 DEF InHand

\* The part of the types that is of the workers.
WorkTypes ==
    /\ stage \in [Workers -> Stages]
    /\ batch \in [Workers -> SUBSET Rows]
    /\ row \in [Workers -> Rows \cup {NoRow}]
    /\ dlq \subseteq Rounds \X Tables
    /\ restarts \in 0..MaxWorkerCrashes

LEMMA CompTypes ==
    /\ CompTypeOK <=> TypeOK /\ WorkTypes
    /\ CompTypeOK' <=> TypeOK' /\ WorkTypes'
BY DEF CompTypeOK, WorkTypes, Tables

\* What is no step of a request leaves the requests alone.
LEMMA BetRestType ==
    ASSUME TypeOK, UNCHANGED BetRest, UNCHANGED faults \/ Fault, WalletTypeOK', StoreTypeOK'
    PROVE  TypeOK'
<1>1. BetTypeOK'
  BY DEF BetRest, TypeOK, BetTypeOK, Fault
<1>2. LockTypeOK' /\ IdemTypeOK' /\ SessionTypeOK'
  BY TypeFrame DEF BetRest, TypeOK
<1> QED
  BY <1>1, <1>2 DEF TypeOK

\* The store and the wallet under any step of a worker.
LEMMA WorkerBetTypes ==
    ASSUME CInv, NEW w \in Workers, WorkerStep(w)
    PROVE  TypeOK'
<1> DEFINE r == row[w].round
<1>1. TypeOK
  BY DEF CInv, CompTypeOK
<1>2. stage[w] \notin {"idle", "loop"} => r \in Rounds
  BY RowOfRound
<1>3. CASE UNCHANGED vars
  BY <1>1, <1>3, TypeFrame DEF vars, betVars, TypeOK, BetTypeOK
<1>4. CASE RetryWin(w) \/ RollbackBet(w)
  <2>1. WalletTypeOK'
    BY <1>1, <1>2, <1>4, WorkerWalletType DEF RetryWin, RollbackBet, TypeOK
  <2>2. UNCHANGED <<BetRest, storeVars, faults>>
    BY <1>4 DEF RetryWin, RollbackBet, Answered
  <2> QED
    BY <1>1, <2>1, <2>2, BetRestType, TypeFrame DEF TypeOK
<1>5. CASE PostWin(w) \/ PostRollback(w) \/ MarkDone(w) \/ IncrementRetry(w) \/ MarkFailed(w)
  <2>1. PICK next : \/ Write(w, PostLedger(r, "WIN", "SUCCESS"), next)
                    \/ Write(w, PostLedger(r, "ROLLBACK", "SUCCESS"), next)
                    \/ \E s \in {"done", "failed"} : Write(w, MarkOp(r, s), next)
                    \/ Write(w, MarkTxDone(r), next) \/ Write(w, MarkTxFailed(r), next)
                    \/ Write(w, IncrementOpRetry(r), next) \/ Write(w, IncrementTxRetry(r), next)
    <3>1. CASE w \in OpWorkers
      BY <1>5, <3>1 DEF PostWin, PostRollback, MarkDone, IncrementRetry, MarkFailed
    <3>2. CASE w \notin OpWorkers
      BY <1>5, <3>2 DEF PostWin, PostRollback, MarkDone, IncrementRetry, MarkFailed
    <3> QED
      BY <3>1, <3>2
  <2>2. r \in Rounds
    BY <1>2, <1>5 DEF PostWin, PostRollback, MarkDone, IncrementRetry, MarkFailed
  <2> HIDE DEF r
  <2>3. StoreTypeOK' /\ (UNCHANGED faults \/ Fault) /\ UNCHANGED <<BetRest, walletVars>>
    BY <1>1, <2>1, <2>2, WorkerStoreType, TypeFrame DEF Write, Book, Fails, TypeOK
  <2> QED
    BY <1>1, <2>3, BetRestType, TypeFrame DEF TypeOK
<1>6. CASE PublishDLQ(w)
  <2>1. UNCHANGED <<BetRest, walletVars, storeVars>> /\ (UNCHANGED faults \/ Fault)
    BY <1>6 DEF PublishDLQ, Fails
  <2> QED
    BY <1>1, <2>1, BetRestType, TypeFrame DEF TypeOK
<1> QED
  BY <1>3, <1>4, <1>5, <1>6 DEF WorkerStep, List, TakeRow, EndOfBatch, CheckTransaction

LEMMA WorkerTypes ==
    ASSUME CInv, NEW w \in Workers, WorkerStep(w)
    PROVE  CompTypeOK'
<1>1. WorkTypes /\ TypeOK'
  BY WorkerBetTypes, CompTypes DEF CInv
<1>2. CASE List(w)
  <2>1. PendingOps \subseteq Rows /\ StalePending \subseteq Rows
    BY ListedRows DEF CInv, CompTypeOK, TypeOK
  <2>2. PICK rows \in SUBSET Rows : batch' = [batch EXCEPT ![w] = rows]
    BY <1>2, <2>1 DEF List
  <2> QED
    BY <1>1, <1>2, <2>2, CompTypes DEF List, WorkTypes, Stages
<1>3. CASE TakeRow(w)
  <2>1. PICK x \in batch[w] :
          /\ row' = [row EXCEPT ![w] = x]
          /\ batch' = [batch EXCEPT ![w] = @ \ {x}]
          /\ stage' = [stage EXCEPT ![w] =
                         IF x.retry >= MaxRetries THEN "dlq"
                         ELSE IF w \in OpWorkers THEN "win" ELSE "check"]
    BY <1>3 DEF TakeRow
  <2>2. stage' \in [Workers -> Stages]
    BY <1>1, <2>1 DEF WorkTypes, Stages
  <2>3. batch' \in [Workers -> SUBSET Rows] /\ row' \in [Workers -> Rows \cup {NoRow}]
    BY <1>1, <2>1 DEF WorkTypes
  <2> QED
    BY <1>1, <1>3, <2>2, <2>3, CompTypes DEF TakeRow, WorkTypes
<1>4. CASE EndOfBatch(w)
  BY <1>1, <1>4, CompTypes DEF EndOfBatch, WorkTypes, Stages
<1>5. ASSUME NEW s \in Stages, Proceed(w, s)
      PROVE  CompTypeOK'
  BY <1>1, <1>5, CompTypes DEF Proceed, WorkTypes
<1>6. CASE PublishDLQ(w)
  <2>1. row[w].round \in Rounds
    BY <1>6, RowOfRound DEF PublishDLQ
  <2>2. dlq' \subseteq Rounds \X Tables
    BY <1>1, <1>6, <2>1 DEF PublishDLQ, Fails, WorkTypes, Tables
  <2> QED
    BY <1>1, <1>6, <2>2, CompTypes DEF PublishDLQ, WorkTypes, Stages
<1> QED
  BY <1>2, <1>3, <1>4, <1>5, <1>6
  DEF WorkerStep, CheckTransaction, RetryWin, RollbackBet, PostWin, PostRollback, MarkDone,
      IncrementRetry, MarkFailed, Answered, Write, Stages

-----------------------------------------------------------------------------
(* What no step takes back *)

StoreGrows ==
    /\ ledger \subseteq ledger' /\ events \subseteq events'
    /\ \A r \in Rounds : /\ pendOps'[r].retry >= pendOps[r].retry
                         /\ pendTx'[r].retry >= pendTx[r].retry

WalletGrows ==
    \A r \in Rounds : /\ wins[r] > 0 => wins'[r] > 0
                      /\ refunds[r] > 0 => refunds'[r] > 0

Grows == StoreGrows /\ WalletGrows /\ dlq \subseteq dlq' /\ (faults' = 0 => faults = 0)

\* Rows that a step does not close.
RowsKept ==
    \A r \in Rounds :
        /\ pendOps'[r].status \in {"done", "failed"} => pendOps[r].status = pendOps'[r].status
        /\ pendTx'[r].status = "failed" => pendTx[r].status = "failed"
        /\ pendTx'[r].status = "done" =>
              pendTx[r].status = "done" \/ <<r, "settled">> \in events'

\* The statements of a request, and those of a worker that close no row.
OpenStatement(r) ==
    \/ UNCHANGED storeVars
    \/ \E type \in {"BET", "WIN", "ROLLBACK"}, s \in {"SUCCESS", "PENDING_RETRY"} :
          PostLedger(r, type, s)
    \/ InsertPendingTx(r) \/ InsertPendingOp(r) \/ MarkWinPending(r)
    \/ RecordSettled(r, r \in Winning)
    \/ IncrementOpRetry(r) \/ IncrementTxRetry(r)

LEMMA OpenStatements ==
    ASSUME StoreTypeOK, NEW r \in Rounds, OpenStatement(r)
    PROVE  StoreGrows /\ RowsKept
<1> USE DEF StoreTypeOK, OpRows, TxRows, StoreGrows, RowsKept
<1>1. CASE UNCHANGED storeVars BY <1>1 DEF storeVars
<1>2. CASE \E type \in {"BET", "WIN", "ROLLBACK"}, s \in {"SUCCESS", "PENDING_RETRY"} :
              PostLedger(r, type, s)
  BY <1>2 DEF PostLedger
<1>3. CASE InsertPendingTx(r) BY <1>3 DEF InsertPendingTx
<1>4. CASE InsertPendingOp(r) BY <1>4 DEF InsertPendingOp
<1>5. CASE MarkWinPending(r) BY <1>5 DEF MarkWinPending, UpdatedTx
<1>6. CASE RecordSettled(r, r \in Winning) BY <1>6 DEF RecordSettled, UpdatedTx
<1>7. CASE IncrementOpRetry(r) BY <1>7 DEF IncrementOpRetry
<1>8. CASE IncrementTxRetry(r) BY <1>8 DEF IncrementTxRetry
<1> QED BY <1>1, <1>2, <1>3, <1>4, <1>5, <1>6, <1>7, <1>8 DEF OpenStatement

LEMMA ClosingStatements ==
    ASSUME StoreTypeOK, NEW r \in Rounds,
           (\E s \in {"done", "failed"} : MarkOp(r, s)) \/ MarkTxDone(r) \/ MarkTxFailed(r)
    PROVE  StoreGrows
<1> USE DEF StoreTypeOK, OpRows, TxRows, StoreGrows
<1>1. CASE \E s \in {"done", "failed"} : MarkOp(r, s) BY <1>1 DEF MarkOp
<1>2. CASE MarkTxDone(r) BY <1>2 DEF MarkTxDone, UpdatedTx
<1>3. CASE MarkTxFailed(r) BY <1>3 DEF MarkTxFailed, UpdatedTx
<1> QED BY <1>1, <1>2, <1>3

\* What a call of the wallet leaves behind.
LEMMA WalletCalls ==
    ASSUME WalletTypeOK, StatusIsMoney, NEW r \in Rounds, NEW o,
           UNCHANGED walletVars \/ WalletBet(r, o) \/ WalletWin(r, o) \/ WalletRollback(r, o)
    PROVE  WalletGrows /\ StatusIsMoney'
<1> USE DEF WalletTypeOK, WalletGrows, StatusIsMoney, walletVars
<1>1. CASE UNCHANGED walletVars BY <1>1
<1>2. CASE WalletBet(r, o) BY <1>2 DEF WalletBet
<1>3. CASE WalletWin(r, o) BY <1>3 DEF WalletWin
<1>4. CASE WalletRollback(r, o) BY <1>4 DEF WalletRollback
<1> QED BY <1>1, <1>2, <1>3, <1>4

LEMMA WalletMoved ==
    ASSUME WalletTypeOK, NEW r \in Rounds
    PROVE  /\ WalletBet(r, "ok") => bets'[r] > 0
           /\ WalletWin(r, "ok") => wins'[r] > 0
           /\ WalletRollback(r, "ok") => refunds'[r] > 0
BY DEF WalletTypeOK, WalletBet, WalletWin, WalletRollback, Moves, walletVars

\* Closed rows stay accounted for under a step that closes none.
LEMMA TablesKept ==
    ASSUME TypeOK, TypeOK', DoneOpIsPaid, DoneTxIsResolved, GivenUpIsReported, Grows, RowsKept
    PROVE  DoneOpIsPaid' /\ DoneTxIsResolved' /\ GivenUpIsReported'
<1>1. \A r \in Rounds : /\ pendOps[r].retry \in Nat /\ pendOps'[r].retry \in Nat
                        /\ pendTx[r].retry \in Nat /\ pendTx'[r].retry \in Nat
  BY DEF TypeOK, StoreTypeOK, OpRows, TxRows
<1>2. DoneOpIsPaid'
  BY DEF DoneOpIsPaid, Grows, StoreGrows, WalletGrows, RowsKept
<1>3. DoneTxIsResolved'
  BY DEF DoneTxIsResolved, Grows, StoreGrows, WalletGrows, RowsKept
<1>4. GivenUpIsReported'
  <2> SUFFICES ASSUME NEW r \in Rounds
               PROVE  /\ pendOps'[r].status = "failed" =>
                            /\ pendOps'[r].retry >= MaxRetries
                            /\ faults' = 0 => <<r, "wallet_pending_ops">> \in dlq'
                      /\ pendTx'[r].status = "failed" =>
                            /\ pendTx'[r].retry >= MaxRetries
                            /\ faults' = 0 => <<r, "pending_transactions">> \in dlq'
    BY DEF GivenUpIsReported
  <2>1. /\ pendOps[r].status = "failed" =>
              pendOps[r].retry >= MaxRetries /\ (faults = 0 => <<r, "wallet_pending_ops">> \in dlq)
        /\ pendTx[r].status = "failed" =>
              pendTx[r].retry >= MaxRetries /\ (faults = 0 => <<r, "pending_transactions">> \in dlq)
    BY DEF GivenUpIsReported
  <2>2. /\ pendOps'[r].status = "failed" => pendOps[r].status = "failed"
        /\ pendTx'[r].status = "failed" => pendTx[r].status = "failed"
        /\ pendOps'[r].retry >= pendOps[r].retry /\ pendTx'[r].retry >= pendTx[r].retry
        /\ dlq \subseteq dlq' /\ (faults' = 0 => faults = 0)
    BY DEF Grows, StoreGrows, RowsKept
  <2> QED
    BY <1>1, <2>1, <2>2
<1> QED
  BY <1>2, <1>3, <1>4

\* A worker that does not move keeps what it knows.
LEMMA WorkerFrame ==
    ASSUME TypeOK, TypeOK', NEW w \in Workers, WorkerOK(w), Grows, WorkTypes,
           stage'[w] = stage[w], row'[w] = row[w], batch'[w] = batch[w]
    PROVE  WorkerOK(w)'
<1>1. InPlace(w)'
  BY DEF WorkerOK, InPlace
<1>2. stage[w] \notin {"idle", "loop"} => row[w].round \in Rounds
  BY DEF WorkerOK, InPlace, Rows
<1>3. MoneyFirst(w)'
  BY <1>2 DEF WorkerOK, MoneyFirst, Grows, StoreGrows, WalletGrows
<1>4. CopyIsOld(w)'
  <2> SUFFICES ASSUME NEW x \in InHand(w), x # NoRow
               PROVE  x.retry <= Retries(w, x.round)'
    BY DEF CopyIsOld, InHand
  <2>1. x.retry <= Retries(w, x.round)
    BY DEF WorkerOK, CopyIsOld
  <2>2. x.round \in Rounds /\ x.retry \in Nat
    BY DEF WorkTypes, InHand, Rows
  <2>3. /\ Retries(w, x.round) \in Nat /\ Retries(w, x.round)' \in Nat
        /\ Retries(w, x.round) <= Retries(w, x.round)'
    BY <2>2 DEF Retries, Grows, StoreGrows, TypeOK, StoreTypeOK, OpRows, TxRows
  <2> QED
    BY <2>1, <2>2, <2>3
<1>5. GivesUp(w)'
  BY DEF WorkerOK, GivesUp, TableOf, Grows
<1> QED
  BY <1>1, <1>3, <1>4, <1>5 DEF WorkerOK

-----------------------------------------------------------------------------
(* The invariant of the workers, under the steps of the bets *)

\* What one step of a request does to wallet, rows and faults.
LEMMA StepParts ==
    ASSUME NEW h \in Handlers, Step(h)
    PROVE  /\ OpenStatement(RoundOf[h])
           /\ \/ UNCHANGED walletVars
              \/ \E o \in WalletOutcomes : WalletBet(RoundOf[h], o) \/ WalletWin(RoundOf[h], o)
           /\ UNCHANGED faults \/ Fault
           /\ UNCHANGED crashes
<1> USE DEF OpenStatement, Fails, Book
<1>1. CASE \/ CheckCache(h) \/ AcquireLock(h) \/ DoubleCheck(h) \/ ConsumeSequenceGet(h)
           \/ ConsumeSequenceSet(h) \/ ClaimRound(h) \/ AwaitResult(h) \/ LoadConfig(h)
           \/ Unclaim(h) \/ Compute(h) \/ Save(h) \/ ReleaseToken(h) \/ ReleaseLock(h)
  BY <1>1 DEF CheckCache, AcquireLock, DoubleCheck, ConsumeSequenceGet, ConsumeSequenceSet,
      ClaimRound, AwaitResult, LoadConfig, Unclaim, Compute, Save, ReleaseToken, ReleaseLock
<1>2. CASE DebitBet(h) \/ CreditWin(h)
  BY <1>2 DEF DebitBet, CreditWin
<1>3. CASE PostBet(h) \/ PostPendingWin(h)
  BY <1>3 DEF PostBet, PostPendingWin
<1>4. CASE InsertTx(h) \/ RecordPendingOp(h) \/ MarkPending(h) \/ Record(h)
  BY <1>4 DEF InsertTx, RecordPendingOp, MarkPending, Record
<1> QED
  BY <1>1, <1>2, <1>3, <1>4 DEF Step

\* What the bets do beside the workers.
LEMMA BetsWork ==
    ASSUME CInv, TypeOK', Next, UNCHANGED compVars
    PROVE  WorkInv'
<1>1. TypeOK /\ WorkTypes
  BY CompTypes DEF CInv
<1>2. Grows /\ RowsKept /\ StatusIsMoney'
  <2>1. ASSUME NEW h \in Handlers, Step(h)
        PROVE  Grows /\ RowsKept /\ StatusIsMoney'
    <3>1. StoreGrows /\ RowsKept
      BY <1>1, <2>1, StepParts, OpenStatements DEF TypeOK
    <3>2. WalletGrows /\ StatusIsMoney'
      BY <1>1, <2>1, StepParts, WalletCalls DEF TypeOK, CInv, WorkInv
    <3>3. faults' = 0 => faults = 0
      BY <1>1, <2>1, StepParts DEF Fault, TypeOK, BetTypeOK
    <3> QED
      BY <3>1, <3>2, <3>3 DEF Grows, compVars
  <2>2. CASE ExpireLock \/ \E p \in Pods : Crash(p)
    <3>1. UNCHANGED <<walletVars, storeVars, faults>>
      BY <2>2 DEF ExpireLock, Crash
    <3> QED
      BY <1>1, <3>1
      DEF Grows, StoreGrows, WalletGrows, RowsKept, StatusIsMoney, compVars, walletVars, storeVars,
          CInv, WorkInv, TypeOK, StoreTypeOK, OpRows, TxRows
  <2> QED
    BY <2>1, <2>2 DEF Next
<1>3. \A w \in Workers : WorkerOK(w)'
  BY <1>1, <1>2, WorkerFrame DEF compVars, CInv, WorkInv
<1>4. DoneOpIsPaid' /\ DoneTxIsResolved' /\ GivenUpIsReported'
  BY <1>1, <1>2, TablesKept DEF CInv, WorkInv
<1> QED
  BY <1>2, <1>3, <1>4 DEF WorkInv

-----------------------------------------------------------------------------
(* The invariant of the workers, under their own steps *)

\* Nobody but w moves.
Alone(w) ==
    \A v \in Workers \ {w} :
        stage'[v] = stage[v] /\ row'[v] = row[v] /\ batch'[v] = batch[v]

LEMMA StepsAlone ==
    ASSUME CompTypeOK, NEW w \in Workers, WorkerStep(w)
    PROVE  Alone(w)
<1> USE DEF CompTypeOK, Alone
<1>1. CASE List(w) BY <1>1 DEF List
<1>2. CASE TakeRow(w) BY <1>2 DEF TakeRow
<1>3. CASE EndOfBatch(w) BY <1>3 DEF EndOfBatch
<1>4. ASSUME NEW s, Proceed(w, s) PROVE Alone(w) BY <1>4 DEF Proceed
<1>5. CASE PublishDLQ(w) BY <1>5 DEF PublishDLQ
<1> QED
  BY <1>1, <1>2, <1>3, <1>4, <1>5
  DEF WorkerStep, CheckTransaction, RetryWin, RollbackBet, PostWin, PostRollback, MarkDone,
      IncrementRetry, MarkFailed, Answered, Write

\* A worker goes on with the row it has.
LEMMA GoingOn ==
    ASSUME TypeOK, TypeOK', WorkTypes, NEW w \in Workers, WorkerOK(w), Grows,
           stage[w] \notin {"idle", "loop"}, NEW s \in Stages,
           stage'[w] = s, row'[w] = row[w], batch'[w] = batch[w],
           w \in OpWorkers => s \notin {"check", "rollback", "ledgerRollback"},
           s = "ledgerWin" => wins'[row[w].round] > 0,
           s = "ledgerRollback" => refunds'[row[w].round] > 0,
           s = "done" => wins'[row[w].round] > 0 \/ (w \in TxWorkers /\ refunds'[row[w].round] > 0),
           w \in OpWorkers /\ s = "done" /\ faults' = 0 =>
               <<row[w].round, "WIN", "SUCCESS">> \in ledger',
           s \in {"dlq", "failed"} => row[w].retry >= MaxRetries,
           s = "failed" /\ faults' = 0 => <<row[w].round, TableOf(w)>> \in dlq'
    PROVE  WorkerOK(w)'
<1>1. InPlace(w)'
  BY DEF WorkerOK, InPlace
<1>2. MoneyFirst(w)'
  BY DEF MoneyFirst
<1>3. CopyIsOld(w)'
  <2> SUFFICES ASSUME NEW x \in InHand(w), x # NoRow
               PROVE  x.retry <= Retries(w, x.round)'
    BY DEF CopyIsOld, InHand
  <2>1. x.retry <= Retries(w, x.round)
    BY DEF WorkerOK, CopyIsOld
  <2>2. x.round \in Rounds /\ x.retry \in Nat
    BY DEF WorkTypes, InHand, Rows
  <2>3. /\ Retries(w, x.round) \in Nat /\ Retries(w, x.round)' \in Nat
        /\ Retries(w, x.round) <= Retries(w, x.round)'
    BY <2>2 DEF Retries, Grows, StoreGrows, TypeOK, StoreTypeOK, OpRows, TxRows
  <2> QED
    BY <2>1, <2>2, <2>3
<1>4. GivesUp(w)'
  BY DEF GivesUp, TableOf
<1> QED
  BY <1>1, <1>2, <1>3, <1>4 DEF WorkerOK

\* What one step of a worker does to wallet, rows and faults.
LEMMA WorkerParts ==
    ASSUME CInv, NEW w \in Workers, WorkerStep(w)
    PROVE  /\ Grows /\ StatusIsMoney'
           /\ ~MarkDone(w) /\ ~MarkFailed(w) => RowsKept
<1> DEFINE r == row[w].round
<1>1. TypeOK /\ StoreTypeOK /\ WalletTypeOK /\ StatusIsMoney /\ faults \in Nat
  BY DEF CInv, CompTypeOK, TypeOK, BetTypeOK, WorkInv
<1>2. stage[w] \notin {"idle", "loop"} => r \in Rounds
  BY RowOfRound
<1> HIDE DEF r
<1>3. CASE UNCHANGED storeVars /\ UNCHANGED walletVars
  <2>1. StoreGrows /\ WalletGrows /\ RowsKept /\ StatusIsMoney'
    BY <1>1, <1>3
    DEF StoreGrows, WalletGrows, RowsKept, StatusIsMoney, walletVars, storeVars,
        StoreTypeOK, OpRows, TxRows
  <2>2. dlq \subseteq dlq' /\ (UNCHANGED faults \/ Fault)
    BY <1>3
    DEF WorkerStep, List, TakeRow, EndOfBatch, CheckTransaction, RetryWin, RollbackBet, PostWin,
        PostRollback, MarkDone, IncrementRetry, PublishDLQ, MarkFailed, Answered, Write, Book,
        Fails, Proceed, vars, betVars
  <2> QED
    BY <1>1, <2>1, <2>2 DEF Grows, Fault
<1>4. CASE RetryWin(w) \/ RollbackBet(w)
  <2>1. PICK o \in WalletOutcomes : WalletWin(r, o) \/ WalletRollback(r, o)
    BY <1>4 DEF RetryWin, RollbackBet, r
  <2>2. r \in Rounds /\ UNCHANGED <<storeVars, faults, dlq>>
    BY <1>2, <1>4 DEF RetryWin, RollbackBet, Answered, Proceed
  <2>3. WalletGrows /\ StatusIsMoney'
    BY <1>1, <2>1, <2>2, WalletCalls
  <2>4. StoreGrows /\ RowsKept
    BY <1>1, <2>2, OpenStatements DEF OpenStatement
  <2> QED
    BY <2>2, <2>3, <2>4 DEF Grows
<1>5. CASE PostWin(w) \/ PostRollback(w) \/ IncrementRetry(w)
  <2>1. /\ OpenStatement(r) /\ (UNCHANGED faults \/ Fault)
        /\ UNCHANGED <<walletVars, dlq>>
    BY <1>5
    DEF PostWin, PostRollback, IncrementRetry, Write, Book, Fails, Proceed, OpenStatement, r
  <2>2. r \in Rounds
    BY <1>2, <1>5 DEF PostWin, PostRollback, IncrementRetry
  <2>3. StoreGrows /\ RowsKept /\ WalletGrows /\ StatusIsMoney'
    BY <1>1, <2>1, <2>2, OpenStatements, WalletCalls
  <2> QED
    BY <1>1, <2>1, <2>3 DEF Grows, Fault
<1>6. CASE MarkDone(w) \/ MarkFailed(w)
  <2>1. /\ \/ UNCHANGED storeVars
           \/ (\E s \in {"done", "failed"} : MarkOp(r, s)) \/ MarkTxDone(r) \/ MarkTxFailed(r)
        /\ UNCHANGED faults \/ Fault
        /\ UNCHANGED <<walletVars, dlq>>
    BY <1>6 DEF MarkDone, MarkFailed, Write, Book, Fails, Proceed, r
  <2>2. r \in Rounds
    BY <1>2, <1>6 DEF MarkDone, MarkFailed
  <2>3. StoreGrows /\ WalletGrows /\ StatusIsMoney'
    BY <1>1, <2>1, <2>2, OpenStatements, ClosingStatements, WalletCalls DEF OpenStatement
  <2> QED
    BY <1>1, <1>6, <2>1, <2>3 DEF Grows, Fault
<1> QED
  BY <1>3, <1>4, <1>5, <1>6
  DEF WorkerStep, List, TakeRow, EndOfBatch, CheckTransaction, PublishDLQ, vars

\* What the worker knows after its step.
LEMMA WorkerKnows ==
    ASSUME CInv, TypeOK', NEW w \in Workers, WorkerStep(w)
    PROVE  WorkerOK(w)'
<1> DEFINE r == row[w].round
<1>1. TypeOK /\ WorkTypes /\ WorkerOK(w) /\ StatusIsMoney
  BY CompTypes DEF CInv, WorkInv
<1>2. Grows
  BY WorkerParts
<1>3. stage[w] \notin {"idle", "loop"} => r \in Rounds /\ row[w] \in Rows
  BY RowOfRound
<1>4. stage[w] \in {"check", "rollback", "ledgerRollback"} => w \in TxWorkers \ OpWorkers
  BY <1>1 DEF WorkerOK, InPlace, Workers
<1>g. ASSUME NEW s \in Stages \ {"dlq", "failed"}, stage[w] \notin {"idle", "loop"}, Proceed(w, s),
             w \in OpWorkers => s \notin {"check", "rollback", "ledgerRollback"},
             s = "ledgerWin" => wins'[r] > 0,
             s = "ledgerRollback" => refunds'[r] > 0,
             s = "done" => wins'[r] > 0 \/ (w \in TxWorkers /\ refunds'[r] > 0),
             w \in OpWorkers /\ s = "done" /\ faults' = 0 => <<r, "WIN", "SUCCESS">> \in ledger'
      PROVE  WorkerOK(w)'
  <2>1. stage'[w] = s /\ row'[w] = row[w] /\ batch'[w] = batch[w]
    BY <1>1, <1>g DEF Proceed, WorkTypes
  <2> QED
    BY <1>1, <1>2, <1>g, <2>1, GoingOn
<1>5. CASE List(w)
  <2> DEFINE rows == IF w \in OpWorkers THEN PendingOps ELSE StalePending
  <2>1. stage'[w] = "loop" /\ row'[w] = row[w] /\ batch'[w] = rows
    BY <1>1, <1>5 DEF List, WorkTypes
  <2>2. UNCHANGED <<pendOps, pendTx, vars>>
    BY <1>5 DEF List, vars, storeVars
  <2>3. ASSUME NEW x \in rows
        PROVE  x.retry <= Retries(w, x.round)
    <3>1. x.retry = Retries(w, x.round) /\ x.retry \in Nat
      BY <1>1 DEF PendingOps, StalePending, Retries, TypeOK, StoreTypeOK, OpRows, TxRows
    <3> QED
      BY <3>1
  <2>4. CopyIsOld(w)'
    BY <1>1, <2>1, <2>2, <2>3 DEF CopyIsOld, InHand, WorkerOK, Retries
  <2> QED
    BY <2>1, <2>4 DEF WorkerOK, InPlace, MoneyFirst, GivesUp
<1>6. CASE TakeRow(w)
  <2>1. PICK x \in batch[w] :
          /\ row' = [row EXCEPT ![w] = x]
          /\ batch' = [batch EXCEPT ![w] = @ \ {x}]
          /\ stage' = [stage EXCEPT ![w] =
                         IF x.retry >= MaxRetries THEN "dlq"
                         ELSE IF w \in OpWorkers THEN "win" ELSE "check"]
    BY <1>6 DEF TakeRow
  <2>2. /\ row'[w] = x /\ x \in Rows /\ InHand(w)' \subseteq InHand(w)
        /\ stage'[w] \in {"dlq", "win", "check"}
        /\ stage'[w] = "dlq" => x.retry >= MaxRetries
        /\ stage'[w] = "check" => w \notin OpWorkers
    BY <1>1, <2>1 DEF WorkTypes, InHand
  <2>3. UNCHANGED <<pendOps, pendTx>>
    BY <1>6 DEF TakeRow, vars, storeVars
  <2>4. CopyIsOld(w)'
    BY <1>1, <2>2, <2>3 DEF CopyIsOld, WorkerOK, Retries
  <2> QED
    BY <2>2, <2>4 DEF WorkerOK, InPlace, MoneyFirst, GivesUp
<1>7. CASE EndOfBatch(w)
  <2>1. stage'[w] = "idle" /\ row'[w] = NoRow /\ batch'[w] = {}
    BY <1>1, <1>7 DEF EndOfBatch, WorkTypes
  <2> QED
    BY <2>1 DEF WorkerOK, InPlace, MoneyFirst, GivesUp, CopyIsOld, InHand
<1>8. CASE CheckTransaction(w)
  <2>1. stage[w] = "check" /\ UNCHANGED <<wins, refunds>>
    BY <1>8 DEF CheckTransaction, vars, walletVars
  <2>2. PICK s \in {"done", "win", "rollback", "bump"} :
          Proceed(w, s) /\ (s = "done" => txStatus[r] \in {"settled", "rolled_back"})
    BY <1>8 DEF CheckTransaction
  <2>3. s = "done" => wins[r] > 0 \/ refunds[r] > 0
    BY <1>1, <1>3, <2>1, <2>2 DEF StatusIsMoney
  <2> QED
    BY <1>3, <1>4, <1>g, <2>1, <2>2, <2>3 DEF Stages
<1>9. CASE RetryWin(w)
  <2>1. PICK o \in WalletOutcomes : WalletWin(r, o) /\ Answered(w, o, "ledgerWin")
    BY <1>9 DEF RetryWin
  <2>2. stage[w] = "win" /\ Proceed(w, IF o = "ok" THEN "ledgerWin" ELSE "bump")
    BY <1>9, <2>1 DEF RetryWin, Answered
  <2>3. o = "ok" => wins'[r] > 0
    BY <1>1, <1>3, <2>1, <2>2, WalletMoved DEF TypeOK
  <2> QED
    BY <1>3, <1>g, <2>2, <2>3 DEF Stages
<1>10. CASE RollbackBet(w)
  <2>1. PICK o \in WalletOutcomes : WalletRollback(r, o) /\ Answered(w, o, "ledgerRollback")
    BY <1>10 DEF RollbackBet
  <2>2. stage[w] = "rollback" /\ Proceed(w, IF o = "ok" THEN "ledgerRollback" ELSE "bump")
    BY <1>10, <2>1 DEF RollbackBet, Answered
  <2>3. o = "ok" => refunds'[r] > 0
    BY <1>1, <1>3, <2>1, <2>2, WalletMoved DEF TypeOK
  <2> QED
    BY <1>3, <1>4, <1>g, <2>2, <2>3 DEF Stages
<1>11. CASE PostWin(w)
  <2>1. stage[w] = "ledgerWin" /\ Proceed(w, "done")
    BY <1>11 DEF PostWin, Write
  <2>2. wins'[r] > 0
    BY <1>1, <1>2, <1>3, <2>1 DEF WorkerOK, MoneyFirst, Grows, WalletGrows
  <2>3. faults' = 0 => <<r, "WIN", "SUCCESS">> \in ledger'
    BY <1>1, <1>11 DEF PostWin, Write, Book, Fails, Fault, PostLedger, TypeOK, BetTypeOK
  <2> QED
    BY <1>3, <1>g, <2>1, <2>2, <2>3 DEF Stages
<1>12. CASE PostRollback(w)
  <2>1. stage[w] = "ledgerRollback" /\ Proceed(w, "done")
    BY <1>12 DEF PostRollback, Write
  <2>2. refunds'[r] > 0
    BY <1>1, <1>2, <1>3, <2>1 DEF WorkerOK, MoneyFirst, Grows, WalletGrows
  <2> QED
    BY <1>3, <1>4, <1>g, <2>1, <2>2 DEF Stages
<1>13. CASE MarkDone(w) \/ IncrementRetry(w) \/ MarkFailed(w)
  <2>1. stage[w] \in {"done", "bump", "failed"} /\ Proceed(w, "loop")
    BY <1>13 DEF MarkDone, IncrementRetry, MarkFailed, Write
  <2> QED
    BY <1>3, <1>g, <2>1 DEF Stages
<1>14. CASE PublishDLQ(w)
  <2>1. stage[w] = "dlq" /\ stage'[w] = "failed" /\ row'[w] = row[w] /\ batch'[w] = batch[w]
    BY <1>1, <1>14 DEF PublishDLQ, WorkTypes
  <2>2. faults' = 0 => <<r, TableOf(w)>> \in dlq'
    BY <1>1, <1>14 DEF PublishDLQ, Fails, Fault, TableOf, TypeOK, BetTypeOK
  <2>3. row[w].retry >= MaxRetries
    BY <1>1, <2>1 DEF WorkerOK, GivesUp
  <2> QED
    BY <1>1, <1>2, <1>3, <2>1, <2>2, <2>3, GoingOn DEF Stages
<1> QED
  BY <1>5, <1>6, <1>7, <1>8, <1>9, <1>10, <1>11, <1>12, <1>13, <1>14 DEF WorkerStep

\* What a worker closes is resolved, or given up after all its attempts.
LEMMA RowsClosed ==
    ASSUME CInv, TypeOK', NEW w \in Workers, MarkDone(w) \/ MarkFailed(w)
    PROVE  DoneOpIsPaid' /\ DoneTxIsResolved' /\ GivenUpIsReported'
<1> DEFINE r == row[w].round
<1>1. /\ TypeOK /\ WorkerOK(w) /\ DoneOpIsPaid /\ DoneTxIsResolved /\ GivenUpIsReported
      /\ faults \in Nat
  BY CompTypes DEF CInv, WorkInv, TypeOK, BetTypeOK
<1>2. Grows /\ UNCHANGED <<walletVars, dlq>>
  <2>1. WorkerStep(w)
    BY DEF WorkerStep
  <2> QED
    BY <2>1, WorkerParts DEF MarkDone, MarkFailed, Write, Proceed
<1>3. r \in Rounds /\ row[w] \in Rows
  BY RowOfRound DEF MarkDone, MarkFailed
<1>4. CASE UNCHANGED storeVars
  <2>1. RowsKept
    BY <1>1, <1>4 DEF RowsKept, storeVars
  <2> QED
    BY <1>1, <1>2, <2>1, TablesKept
<1>5. CASE MarkDone(w) /\ w \in OpWorkers /\ MarkOp(r, "done")
  <2>1. wins'[r] > 0 /\ (faults' = 0 => <<r, "WIN", "SUCCESS">> \in ledger')
    BY <1>1, <1>2, <1>5
    DEF MarkDone, WorkerOK, MoneyFirst, walletVars, Grows, StoreGrows, Workers
  <2>2. /\ pendOps' = [pendOps EXCEPT ![r] = [status |-> "done", retry |-> pendOps[r].retry]]
        /\ UNCHANGED <<pendTx, ledger, events, wins, refunds, dlq>>
    BY <1>2, <1>5 DEF MarkOp, walletVars
  <2>3. (faults' = 0 => faults = 0) /\ pendOps \in [Rounds -> OpRows]
    BY <1>1, <1>2 DEF Grows, TypeOK, StoreTypeOK
  <2> QED
    BY <1>1, <2>1, <2>2, <2>3 DEF DoneOpIsPaid, DoneTxIsResolved, GivenUpIsReported
<1>6. CASE MarkDone(w) /\ w \notin OpWorkers /\ MarkTxDone(r)
  <2>1. wins'[r] > 0 \/ refunds'[r] > 0
    BY <1>1, <1>2, <1>6 DEF MarkDone, WorkerOK, MoneyFirst, walletVars
  <2>2. /\ pendTx' = UpdatedTx(r, "done", "settled")
        /\ UNCHANGED <<pendOps, ledger, events, wins, refunds, dlq>>
    BY <1>2, <1>6 DEF MarkTxDone, walletVars
  <2>3. (faults' = 0 => faults = 0) /\ pendTx \in [Rounds -> TxRows]
    BY <1>1, <1>2 DEF Grows, TypeOK, StoreTypeOK
  <2> QED
    BY <1>1, <2>1, <2>2, <2>3 DEF DoneOpIsPaid, DoneTxIsResolved, GivenUpIsReported, UpdatedTx
<1>7. CASE MarkFailed(w) /\ w \in OpWorkers /\ MarkOp(r, "failed")
  <2>1. row[w].retry >= MaxRetries /\ row[w].retry <= pendOps[r].retry
    BY <1>1, <1>3, <1>7 DEF MarkFailed, WorkerOK, GivesUp, CopyIsOld, InHand, Retries, NoRow
  <2>2. faults' = 0 => <<r, "wallet_pending_ops">> \in dlq
    BY <1>1, <1>2, <1>7 DEF MarkFailed, WorkerOK, GivesUp, TableOf, Grows
  <2>3. /\ pendOps' = [pendOps EXCEPT ![r] = [status |-> "failed", retry |-> pendOps[r].retry]]
        /\ UNCHANGED <<pendTx, ledger, events, wins, refunds, dlq>>
    BY <1>2, <1>7 DEF MarkOp, walletVars
  <2>4. /\ (faults' = 0 => faults = 0) /\ pendOps \in [Rounds -> OpRows]
        /\ row[w].retry \in Nat /\ pendOps[r].retry \in Nat
    BY <1>1, <1>2, <1>3 DEF Grows, TypeOK, StoreTypeOK, OpRows, Rows
  <2>5. pendOps[r].retry >= MaxRetries
    BY <2>1, <2>4
  <2> QED
    BY <1>1, <2>2, <2>3, <2>4, <2>5 DEF DoneOpIsPaid, DoneTxIsResolved, GivenUpIsReported
<1>8. CASE MarkFailed(w) /\ w \notin OpWorkers /\ MarkTxFailed(r)
  <2>1. row[w].retry >= MaxRetries /\ row[w].retry <= pendTx[r].retry
    BY <1>1, <1>3, <1>8 DEF MarkFailed, WorkerOK, GivesUp, CopyIsOld, InHand, Retries, NoRow
  <2>2. faults' = 0 => <<r, "pending_transactions">> \in dlq
    BY <1>1, <1>2, <1>8 DEF MarkFailed, WorkerOK, GivesUp, TableOf, Grows
  <2>3. /\ pendTx' = UpdatedTx(r, "failed", pendTx[r].phase)
        /\ UNCHANGED <<pendOps, ledger, events, wins, refunds, dlq>>
    BY <1>2, <1>8 DEF MarkTxFailed, walletVars
  <2>4. /\ (faults' = 0 => faults = 0) /\ pendTx \in [Rounds -> TxRows]
        /\ row[w].retry \in Nat /\ pendTx[r].retry \in Nat
    BY <1>1, <1>2, <1>3 DEF Grows, TypeOK, StoreTypeOK, TxRows, Rows
  <2>5. pendTx[r].retry >= MaxRetries
    BY <2>1, <2>4
  <2> QED
    BY <1>1, <2>2, <2>3, <2>4, <2>5
    DEF DoneOpIsPaid, DoneTxIsResolved, GivenUpIsReported, UpdatedTx
<1> QED
  BY <1>4, <1>5, <1>6, <1>7, <1>8 DEF MarkDone, MarkFailed, Write, Book, Fails

LEMMA WorkersWork ==
    ASSUME CInv, TypeOK', NEW w \in Workers, WorkerStep(w)
    PROVE  WorkInv'
<1>1. TypeOK /\ WorkTypes /\ Grows /\ StatusIsMoney'
  BY CompTypes, WorkerParts DEF CInv
<1>2. WorkerOK(w)' /\ Alone(w)
  BY WorkerKnows, StepsAlone DEF CInv
<1>3. ASSUME NEW v \in Workers \ {w}
      PROVE  WorkerOK(v)'
  BY <1>1, <1>2, WorkerFrame DEF Alone, CInv, WorkInv
<1>4. DoneOpIsPaid' /\ DoneTxIsResolved' /\ GivenUpIsReported'
  <2>1. CASE MarkDone(w) \/ MarkFailed(w)
    BY <2>1, RowsClosed
  <2>2. CASE ~MarkDone(w) /\ ~MarkFailed(w)
    BY <1>1, <2>2, WorkerParts, TablesKept DEF CInv, WorkInv
  <2> QED
    BY <2>1, <2>2
<1> QED
  BY <1>1, <1>2, <1>3, <1>4 DEF WorkInv

LEMMA RestartWorks ==
    ASSUME CInv, Restart
    PROVE  CompTypeOK' /\ WorkInv'
<1>1. TypeOK /\ WorkTypes
  BY CompTypes DEF CInv
<1>2. /\ UNCHANGED <<vars, dlq>> /\ stage' = [w \in Workers |-> "idle"]
      /\ batch' = [w \in Workers |-> {}] /\ row' = [w \in Workers |-> NoRow]
  BY DEF Restart
<1>3. TypeOK'
  BY <1>1, <1>2, TypeFrame DEF vars, betVars, TypeOK, BetTypeOK
<1>4. WorkTypes'
  BY <1>1, <1>2 DEF Restart, WorkTypes, Stages
<1>5. \A w \in Workers : WorkerOK(w)'
  BY <1>2 DEF WorkerOK, InPlace, MoneyFirst, CopyIsOld, GivesUp, InHand
<1>6. StatusIsMoney' /\ DoneOpIsPaid' /\ DoneTxIsResolved' /\ GivenUpIsReported'
  BY <1>2
  DEF vars, betVars, walletVars, storeVars, CInv, WorkInv, StatusIsMoney, DoneOpIsPaid,
      DoneTxIsResolved, GivenUpIsReported
<1> QED
  BY <1>3, <1>4, <1>5, <1>6, CompTypes DEF WorkInv

-----------------------------------------------------------------------------
(* The rounds, under the steps of the workers *)

\* A step of the workers, or of the environment, that keeps answers and
\* claims, opens no row, lists none and sends nobody after a bet.
CalmStep ==
    /\ UNCHANGED <<pc, resp, claim, result, bets, refunds, crashes>>
    /\ faults' = 0 => faults = 0
    /\ \A r \in Rounds :
          /\ pendTx'[r].status = "none" <=> pendTx[r].status = "none"
          /\ pendTx'[r].status = "pending" =>
                pendTx[r].status = "pending" /\ pendTx'[r].phase = pendTx[r].phase
    /\ \A w \in TxWorkers :
          /\ InHand(w)' \subseteq InHand(w) \cup {NoRow}
          /\ row'[w].round \in Rounds /\ stage'[w] \in {"rollback", "ledgerRollback"} =>
                \/ row'[w] = row[w] /\ stage[w] \in {"rollback", "ledgerRollback"}
                \/ faults # 0 \/ result[row'[w].round] = "none"

LEMMA CalmKeeps ==
    ASSUME CInv, CalmStep
    PROVE  CaseInv'
<1>1. Composed' /\ OwnerClaims' /\ ClaimExclusive'
  BY DEF CalmStep, CInv, CaseInv, Composed, OwnerClaims, ClaimExclusive
<1>2. NoRow.round \notin Rounds
  BY DEF NoRow
<1> HIDE DEF NoRow
<1>3. \A r \in Rounds : (Unlisted(r) => Unlisted(r)') /\ (Untouched(r) => Untouched(r)')
  BY <1>2 DEF CalmStep, Unlisted, Untouched
<1>4. \A r \in Rounds : AsksForWin(r) => AsksForWin(r)'
  BY DEF CalmStep, AsksForWin
<1>5. OwnerAlone'
  BY <1>3 DEF CalmStep, CInv, CaseInv, OwnerAlone
<1>6. RowFollows'
  BY <1>4 DEF CalmStep, CInv, CaseInv, RowFollows
<1>7. AnsweredKept'
  <2> SUFFICES ASSUME faults = 0, NEW r \in Rounds, result[r] # "none"
               PROVE  /\ bets'[r] > 0 /\ refunds'[r] = 0 /\ AsksForWin(r)'
                      /\ \A w \in TxWorkers : NotRefunding(w, r)'
    BY DEF CalmStep, AnsweredKept
  <2>1. /\ bets[r] > 0 /\ refunds[r] = 0 /\ AsksForWin(r)
        /\ \A w \in TxWorkers : NotRefunding(w, r)
    BY DEF CInv, CaseInv, AnsweredKept
  <2>2. ASSUME NEW w \in TxWorkers
        PROVE  NotRefunding(w, r)'
    BY <1>2, <2>1 DEF CalmStep, NotRefunding
  <2> QED
    BY <1>4, <2>1, <2>2 DEF CalmStep
<1>8. RowsAnswered'
  BY <1>2 DEF CalmStep, CInv, CaseInv, RowsAnswered
<1> QED
  BY <1>1, <1>5, <1>6, <1>7, <1>8 DEF CaseInv

\* What a worker's step leaves alone.
LEMMA WorkersApart ==
    ASSUME CInv, NEW w \in Workers, WorkerStep(w)
    PROVE  /\ UNCHANGED <<pc, resp, claim, result, bets, crashes>>
           /\ ~RollbackBet(w) => UNCHANGED refunds
           /\ faults' = 0 => faults = 0
<1>1. UNCHANGED <<pc, resp, claim, result, bets, crashes>>
  <2>1. CASE \/ List(w) \/ TakeRow(w) \/ EndOfBatch(w) \/ CheckTransaction(w)
    BY <2>1
    DEF List, TakeRow, EndOfBatch, CheckTransaction, vars, betVars, idemVars, walletVars
  <2>2. CASE RetryWin(w) \/ RollbackBet(w)
    BY <2>2
    DEF RetryWin, RollbackBet, Answered, BetRest, idemVars, WalletWin, WalletRollback, walletVars
  <2>3. CASE \/ PostWin(w) \/ PostRollback(w) \/ MarkDone(w) \/ IncrementRetry(w)
             \/ PublishDLQ(w) \/ MarkFailed(w)
    BY <2>3
    DEF PostWin, PostRollback, MarkDone, IncrementRetry, PublishDLQ, MarkFailed, Write, BetRest,
        idemVars, walletVars
  <2> QED
    BY <2>1, <2>2, <2>3 DEF WorkerStep
<1>2. ~RollbackBet(w) => UNCHANGED refunds
  BY DEF WorkerStep, List, TakeRow, EndOfBatch, CheckTransaction, vars, walletVars, RetryWin,
         WalletWin, PostWin, PostRollback, MarkDone, IncrementRetry, PublishDLQ, MarkFailed, Write
<1>3. faults' = 0 => faults = 0
  BY WorkerParts DEF Grows
<1> QED
  BY <1>1, <1>2, <1>3

\* The row of a round is changed as CalmStep says.
LEMMA WorkersRows ==
    ASSUME CInv, NEW w \in Workers, WorkerStep(w), NEW q \in Rounds
    PROVE  /\ pendTx'[q].status = "none" <=> pendTx[q].status = "none"
           /\ pendTx'[q].status = "pending" =>
                 pendTx[q].status = "pending" /\ pendTx'[q].phase = pendTx[q].phase
<1> DEFINE r == row[w].round
<1>1. pendTx \in [Rounds -> TxRows]
  BY DEF CInv, CompTypeOK, TypeOK, StoreTypeOK
<1>2. stage[w] \notin {"idle", "loop"} => r \in Rounds
  BY RowOfRound
<1>3. CASE UNCHANGED pendTx
  BY <1>3
<1>4. CASE stage[w] \notin {"idle", "loop"} /\ (MarkTxDone(r) \/ MarkTxFailed(r) \/ IncrementTxRetry(r))
  <2>1. CASE MarkTxDone(r)
    BY <1>1, <1>2, <1>4, <2>1 DEF MarkTxDone, UpdatedTx, TxRows
  <2>2. CASE MarkTxFailed(r)
    BY <1>1, <1>2, <1>4, <2>2 DEF MarkTxFailed, UpdatedTx, TxRows
  <2>3. CASE IncrementTxRetry(r)
    BY <1>1, <1>2, <1>4, <2>3 DEF IncrementTxRetry, TxRows
  <2> QED
    BY <1>4, <2>1, <2>2, <2>3
<1> QED
  <2>1. CASE \/ List(w) \/ TakeRow(w) \/ EndOfBatch(w) \/ CheckTransaction(w)
             \/ RetryWin(w) \/ RollbackBet(w) \/ PublishDLQ(w)
    BY <1>3, <2>1
    DEF List, TakeRow, EndOfBatch, CheckTransaction, RetryWin, RollbackBet, PublishDLQ, Answered,
        vars, storeVars
  <2>2. CASE PostWin(w) \/ PostRollback(w)
    BY <1>3, <2>2 DEF PostWin, PostRollback, Write, Book, Fails, PostLedger, storeVars
  <2>3. CASE MarkDone(w) \/ IncrementRetry(w) \/ MarkFailed(w)
    BY <1>3, <1>4, <2>3
    DEF MarkDone, IncrementRetry, MarkFailed, Write, Book, Fails, MarkOp, IncrementOpRetry, storeVars
  <2> QED
    BY <2>1, <2>2, <2>3 DEF WorkerStep

\* Workers of the orphan loop, and their stages, beside those of w.
LEMMA WorkersHands ==
    ASSUME CInv, NEW w \in Workers, WorkerStep(w), NEW v \in TxWorkers, v # w
    PROVE  InHand(v)' = InHand(v) /\ row'[v] = row[v] /\ stage'[v] = stage[v]
BY StepsAlone DEF Alone, Workers, InHand, CInv

LEMMA ListKeeps ==
    ASSUME CInv, NEW w \in Workers, List(w)
    PROVE  CaseInv'
<1>1. WorkerStep(w)
  BY DEF WorkerStep
<1>2. WorkTypes
  BY CompTypes DEF CInv
<1>3. UNCHANGED vars /\ stage' = [stage EXCEPT ![w] = "loop"] /\ UNCHANGED row
  BY DEF List
<1>4. UNCHANGED <<pc, resp, claim, result, bets, wins, refunds, crashes, faults, pendTx>>
  BY <1>3 DEF vars, betVars, idemVars, walletVars, storeVars
<1>5. CASE w \in OpWorkers
  <2>1. \A v \in TxWorkers : InHand(v)' = InHand(v) /\ row'[v] = row[v] /\ stage'[v] = stage[v]
    BY <1>1, <1>5, WorkersHands
  <2>2. CalmStep
    BY <1>4, <2>1 DEF CalmStep
  <2> QED
    BY <2>2, CalmKeeps
<1>6. CASE w \notin OpWorkers
  <2>1. InHand(w)' = StalePending \cup {row[w]}
    BY <1>2, <1>6 DEF List, InHand, WorkTypes
  <2>2. ASSUME NEW v \in TxWorkers, v # w
        PROVE  InHand(v)' = InHand(v) /\ stage'[v] = stage[v]
    BY <1>1, <2>2, WorkersHands
  <2>3. ASSUME NEW x \in StalePending
        PROVE  /\ x.round \in Rounds /\ pendTx[x.round].status = "pending"
               /\ x.phase = pendTx[x.round].phase
               /\ \A h \in Handlers : RoundOf[h] = x.round => pc[h] \notin Paying
    BY DEF StalePending, Old
  <2>4. Composed' /\ OwnerClaims' /\ ClaimExclusive'
    BY <1>4 DEF CInv, CaseInv, Composed, OwnerClaims, ClaimExclusive
  <2>5. ASSUME NEW x \in StalePending
        PROVE  /\ claim[x.round] # "none"
               /\ \A h \in Handlers : RoundOf[h] = x.round => pc[h] \notin Owning
    BY <2>3 DEF CInv, CaseInv, OwnerAlone, Untouched, Owning, NoRowYet
  <2>6. OwnerAlone'
    <3>1. \A r \in Rounds : Unlisted(r) /\ (\A x \in StalePending : x.round # r) => Unlisted(r)'
      BY <1>4, <2>1, <2>2 DEF Unlisted, InHand
    <3>2. \A r \in Rounds : Untouched(r) /\ (\A x \in StalePending : x.round # r) => Untouched(r)'
      BY <1>4, <3>1 DEF Untouched
    <3>3. \A h \in Handlers : pc[h] \in NoRowYet => pc[h] \in Owning
      BY DEF NoRowYet, Owning, Paying
    <3> QED
      BY <1>4, <2>5, <3>1, <3>2, <3>3 DEF CInv, CaseInv, OwnerAlone
  <2>7. RowFollows'
    BY <1>4 DEF CInv, CaseInv, RowFollows, AsksForWin
  <2>8. AnsweredKept'
    <3> SUFFICES ASSUME faults = 0, NEW r \in Rounds, result[r] # "none"
                 PROVE  /\ bets[r] > 0 /\ refunds[r] = 0 /\ AsksForWin(r)
                        /\ \A v \in TxWorkers : NotRefunding(v, r)'
      BY <1>4 DEF AnsweredKept, AsksForWin
    <3>1. /\ bets[r] > 0 /\ refunds[r] = 0 /\ AsksForWin(r)
          /\ \A v \in TxWorkers : NotRefunding(v, r)
      BY DEF CInv, CaseInv, AnsweredKept
    <3>2. ASSUME NEW v \in TxWorkers, v # w
          PROVE  NotRefunding(v, r)'
      BY <1>3, <2>2, <3>1, <3>2 DEF NotRefunding
    <3>3. w \in TxWorkers => NotRefunding(w, r)'
      <4>1. stage'[w] \notin {"rollback", "ledgerRollback"}
        BY <1>2, <1>3 DEF WorkTypes
      <4>2. w \in TxWorkers => \A x \in InHand(w)' : x.round = r => x.phase = "win_pending"
        BY <2>1, <2>3, <3>1 DEF NotRefunding, AsksForWin, InHand
      <4> QED
        BY <4>1, <4>2 DEF NotRefunding
    <3> QED
      BY <3>1, <3>2, <3>3
  <2>9. RowsAnswered'
    <3> SUFFICES ASSUME faults = 0, crashes = 0
                 PROVE  /\ \A r \in Rounds :
                              /\ refunds[r] = 0
                              /\ pendTx[r].status # "none" =>
                                    \/ result[r] # "none"
                                    \/ \E h \in Handlers : RoundOf[h] = r /\ pc[h] \in Paying
                        /\ \A v \in TxWorkers : \A x \in InHand(v)' :
                              x.round \in Rounds => result[x.round] # "none"
      BY <1>4 DEF RowsAnswered
    <3>1. \A x \in StalePending : result[x.round] # "none"
      BY <2>3 DEF CInv, CaseInv, RowsAnswered
    <3> QED
      BY <2>1, <2>2, <3>1 DEF CInv, CaseInv, RowsAnswered, InHand
  <2> QED
    BY <2>4, <2>6, <2>7, <2>8, <2>9 DEF CaseInv
<1> QED
  BY <1>5, <1>6

\* A worker goes after the bet of a round only if it has no answer.
LEMMA CheckKeeps ==
    ASSUME CInv, NEW w \in Workers, CheckTransaction(w)
    PROVE  CaseInv'
<1>1. WorkerStep(w) /\ stage[w] = "check" /\ UNCHANGED <<vars, row, batch>>
  BY DEF WorkerStep, CheckTransaction, Proceed
<1>2. WorkTypes
  BY CompTypes DEF CInv
<1>3. w \in TxWorkers /\ row[w].round \in Rounds
  BY <1>1, RowOfRound DEF CInv, WorkInv, WorkerOK, InPlace, Workers
<1> DEFINE r == row[w].round
<1>4. ASSUME stage'[w] \in {"rollback", "ledgerRollback"}
      PROVE  faults # 0 \/ result[r] = "none"
  <2>1. Proceed(w, "rollback")
    BY <1>2, <1>4 DEF CheckTransaction, Proceed, WorkTypes
  <2>2. /\ txStatus[r] \in {"bet_only", "not_found"}
        /\ ~(txStatus[r] = "bet_only" /\ row[w].phase = "win_pending")
    BY <1>2, <1>4 DEF CheckTransaction, Proceed, WorkTypes
  <2> SUFFICES ASSUME faults = 0, result[r] # "none"
               PROVE  FALSE
    OBVIOUS
  <2>3. bets[r] > 0 /\ row[w].phase = "win_pending"
    BY <1>3 DEF CInv, CaseInv, AnsweredKept, NotRefunding, InHand
  <2>4. txStatus[r] # "not_found"
    BY <1>3, <2>3 DEF CInv, WorkInv, StatusIsMoney
  <2> QED
    BY <2>2, <2>3, <2>4
<1>5. \A v \in TxWorkers : InHand(v)' = InHand(v) /\ row'[v] = row[v]
  BY <1>1 DEF InHand
<1>6. \A v \in TxWorkers : v # w => stage'[v] = stage[v]
  BY <1>1, WorkersHands
<1>7. UNCHANGED <<pc, resp, claim, result, bets, refunds, crashes, faults, pendTx>>
  BY <1>1 DEF vars, betVars, idemVars, walletVars, storeVars
<1>8. CalmStep
  BY <1>4, <1>5, <1>6, <1>7 DEF CalmStep
<1> QED
  BY <1>8, CalmKeeps

\* A refund is of a round that nobody owns and, if nothing failed, nobody was
\* told of.
LEMMA RefundKeeps ==
    ASSUME CInv, NEW w \in Workers, RollbackBet(w)
    PROVE  CaseInv'
<1>1. WorkerStep(w) /\ stage[w] = "rollback" /\ UNCHANGED <<row, batch, storeVars, faults>>
  BY DEF WorkerStep, RollbackBet, Answered, Proceed
<1> DEFINE r == row[w].round
<1>2. w \in TxWorkers /\ r \in Rounds /\ row[w] \in InHand(w)
  BY <1>1, RowOfRound DEF CInv, WorkInv, WorkerOK, InPlace, Workers, InHand
<1>3. UNCHANGED <<pc, resp, claim, result, bets, crashes, faults, pendTx>>
  BY <1>1, WorkersApart DEF storeVars
<1>4. \A q \in Rounds : q # r => refunds'[q] = refunds[q]
  BY DEF RollbackBet, WalletRollback, walletVars, CInv, CompTypeOK, TypeOK, WalletTypeOK
<1>5. \A v \in TxWorkers : InHand(v)' = InHand(v) /\ row'[v] = row[v]
  BY <1>1 DEF InHand
<1>6. \A v \in TxWorkers : v # w => stage'[v] = stage[v]
  BY <1>1, WorkersHands
<1>7. Composed' /\ OwnerClaims' /\ ClaimExclusive'
  BY <1>3 DEF CInv, CaseInv, Composed, OwnerClaims, ClaimExclusive
<1>8. ~Unlisted(r)
  BY <1>2 DEF Unlisted
<1> HIDE DEF r
<1>9. OwnerAlone'
  <2>1. \A q \in Rounds : (Unlisted(q) => Unlisted(q)') /\ (Untouched(q) => Untouched(q)')
    BY <1>3, <1>4, <1>5, <1>8 DEF Unlisted, Untouched
  <2> QED
    BY <1>3, <2>1 DEF CInv, CaseInv, OwnerAlone
<1>10. RowFollows'
  BY <1>3 DEF CInv, CaseInv, RowFollows, AsksForWin
<1>11. faults = 0 => result[r] = "none"
  BY <1>1, <1>2 DEF CInv, CaseInv, AnsweredKept, NotRefunding, r
<1>12. AnsweredKept'
  <2> SUFFICES ASSUME faults = 0, NEW q \in Rounds, result[q] # "none"
               PROVE  /\ bets[q] > 0 /\ refunds'[q] = 0 /\ AsksForWin(q)
                      /\ \A v \in TxWorkers : NotRefunding(v, q)'
    BY <1>3 DEF AnsweredKept, AsksForWin
  <2>1. /\ bets[q] > 0 /\ refunds[q] = 0 /\ AsksForWin(q) /\ q # r
        /\ \A v \in TxWorkers : NotRefunding(v, q)
    BY <1>11 DEF CInv, CaseInv, AnsweredKept
  <2>2. ASSUME NEW v \in TxWorkers
        PROVE  NotRefunding(v, q)'
    BY <1>5, <1>6, <2>1 DEF NotRefunding, r
  <2> QED
    BY <1>4, <2>1, <2>2
<1>13. ~(faults = 0 /\ crashes = 0)
  BY <1>2, <1>11 DEF CInv, CaseInv, RowsAnswered, r
<1>14. RowsAnswered'
  BY <1>3, <1>13 DEF RowsAnswered
<1> QED
  BY <1>7, <1>9, <1>10, <1>12, <1>14 DEF CaseInv

LEMMA WorkersKeep ==
    ASSUME CInv, NEW w \in Workers, WorkerStep(w)
    PROVE  CaseInv'
<1>1. CASE List(w)
  BY <1>1, ListKeeps
<1>2. CASE CheckTransaction(w)
  BY <1>2, CheckKeeps
<1>3. CASE RollbackBet(w)
  BY <1>3, RefundKeeps
<1>4. CASE ~List(w) /\ ~CheckTransaction(w) /\ ~RollbackBet(w)
  <2>1. WorkTypes
    BY CompTypes DEF CInv
  <2>2. ASSUME w \in TxWorkers
        PROVE  /\ InHand(w)' \subseteq InHand(w) \cup {NoRow}
               /\ stage'[w] = "rollback" => FALSE
               /\ stage'[w] = "ledgerRollback" => FALSE
    <3>1. CASE TakeRow(w)
      <4>1. PICK x \in batch[w] :
              /\ row' = [row EXCEPT ![w] = x]
              /\ batch' = [batch EXCEPT ![w] = @ \ {x}]
              /\ stage' = [stage EXCEPT ![w] =
                             IF x.retry >= MaxRetries THEN "dlq"
                             ELSE IF w \in OpWorkers THEN "win" ELSE "check"]
        BY <3>1 DEF TakeRow
      <4> QED
        BY <2>1, <4>1 DEF WorkTypes, InHand
    <3>2. CASE EndOfBatch(w)
      BY <2>1, <3>2 DEF EndOfBatch, WorkTypes, InHand
    <3>3. CASE \/ RetryWin(w) \/ PostWin(w) \/ PostRollback(w) \/ MarkDone(w)
               \/ IncrementRetry(w) \/ PublishDLQ(w) \/ MarkFailed(w)
      <4>1. UNCHANGED <<row, batch>> /\ stage'[w] \in {"ledgerWin", "bump", "done", "loop", "failed"}
        BY <2>1, <3>3
        DEF RetryWin, PostWin, PostRollback, MarkDone, IncrementRetry, PublishDLQ, MarkFailed,
            Answered, Write, Proceed, WorkTypes
      <4> QED
        BY <4>1 DEF InHand
    <3> QED
      BY <1>4, <3>1, <3>2, <3>3 DEF WorkerStep
  <2>3. UNCHANGED <<pc, resp, claim, result, bets, refunds, crashes>> /\ (faults' = 0 => faults = 0)
    BY <1>4, WorkersApart
  <2>4. ASSUME NEW v \in TxWorkers
        PROVE  /\ InHand(v)' \subseteq InHand(v) \cup {NoRow}
               /\ row'[v].round \in Rounds /\ stage'[v] \in {"rollback", "ledgerRollback"} =>
                     row'[v] = row[v] /\ stage[v] \in {"rollback", "ledgerRollback"}
    BY <2>2, WorkersHands
  <2>5. CalmStep
    BY <2>3, <2>4, WorkersRows DEF CalmStep
  <2> QED
    BY <2>5, CalmKeeps
<1> QED
  BY <1>1, <1>2, <1>3, <1>4

LEMMA RestartKeeps ==
    ASSUME CInv, Restart
    PROVE  CaseInv'
<1>1. /\ UNCHANGED vars /\ stage' = [w \in Workers |-> "idle"]
      /\ batch' = [w \in Workers |-> {}] /\ row' = [w \in Workers |-> NoRow]
  BY DEF Restart
<1>2. UNCHANGED <<pc, resp, claim, result, bets, refunds, crashes, faults, pendTx>>
  BY <1>1 DEF vars, betVars, idemVars, walletVars, storeVars
<1>3. \A w \in TxWorkers : InHand(w)' = {NoRow} /\ stage'[w] = "idle"
  BY <1>1 DEF InHand, Workers
<1>4. CalmStep
  BY <1>2, <1>3 DEF CalmStep
<1> QED
  BY <1>4, CalmKeeps

-----------------------------------------------------------------------------
(* The rounds, under the steps of the bets *)

\* A request moves on, and changes no more than the row of a round it owns
\* and the money of its round.
LEMMA MoveKeeps ==
    ASSUME CInv, NEW h \in Handlers, NEW s \in Steps, NEW a,
           pc' = [pc EXCEPT ![h] = s], resp' = [resp EXCEPT ![h] = a],
           UNCHANGED <<claim, result, refunds, crashes, compVars>>,
           faults' = 0 => faults = 0,
           \A q \in Rounds : bets[q] > 0 => bets'[q] > 0,
           \A q \in Rounds : pendTx'[q] = pendTx[q] \/ (q = RoundOf[h] /\ pc[h] \in Owning),
           s \in Owning => pc[h] \in Owning,
           s \in NoRowYet => Untouched(RoundOf[h])',
           s \in Paying => bets'[RoundOf[h]] > 0,
           s \in Postponed => a = "pending",
           s = "record" => a = "settled",
           s = "save" => a \in Answers,
           faults' = 0 =>
              /\ s \in Paying \ NoRowYet => pendTx'[RoundOf[h]].status # "none"
              /\ s \in {"pendLedger", "save"} => AsksForWin(RoundOf[h])'
              /\ s \in Over /\ a \in Answers => result[RoundOf[h]] # "none"
              /\ \/ pendTx'[RoundOf[h]] = pendTx[RoundOf[h]]
                 \/ s \in Paying /\ (AsksForWin(RoundOf[h])' \/ result[RoundOf[h]] = "none")
              /\ pc[h] \notin Paying \/ s \in Paying
    PROVE  CaseInv'
<1> DEFINE r == RoundOf[h]
<1>0. TypeOK /\ CaseInv
  BY DEF CInv, CompTypeOK
<1>1. /\ \A g \in Handlers \ {h} : pc'[g] = pc[g] /\ resp'[g] = resp[g]
      /\ pc'[h] = s /\ resp'[h] = a
  BY <1>0 DEF TypeOK, BetTypeOK
<1>2. \A g \in Handlers \ {h} : RoundOf[g] = r /\ pc[h] \in Owning => pc[g] \notin Owning
  BY <1>0 DEF CaseInv, ClaimExclusive
<1>3. pc[h] \in Owning => claim[r] = "PENDING"
  BY <1>0 DEF CaseInv, OwnerClaims
<1>4. Paying \subseteq Owning /\ NoRowYet \subseteq Owning
  BY DEF Paying, Owning, NoRowYet
<1>5. \A w \in TxWorkers : InHand(w)' = InHand(w) /\ row'[w] = row[w] /\ stage'[w] = stage[w]
  BY DEF InHand, compVars
<1>6. \A q \in Rounds : Unlisted(q)' <=> Unlisted(q)
  BY <1>5 DEF Unlisted
<1>7. \A q \in Rounds : pendTx'[q] = pendTx[q] =>
         (Untouched(q) => Untouched(q)') /\ (AsksForWin(q) => AsksForWin(q)')
  BY <1>6 DEF Untouched, AsksForWin
<1>8. Composed'
  BY <1>0, <1>1 DEF CaseInv, Composed
<1>9. OwnerClaims' /\ ClaimExclusive'
  BY <1>0, <1>1 DEF CaseInv, OwnerClaims, ClaimExclusive
<1>10. OwnerAlone'
  <2>1. \A q \in Rounds : claim'[q] = "none" => Untouched(q)'
    BY <1>0, <1>3, <1>7 DEF CaseInv, OwnerAlone
  <2>2. ASSUME NEW g \in Handlers
        PROVE  /\ pc'[g] \in Owning => Unlisted(RoundOf[g])'
               /\ pc'[g] \in NoRowYet => Untouched(RoundOf[g])'
               /\ pc'[g] \in Paying => bets'[RoundOf[g]] > 0
    <3>1. CASE g = h
      BY <1>0, <1>1, <1>6, <3>1 DEF CaseInv, OwnerAlone
    <3>2. CASE g # h
      BY <1>0, <1>1, <1>2, <1>4, <1>6, <1>7, <3>2 DEF CaseInv, OwnerAlone
    <3> QED
      BY <3>1, <3>2
  <2> QED
    BY <2>1, <2>2 DEF OwnerAlone
<1>11. RowFollows'
  <2> SUFFICES ASSUME faults' = 0, NEW g \in Handlers
               PROVE  /\ pc'[g] \in Paying \ NoRowYet => pendTx'[RoundOf[g]].status # "none"
                      /\ pc'[g] \in {"pendLedger", "save"} => AsksForWin(RoundOf[g])'
                      /\ pc'[g] \in Over /\ resp'[g] \in Answers => result'[RoundOf[g]] # "none"
    BY DEF RowFollows
  <2>1. CASE g = h
    BY <1>1, <2>1
  <2>2. CASE g # h
    BY <1>0, <1>1, <1>2, <1>4, <1>7, <2>2 DEF CaseInv, RowFollows, Paying
  <2> QED
    BY <2>1, <2>2
<1>12. AnsweredKept'
  <2> SUFFICES ASSUME faults' = 0, NEW q \in Rounds, result[q] # "none"
               PROVE  /\ bets'[q] > 0 /\ refunds[q] = 0 /\ AsksForWin(q)'
                      /\ \A w \in TxWorkers : NotRefunding(w, q)'
    BY DEF AnsweredKept
  <2>1. /\ bets[q] > 0 /\ refunds[q] = 0 /\ AsksForWin(q)
        /\ \A w \in TxWorkers : NotRefunding(w, q)
    BY <1>0 DEF CaseInv, AnsweredKept
  <2>2. AsksForWin(q)'
    BY <1>7, <2>1
  <2>3. ASSUME NEW w \in TxWorkers
        PROVE  NotRefunding(w, q)'
    BY <1>5, <2>1 DEF NotRefunding
  <2> QED
    BY <2>1, <2>2, <2>3
<1>13. RowsAnswered'
  <2> SUFFICES ASSUME faults' = 0, crashes = 0
               PROVE  /\ \A q \in Rounds :
                            /\ refunds[q] = 0
                            /\ pendTx'[q].status # "none" =>
                                  \/ result[q] # "none"
                                  \/ \E g \in Handlers : RoundOf[g] = q /\ pc'[g] \in Paying
                      /\ \A w \in TxWorkers : \A x \in InHand(w) :
                            x.round \in Rounds => result[x.round] # "none"
    BY <1>5 DEF RowsAnswered
  <2>1. ASSUME NEW q \in Rounds, pendTx'[q].status # "none", result[q] = "none"
        PROVE  \E g \in Handlers : RoundOf[g] = q /\ pc'[g] \in Paying
    <3>1. CASE q = r /\ s \in Paying
      BY <1>1, <3>1
    <3>2. CASE pendTx'[q] = pendTx[q]
      <4>1. PICK g \in Handlers : RoundOf[g] = q /\ pc[g] \in Paying
        BY <1>0, <2>1, <3>2 DEF CaseInv, RowsAnswered
      <4> QED
        BY <1>1, <4>1
    <3> QED
      BY <3>1, <3>2
  <2> QED
    BY <1>0, <2>1 DEF CaseInv, RowsAnswered
<1> QED
  BY <1>8, <1>9, <1>10, <1>11, <1>12, <1>13 DEF CaseInv

\* A request claims its round; or it does and never learns.
LEMMA ClaimKeeps ==
    ASSUME CInv, NEW h \in Handlers, NEW t, pc[h] = "claim", ClaimWithToken(RoundOf[h], t),
           Goto(h, "config") \/ Respond(h, "error", "release"),
           UNCHANGED <<walletVars, storeVars, crashes, compVars>>, faults' = 0 => faults = 0
    PROVE  CaseInv'
<1> DEFINE r == RoundOf[h]
<1>0. TypeOK /\ CaseInv
  BY DEF CInv, CompTypeOK
<1>1. /\ claim[r] = "none" /\ claim'[r] = "PENDING"
      /\ \A q \in Rounds \ {r} : claim'[q] = claim[q]
      /\ UNCHANGED result
  BY <1>0 DEF ClaimWithToken, TypeOK, IdemTypeOK
<1>2. \A w \in TxWorkers : InHand(w)' = InHand(w) /\ row'[w] = row[w] /\ stage'[w] = stage[w]
  BY DEF InHand, compVars
<1>3. \A q \in Rounds : /\ Unlisted(q)' <=> Unlisted(q)
                        /\ Untouched(q)' <=> Untouched(q)
                        /\ AsksForWin(q)' <=> AsksForWin(q)
  BY <1>1, <1>2 DEF Unlisted, Untouched, AsksForWin, walletVars, storeVars
<1>4. Untouched(r) /\ \A g \in Handlers : RoundOf[g] = r => pc[g] \notin Owning
  BY <1>0, <1>1 DEF CaseInv, OwnerAlone, OwnerClaims
<1>5. /\ \A g \in Handlers \ {h} : pc'[g] = pc[g] /\ resp'[g] = resp[g]
      /\ pc'[h] = "config" \/ (pc'[h] = "release" /\ resp'[h] = "error")
  BY <1>0 DEF TypeOK, BetTypeOK, Goto, Respond
<1>6. Composed'
  BY <1>0, <1>5 DEF CaseInv, Composed, Postponed
<1>7. OwnerClaims' /\ ClaimExclusive'
  BY <1>0, <1>1, <1>4, <1>5 DEF CaseInv, OwnerClaims, ClaimExclusive, Owning, Paying
<1>8. OwnerAlone'
  BY <1>0, <1>1, <1>3, <1>4, <1>5
  DEF CaseInv, OwnerAlone, Untouched, Owning, NoRowYet, Paying, walletVars
<1>9. RowFollows'
  BY <1>0, <1>1, <1>3, <1>5 DEF CaseInv, RowFollows, NoRowYet, Paying, Over, Answers, storeVars
<1>10. AnsweredKept'
  BY <1>0, <1>1, <1>2, <1>3 DEF CaseInv, AnsweredKept, NotRefunding, walletVars
<1>11. RowsAnswered'
  BY <1>0, <1>1, <1>2, <1>5 DEF CaseInv, RowsAnswered, Paying, walletVars, storeVars
<1> QED
  BY <1>6, <1>7, <1>8, <1>9, <1>10, <1>11 DEF CaseInv

\* A request gives its claim back: nobody has heard of its round.
LEMMA UnclaimKeeps ==
    ASSUME CInv, NEW h \in Handlers, pc[h] = "unclaim", ReleaseClaim(RoundOf[h]),
           Respond(h, "error", "release"),
           UNCHANGED <<walletVars, storeVars, crashes, compVars>>, faults' = 0 => faults = 0
    PROVE  CaseInv'
<1> DEFINE r == RoundOf[h]
<1>0. TypeOK /\ CaseInv
  BY DEF CInv, CompTypeOK
<1>1. UNCHANGED result /\ \A q \in Rounds \ {r} : claim'[q] = claim[q]
  BY <1>0 DEF ReleaseClaim, TypeOK, IdemTypeOK
<1>2. \A w \in TxWorkers : InHand(w)' = InHand(w) /\ row'[w] = row[w] /\ stage'[w] = stage[w]
  BY DEF InHand, compVars
<1>3. \A q \in Rounds : /\ Unlisted(q)' <=> Unlisted(q)
                        /\ Untouched(q)' <=> Untouched(q)
                        /\ AsksForWin(q)' <=> AsksForWin(q)
  BY <1>1, <1>2 DEF Unlisted, Untouched, AsksForWin, walletVars, storeVars
<1>4. Untouched(r) /\ \A g \in Handlers \ {h} : RoundOf[g] = r => pc[g] \notin Owning
  BY <1>0 DEF CaseInv, OwnerAlone, ClaimExclusive, NoRowYet, Owning
<1>5. /\ \A g \in Handlers \ {h} : pc'[g] = pc[g] /\ resp'[g] = resp[g]
      /\ pc'[h] = "release" /\ resp'[h] = "error"
  BY <1>0 DEF TypeOK, BetTypeOK, Respond
<1>6. Composed'
  BY <1>0, <1>5 DEF CaseInv, Composed, Postponed
<1>7. OwnerClaims' /\ ClaimExclusive'
  BY <1>0, <1>1, <1>4, <1>5 DEF CaseInv, OwnerClaims, ClaimExclusive, Owning, Paying
<1>8. OwnerAlone'
  BY <1>0, <1>1, <1>3, <1>4, <1>5
  DEF CaseInv, OwnerAlone, Owning, NoRowYet, Paying, walletVars
<1>9. RowFollows'
  BY <1>0, <1>1, <1>3, <1>5 DEF CaseInv, RowFollows, NoRowYet, Paying, Over, Answers, storeVars
<1>10. AnsweredKept'
  BY <1>0, <1>1, <1>2, <1>3 DEF CaseInv, AnsweredKept, NotRefunding, walletVars
<1>11. RowsAnswered'
  BY <1>0, <1>1, <1>2, <1>5 DEF CaseInv, RowsAnswered, Paying, walletVars, storeVars
<1> QED
  BY <1>6, <1>7, <1>8, <1>9, <1>10, <1>11 DEF CaseInv

\* The answer is saved: the row asks for the win, and no loop has listed it.
LEMMA SaveKeeps ==
    ASSUME CInv, NEW h \in Handlers, pc[h] = "save", Saves(RoundOf[h], resp[h]),
           Goto(h, "release"),
           UNCHANGED <<walletVars, storeVars, crashes, compVars>>, faults' = 0 => faults = 0
    PROVE  CaseInv'
<1> DEFINE r == RoundOf[h]
<1>0. TypeOK /\ CaseInv
  BY DEF CInv, CompTypeOK
<1>1. /\ result'[r] # "none" /\ claim'[r] \in {"DONE", "PENDING"}
      /\ \A q \in Rounds \ {r} : claim'[q] = claim[q] /\ result'[q] = result[q]
  BY <1>0 DEF Saves, SaveResult, SaveResultHalf, TypeOK, IdemTypeOK, CaseInv, Composed, Answers,
     OwnerClaims, Owning, Paying
<1>2. \A w \in TxWorkers : InHand(w)' = InHand(w) /\ row'[w] = row[w] /\ stage'[w] = stage[w]
  BY DEF InHand, compVars
<1>3. /\ \A q \in Rounds : /\ Unlisted(q)' <=> Unlisted(q)
                           /\ AsksForWin(q)' <=> AsksForWin(q)
      /\ \A q \in Rounds \ {r} : Untouched(q)' <=> Untouched(q)
  BY <1>1, <1>2 DEF Unlisted, Untouched, AsksForWin, walletVars, storeVars
<1>4. /\ Unlisted(r) /\ bets[r] > 0
      /\ \A g \in Handlers \ {h} : RoundOf[g] = r => pc[g] \notin Owning
  BY <1>0 DEF CaseInv, OwnerAlone, ClaimExclusive, Paying, Owning
<1>5. /\ \A g \in Handlers \ {h} : pc'[g] = pc[g]
      /\ pc'[h] = "release" /\ UNCHANGED resp
  BY <1>0 DEF TypeOK, BetTypeOK, Goto
<1>6. Composed'
  BY <1>0, <1>5 DEF CaseInv, Composed, Postponed
<1>7. OwnerClaims' /\ ClaimExclusive'
  BY <1>0, <1>1, <1>4, <1>5 DEF CaseInv, OwnerClaims, ClaimExclusive, Owning, Paying
<1>8. OwnerAlone'
  BY <1>0, <1>1, <1>3, <1>4, <1>5
  DEF CaseInv, OwnerAlone, Owning, NoRowYet, Paying, walletVars
<1>9. RowFollows'
  BY <1>0, <1>1, <1>3, <1>5 DEF CaseInv, RowFollows, NoRowYet, Paying, Over, Answers, storeVars
<1>10. AnsweredKept'
  <2> SUFFICES ASSUME faults' = 0, NEW q \in Rounds, result'[q] # "none"
               PROVE  /\ bets[q] > 0 /\ refunds[q] = 0 /\ AsksForWin(q)
                      /\ \A w \in TxWorkers : NotRefunding(w, q)
    BY <1>2, <1>3 DEF AnsweredKept, NotRefunding, walletVars
  <2>1. CASE q = r
    <3>1. AsksForWin(r)
      BY <1>0 DEF CaseInv, RowFollows
    <3>2. \A w \in TxWorkers : NotRefunding(w, r)
      BY <1>4 DEF Unlisted, NotRefunding, InHand
    <3> QED
      BY <1>4, <2>1, <3>1, <3>2 DEF Unlisted
  <2>2. CASE q # r
    BY <1>0, <1>1, <2>2 DEF CaseInv, AnsweredKept
  <2> QED
    BY <2>1, <2>2
<1>11. RowsAnswered'
  BY <1>0, <1>1, <1>2, <1>5 DEF CaseInv, RowsAnswered, Paying, walletVars, storeVars
<1> QED
  BY <1>6, <1>7, <1>8, <1>9, <1>10, <1>11 DEF CaseInv

\* A process dies, or the lock expires.
LEMMA EnvironmentApart ==
    ASSUME CInv, ExpireLock \/ \E p \in Pods : Crash(p), UNCHANGED compVars
    PROVE  CaseInv'
<1>0. TypeOK /\ CaseInv
  BY DEF CInv, CompTypeOK
<1>1. \A w \in TxWorkers : InHand(w)' = InHand(w) /\ row'[w] = row[w] /\ stage'[w] = stage[w]
  BY DEF InHand, compVars
<1>2. CASE ExpireLock
  <2>1. CalmStep
    BY <1>1, <1>2 DEF ExpireLock, CalmStep, idemVars, walletVars, storeVars
  <2> QED
    BY <2>1, CalmKeeps
<1>3. ASSUME NEW p \in Pods, Crash(p)
      PROVE  CaseInv'
  <2>1. /\ UNCHANGED <<resp, faults, idemVars, walletVars, storeVars>>
        /\ crashes' # 0
        /\ \A g \in Handlers : pc'[g] \in {pc[g], "crashed"}
    BY <1>0, <1>3 DEF Crash, TypeOK, BetTypeOK
  <2>2. \A q \in Rounds : /\ Unlisted(q)' <=> Unlisted(q)
                          /\ Untouched(q)' <=> Untouched(q)
                          /\ AsksForWin(q)' <=> AsksForWin(q)
    BY <1>1, <2>1 DEF Unlisted, Untouched, AsksForWin, idemVars, walletVars, storeVars
  <2>3. Composed' /\ OwnerClaims' /\ ClaimExclusive'
    BY <1>0, <2>1
    DEF CaseInv, Composed, OwnerClaims, ClaimExclusive, Postponed, Owning, Paying, idemVars
  <2>4. OwnerAlone'
    BY <1>0, <2>1, <2>2
    DEF CaseInv, OwnerAlone, Owning, NoRowYet, Paying, idemVars, walletVars
  <2>5. RowFollows'
    BY <1>0, <2>1, <2>2 DEF CaseInv, RowFollows, Paying, NoRowYet, Over, idemVars, storeVars
  <2>6. AnsweredKept'
    BY <1>0, <1>1, <2>1, <2>2 DEF CaseInv, AnsweredKept, NotRefunding, idemVars, walletVars
  <2>7. RowsAnswered'
    BY <2>1 DEF RowsAnswered
  <2> QED
    BY <2>3, <2>4, <2>5, <2>6, <2>7 DEF CaseInv
<1> QED
  BY <1>2, <1>3

-----------------------------------------------------------------------------
(* Every step of a request *)

LEMMA StepsKeep ==
    ASSUME CInv, NEW h \in Handlers, Step(h), UNCHANGED compVars
    PROVE  CaseInv'
<1> DEFINE r == RoundOf[h]
           GoesTo(s, a) == pc' = [pc EXCEPT ![h] = s] /\ resp' = [resp EXCEPT ![h] = a]
           Calm == UNCHANGED <<claim, result, bets, refunds, pendTx, crashes>>
<1>0. TypeOK /\ CaseInv
  BY DEF CInv, CompTypeOK
<1>1. \A s \in Steps : Goto(h, s) => GoesTo(s, resp[h])
  BY <1>0 DEF Goto, TypeOK, BetTypeOK
<1>2. (UNCHANGED faults => (faults' = 0 => faults = 0)) /\ (Fault => faults' # 0)
  BY <1>0 DEF Fault, TypeOK, BetTypeOK
<1>3. Paying \subseteq Owning /\ NoRowYet \subseteq Owning /\ Postponed \subseteq Owning
      /\ "record" \in Owning /\ "save" \in Owning /\ "pendLedger" \in Owning
      /\ Owning \cap Over = {}
      /\ Owning \subseteq Steps
  BY DEF Paying, NoRowYet, Owning, Postponed, Over, Steps, InLock
<1>4. \A w \in TxWorkers : InHand(w)' = InHand(w)
  BY DEF InHand, compVars
\* Before the round is claimed, and after it is left.
<1>5. ASSUME NEW s \in Steps \ Owning, NEW a, GoesTo(s, a), pc[h] \notin Owning, Calm,
             UNCHANGED faults \/ Fault,
             faults' = 0 /\ s \in Over /\ a \in Answers => result[r] # "none"
      PROVE  CaseInv'
  BY <1>2, <1>3, <1>5, MoveKeeps
<1>6. CASE CheckCache(h) \/ DoubleCheck(h) \/ AwaitResult(h)
  <2>1. /\ Calm /\ (UNCHANGED faults \/ Fault)
        /\ pc[h] \notin Owning
    BY <1>6 DEF CheckCache, DoubleCheck, AwaitResult, idemVars, walletVars, storeVars, Owning, Paying
  <2>2. {"done", "release", "acquire", "readSeq"} \subseteq Steps \ Owning
        /\ "acquire" \notin Over /\ "readSeq" \notin Over /\ "error" \notin Answers
    BY DEF Steps, BeforeLock, InLock, Ended, Owning, Paying, Over, Answers
  <2>3. CASE \E s \in {"done", "release"} : HasResult(r) /\ Respond(h, result[r], s)
    BY <1>5, <2>1, <2>2, <2>3 DEF HasResult, Respond
  <2>4. CASE \E s \in {"done", "release"} : Respond(h, "error", s)
    BY <1>5, <2>1, <2>2, <2>4 DEF Respond
  <2>5. CASE \E s \in {"acquire", "readSeq"} : Goto(h, s)
    BY <1>1, <1>5, <2>1, <2>2, <2>5
  <2> QED
    BY <1>6, <2>3, <2>4, <2>5 DEF CheckCache, DoubleCheck, AwaitResult
<1>7. CASE AcquireLock(h) \/ ConsumeSequenceGet(h) \/ ConsumeSequenceSet(h)
  <2>1. PICK s \in {"locked", "done", "release", "writeSeq", "claim"}, a \in {resp[h], "error"} :
          GoesTo(s, a) /\ (s \in {"done", "release"} => a = "error")
    BY <1>1, <1>7
    DEF AcquireLock, ConsumeSequenceGet, ConsumeSequenceSet, Respond, Steps, InLock
  <2>2. Calm /\ (UNCHANGED faults \/ Fault) /\ pc[h] \notin Owning
    BY <1>7
    DEF AcquireLock, ConsumeSequenceGet, ConsumeSequenceSet, Fails, idemVars, walletVars, storeVars,
        Owning, Paying
  <2>3. s \in Steps \ Owning
    BY DEF Steps, BeforeLock, InLock, Ended, Owning, Paying
  <2>4. s \in Over => a \notin Answers
    BY <2>1 DEF Over, Answers
  <2> QED
    BY <1>5, <2>1, <2>2, <2>3, <2>4
<1>8. CASE ClaimRound(h)
  <2>1. CASE ClaimWithToken(r, TokenOf[h]) /\ (Goto(h, "config") \/ Respond(h, "error", "release"))
    BY <1>2, <1>8, <2>1, ClaimKeeps DEF ClaimRound, Fails
  <2>2. CASE UNCHANGED idemVars /\ (Goto(h, "wait") \/ Respond(h, "error", "release"))
    <3>1. PICK s \in {"wait", "release"}, a \in {resp[h], "error"} :
            GoesTo(s, a) /\ (s = "release" => a = "error")
      BY <1>1, <2>2 DEF Respond, Steps, InLock
    <3>2. Calm /\ (UNCHANGED faults \/ Fault) /\ pc[h] \notin Owning
      BY <1>8, <2>2 DEF ClaimRound, Fails, idemVars, walletVars, storeVars, Owning, Paying
    <3>3. s \in Steps \ Owning /\ (s \in Over => a \notin Answers)
      BY <3>1 DEF Steps, InLock, Owning, Paying, Over, Answers
    <3> QED
      BY <1>5, <3>1, <3>2, <3>3
  <2> QED
    BY <1>8, <2>1, <2>2 DEF ClaimRound, ClaimTaken, Fails
<1>9. CASE ReleaseToken(h) \/ ReleaseLock(h)
  <2>1. PICK s \in {"unlock", "done"} : GoesTo(s, resp[h])
    BY <1>1, <1>9 DEF ReleaseToken, ReleaseLock, Steps, InLock, Ended
  <2>2. Calm /\ (UNCHANGED faults \/ Fault) /\ pc[h] \in {"release", "unlock"}
    BY <1>9 DEF ReleaseToken, ReleaseLock, Fails, idemVars, walletVars, storeVars
  <2>3. pc[h] \notin Owning /\ pc[h] \in Over /\ s \in Steps \ Owning
    BY <2>2 DEF Steps, InLock, Ended, Owning, Paying, Over
  <2>4. faults' = 0 /\ resp[h] \in Answers => result[r] # "none"
    BY <1>0, <1>2, <2>2, <2>3 DEF CaseInv, RowFollows
  <2> QED
    BY <1>5, <2>1, <2>2, <2>3, <2>4
\* The round is claimed and has no row.
<1>10. ASSUME NEW s \in {"bet", "unclaim", "postBet", "insertTx"}, GoesTo(s, resp[h]),
              pc[h] \in NoRowYet, s \in Paying => bets'[r] > 0,
              UNCHANGED <<claim, result, refunds, pendTx, crashes>>,
              \A q \in Rounds : bets[q] > 0 => bets'[q] > 0,
              UNCHANGED faults \/ Fault,
              pc[h] \in Paying => s \in Paying
       PROVE  CaseInv'
  <2>1. s \in NoRowYet /\ s \in Owning /\ s \in Steps /\ pc[h] \in Owning
    BY <1>3, <1>10 DEF NoRowYet
  <2>2. Untouched(r)'
    BY <1>0, <1>4, <1>10 DEF CaseInv, OwnerAlone, Untouched, Unlisted
  <2>3. s \notin Postponed /\ s \notin {"record", "save", "pendLedger"} /\ s \notin Over
    BY DEF Postponed, Over
  <2> QED
    BY <1>2, <1>10, <2>1, <2>2, <2>3, MoveKeeps
<1>11. CASE LoadConfig(h)
  <2>1. PICK s \in {"bet", "unclaim"} : GoesTo(s, resp[h])
    BY <1>1, <1>3, <1>11 DEF LoadConfig, Owning
  <2>2. pc[h] \in NoRowYet /\ s \notin Paying /\ pc[h] \notin Paying /\ Calm
        /\ (UNCHANGED faults \/ Fault)
    BY <1>11 DEF LoadConfig, NoRowYet, Paying, idemVars, walletVars, storeVars
  <2> QED
    BY <1>10, <2>1, <2>2
<1>12. CASE DebitBet(h)
  <2>1. PICK o \in WalletOutcomes :
          WalletBet(r, o) /\ Goto(h, IF o = "ok" THEN "postBet" ELSE "unclaim")
    BY <1>12 DEF DebitBet
  <2>2. UNCHANGED refunds /\ \A q \in Rounds : bets[q] > 0 => bets'[q] > 0
    BY <1>0, <2>1 DEF WalletBet, walletVars, TypeOK, WalletTypeOK
  <2>3. PICK s \in {"postBet", "unclaim"} : GoesTo(s, resp[h]) /\ (s = "postBet" => o = "ok")
    BY <1>1, <1>3, <2>1 DEF Owning, Paying
  <2>4. s \in Paying => bets'[r] > 0
    BY <1>0, <2>1, <2>3, WalletMoved DEF Paying, TypeOK
  <2>5. /\ pc[h] \in NoRowYet /\ pc[h] \notin Paying /\ UNCHANGED <<claim, result, pendTx, crashes>>
        /\ UNCHANGED faults \/ Fault
    BY <1>12 DEF DebitBet, NoRowYet, Paying, idemVars, storeVars
  <2> QED
    BY <1>10, <2>2, <2>3, <2>4, <2>5
<1>13. CASE Unclaim(h)
  <2>1. CASE ReleaseClaim(r)
    BY <1>2, <1>13, <2>1, UnclaimKeeps DEF Unclaim, Fails
  <2>2. CASE UNCHANGED idemVars
    <3>1. /\ GoesTo("release", "error") /\ pc[h] = "unclaim" /\ Calm
          /\ UNCHANGED faults \/ Fault
      BY <1>13, <2>2 DEF Unclaim, Fails, Respond, idemVars, walletVars, storeVars
    <3>2. "release" \notin Owning /\ "release" \in Steps /\ "error" \notin Answers
          /\ "unclaim" \notin Paying
      BY DEF Owning, Paying, Steps, InLock, Answers
    <3> QED
      BY <1>2, <1>3, <3>1, <3>2, MoveKeeps
  <2> QED
    BY <1>13, <2>1, <2>2 DEF Unclaim, Fails
<1>14. CASE PostBet(h)
  <2>1. /\ GoesTo("insertTx", resp[h]) /\ pc[h] = "postBet" /\ Calm
        /\ UNCHANGED faults \/ Fault
    BY <1>1, <1>3, <1>14
    DEF PostBet, Book, Fails, PostLedger, idemVars, walletVars, storeVars, Owning, Paying
  <2>2. bets[r] > 0 /\ pc[h] \in NoRowYet /\ pc[h] \in Paying /\ "insertTx" \in Paying
    BY <1>0, <2>1 DEF CaseInv, OwnerAlone, Paying, NoRowYet
  <2> QED
    BY <1>10, <2>1, <2>2
\* The request pays, and its row follows.
<1>15. ASSUME NEW s \in Paying \ NoRowYet, NEW a, GoesTo(s, a), pc[h] \in Paying,
              UNCHANGED <<claim, result, refunds, crashes>>,
              \A q \in Rounds : bets[q] > 0 => bets'[q] > 0,
              \A q \in Rounds : pendTx'[q] = pendTx[q] \/ q = r,
              UNCHANGED faults \/ Fault,
              s \in Postponed => a = "pending",
              s = "record" => a = "settled",
              s = "save" => a \in Answers,
              faults' = 0 =>
                 /\ pendTx'[r].status # "none"
                 /\ s \in {"pendLedger", "save"} => AsksForWin(r)'
                 /\ pendTx'[r] = pendTx[r] \/ AsksForWin(r)' \/ result[r] = "none"
       PROVE  CaseInv'
  <2>1. s \in Owning /\ s \in Steps /\ pc[h] \in Owning /\ s \notin Over /\ s \notin NoRowYet
    BY <1>3, <1>15
  <2>2. bets'[r] > 0
    BY <1>0, <1>15 DEF CaseInv, OwnerAlone
  <2> QED
    BY <1>2, <1>15, <2>1, <2>2, MoveKeeps
<1>16. CASE InsertTx(h)
  <2>1. /\ GoesTo("compute", resp[h]) /\ pc[h] = "insertTx"
        /\ UNCHANGED <<claim, result, bets, refunds, crashes>>
        /\ \/ InsertPendingTx(r) /\ UNCHANGED faults
           \/ Fault /\ (InsertPendingTx(r) \/ UNCHANGED storeVars)
    BY <1>1, <1>3, <1>16 DEF InsertTx, Book, Fails, idemVars, walletVars, Owning, Paying
  <2>2. \A q \in Rounds : pendTx'[q] = pendTx[q] \/ q = r
    BY <1>0, <2>1 DEF InsertPendingTx, storeVars, TypeOK, StoreTypeOK
  <2>3. faults' = 0 => pendTx'[r].status # "none"
    BY <1>0, <1>2, <2>1 DEF InsertPendingTx, TypeOK, StoreTypeOK
  <2>4. result[r] = "none"
    BY <1>0, <2>1 DEF CaseInv, OwnerAlone, Untouched, NoRowYet
  <2>5. /\ "compute" \in Paying \ NoRowYet /\ pc[h] \in Paying
        /\ "compute" \notin Postponed \cup {"record", "save", "pendLedger"}
    BY <2>1 DEF Paying, NoRowYet, Postponed
  <2> QED
    BY <1>15, <2>1, <2>2, <2>3, <2>4, <2>5
<1>17. CASE Compute(h)
  <2>1. /\ \/ UNCHANGED faults /\ GoesTo("win", resp[h])
           \/ UNCHANGED faults /\ GoesTo("record", "settled")
           \/ Fault /\ GoesTo("release", "error")
        /\ pc[h] = "compute" /\ Calm
    <3>1. "win" \in Steps
      BY <1>3 DEF Owning, Paying
    <3> QED
      BY <1>1, <1>17, <3>1 DEF Compute, Respond, idemVars, walletVars, storeVars
  <2>2. /\ "win" \in Paying \ NoRowYet /\ "record" \in Paying \ NoRowYet
        /\ "win" \notin Postponed \cup {"record", "save", "pendLedger"}
        /\ "record" \notin Postponed \cup {"save", "pendLedger"}
        /\ pc[h] \in Paying \ NoRowYet
    BY <2>1 DEF Paying, NoRowYet, Postponed
  <2>3. faults = 0 => pendTx[r].status # "none"
    BY <1>0, <2>2 DEF CaseInv, RowFollows
  <2>4. CASE UNCHANGED faults /\ GoesTo("win", resp[h])
    BY <1>15, <2>1, <2>2, <2>3, <2>4
  <2>5. CASE UNCHANGED faults /\ GoesTo("record", "settled")
    BY <1>15, <2>1, <2>2, <2>3, <2>5
  <2>6. CASE Fault /\ GoesTo("release", "error")
    <3>1. "release" \notin Owning /\ "release" \in Steps
      BY DEF Owning, Paying, Steps, InLock
    <3> QED
      BY <1>2, <1>3, <2>1, <2>6, <3>1, MoveKeeps
  <2> QED
    BY <2>1, <2>4, <2>5, <2>6
<1>18. CASE CreditWin(h)
  <2>1. PICK o \in WalletOutcomes :
          /\ WalletWin(r, o)
          /\ IF o = "ok" THEN Respond(h, "settled", "record") ELSE Respond(h, "pending", "pendOp")
    BY <1>18 DEF CreditWin
  <2>2. UNCHANGED <<claim, result, bets, refunds, pendTx, crashes, faults>> /\ pc[h] = "win"
    BY <1>18, <2>1 DEF CreditWin, WalletWin, idemVars, walletVars, storeVars
  <2>3. PICK s \in {"record", "pendOp"}, a \in Answers :
          GoesTo(s, a) /\ (s = "record" => a = "settled") /\ (s = "pendOp" => a = "pending")
    BY <2>1 DEF Respond, Answers
  <2>4. /\ s \in Paying \ NoRowYet /\ pc[h] \in Paying \ NoRowYet
        /\ s \in Postponed => s = "pendOp"
        /\ s \notin {"save", "pendLedger"}
    BY <2>2 DEF Paying, NoRowYet, Postponed
  <2>5. faults = 0 => pendTx[r].status # "none"
    BY <1>0, <2>4 DEF CaseInv, RowFollows
  <2> QED
    BY <1>15, <2>2, <2>3, <2>4, <2>5
<1>19. CASE RecordPendingOp(h)
  <2>1. /\ GoesTo("markWin", resp[h]) /\ pc[h] = "pendOp" /\ Calm
        /\ UNCHANGED faults \/ Fault
    BY <1>1, <1>3, <1>19
    DEF RecordPendingOp, Book, Fails, InsertPendingOp, idemVars, walletVars, storeVars, Owning, Paying
  <2>2. /\ "markWin" \in Paying \ NoRowYet /\ "markWin" \notin {"record", "save", "pendLedger"}
        /\ pc[h] \in Paying \ NoRowYet /\ pc[h] \in Postponed
    BY <2>1 DEF Paying, NoRowYet, Postponed
  <2>3. resp[h] = "pending" /\ (faults = 0 => pendTx[r].status # "none")
    BY <1>0, <2>2 DEF CaseInv, Composed, RowFollows
  <2> QED
    BY <1>2, <1>15, <2>1, <2>2, <2>3
<1>20. CASE MarkPending(h)
  <2>1. /\ GoesTo("pendLedger", resp[h]) /\ pc[h] = "markWin"
        /\ UNCHANGED <<claim, result, bets, refunds, crashes>>
        /\ (MarkWinPending(r) /\ UNCHANGED faults)
           \/ (Fault /\ (MarkWinPending(r) \/ UNCHANGED storeVars))
    BY <1>1, <1>3, <1>20 DEF MarkPending, Book, Fails, idemVars, walletVars
  <2>2. /\ "pendLedger" \in Paying \ NoRowYet /\ "pendLedger" \notin {"record", "save"}
        /\ pc[h] \in Paying \ NoRowYet /\ pc[h] \in Postponed
    BY <2>1 DEF Paying, NoRowYet, Postponed
  <2>3. resp[h] = "pending" /\ (faults = 0 => pendTx[r].status # "none")
    BY <1>0, <2>2 DEF CaseInv, Composed, RowFollows
  <2>4. \A q \in Rounds : pendTx'[q] = pendTx[q] \/ q = r
    BY <1>0, <2>1 DEF MarkWinPending, UpdatedTx, storeVars, TypeOK, StoreTypeOK
  <2>5. faults' = 0 => AsksForWin(r)'
    BY <1>0, <1>2, <2>1, <2>3 DEF MarkWinPending, UpdatedTx, AsksForWin, TypeOK, StoreTypeOK
  <2> QED
    BY <1>15, <2>1, <2>2, <2>3, <2>4, <2>5 DEF AsksForWin
<1>21. CASE PostPendingWin(h)
  <2>1. /\ GoesTo("save", resp[h]) /\ pc[h] = "pendLedger" /\ Calm
        /\ UNCHANGED faults \/ Fault
    BY <1>1, <1>3, <1>21
    DEF PostPendingWin, Book, Fails, PostLedger, idemVars, walletVars, storeVars
  <2>2. /\ "save" \in Paying \ NoRowYet /\ "save" \notin Postponed /\ pc[h] \in Paying
        /\ pc[h] \in Postponed
    BY <2>1 DEF Paying, NoRowYet, Postponed
  <2>3. resp[h] \in Answers /\ (faults = 0 => AsksForWin(r))
    BY <1>0, <2>1, <2>2 DEF CaseInv, Composed, RowFollows, Answers
  <2>4. faults' = 0 => AsksForWin(r)'
    BY <1>2, <2>1, <2>3 DEF AsksForWin
  <2> QED
    BY <1>15, <2>1, <2>2, <2>3, <2>4 DEF AsksForWin
<1>22. CASE Record(h)
  <2>1. /\ GoesTo("save", resp[h]) /\ pc[h] = "record"
        /\ UNCHANGED <<claim, result, bets, refunds, crashes>>
        /\ (RecordSettled(r, r \in Winning) /\ UNCHANGED faults)
           \/ (Fault /\ (RecordSettled(r, r \in Winning) \/ UNCHANGED storeVars))
    BY <1>1, <1>3, <1>22 DEF Record, Book, Fails, idemVars, walletVars
  <2>2. "save" \in Paying \ NoRowYet /\ "save" \notin Postponed /\ pc[h] \in Paying \ NoRowYet
    BY <2>1 DEF Paying, NoRowYet, Postponed
  <2>3. resp[h] \in Answers /\ (faults = 0 => pendTx[r].status # "none")
    BY <1>0, <2>1, <2>2 DEF CaseInv, Composed, RowFollows, Answers
  <2>4. \A q \in Rounds : pendTx'[q] = pendTx[q] \/ q = r
    BY <1>0, <2>1 DEF RecordSettled, UpdatedTx, storeVars, TypeOK, StoreTypeOK
  <2>5. faults' = 0 => AsksForWin(r)'
    BY <1>0, <1>2, <2>1, <2>3 DEF RecordSettled, UpdatedTx, AsksForWin, TypeOK, StoreTypeOK
  <2> QED
    BY <1>15, <2>1, <2>2, <2>3, <2>4, <2>5 DEF AsksForWin
<1>23. CASE Save(h)
  <2>1. CASE Saves(r, resp[h])
    BY <1>2, <1>23, <2>1, SaveKeeps DEF Save, Fails, Saves, SaveResult, SaveResultHalf
  <2>2. CASE UNCHANGED idemVars /\ Fault
    <3>1. GoesTo("release", resp[h]) /\ pc[h] = "save" /\ Calm
      BY <1>1, <1>23, <2>2 DEF Save, Fails, idemVars, walletVars, storeVars, Steps, InLock
    <3>2. "release" \notin Owning /\ "release" \in Steps
      BY DEF Owning, Paying, Steps, InLock
    <3> QED
      BY <1>2, <1>3, <2>2, <3>1, <3>2, MoveKeeps
  <2> QED
    BY <1>23, <2>1, <2>2 DEF Save, Fails, Saves
<1> QED
  BY <1>6, <1>7, <1>8, <1>9, <1>11, <1>12, <1>13, <1>14, <1>16, <1>17, <1>18, <1>19, <1>20,
     <1>21, <1>22, <1>23 DEF Step

-----------------------------------------------------------------------------
(* The theorems *)

LEMMA NextKeeps ==
    ASSUME CInv, Next, UNCHANGED compVars
    PROVE  CInv'
<1>0. TypeOK /\ WorkTypes /\ Composed
  BY CompTypes DEF CInv, CaseInv
<1>1. TypeOK'
  BY <1>0, StepType, EnvironmentType DEF Next
<1>2. CompTypeOK'
  BY <1>0, <1>1, CompTypes DEF WorkTypes, compVars
<1>3. WorkInv'
  BY <1>1, BetsWork
<1>4. CaseInv'
  BY StepsKeep, EnvironmentApart DEF Next
<1> QED
  BY <1>2, <1>3, <1>4 DEF CInv

LEMMA CompInitInv == CompInit => CInv
<1> SUFFICES ASSUME CompInit PROVE CInv
  OBVIOUS
<1>1. TypeOK /\ Composed /\ OwnerClaims /\ ClaimExclusive
  BY InitInv DEF CompInit, IInv, RoundInv
<1>2. CompTypeOK
  BY <1>1 DEF CompInit, CompTypeOK, Stages
<1> USE DEF CompInit, Init, LockInit, IdemInit, SessionInit, WalletInit, StoreInit
<1>3. \A w \in Workers : InHand(w) = {NoRow} /\ stage[w] = "idle" /\ row[w] = NoRow
  BY DEF InHand
<1>4. NoRow.round \notin Rounds
  BY DEF NoRow
<1> HIDE DEF NoRow
<1>5. WorkInv
  <2>1. \A w \in Workers : WorkerOK(w)
    BY <1>3 DEF WorkerOK, InPlace, MoneyFirst, CopyIsOld, GivesUp
  <2>2. StatusIsMoney /\ DoneOpIsPaid /\ DoneTxIsResolved /\ GivenUpIsReported
    BY DEF StatusIsMoney, DoneOpIsPaid, DoneTxIsResolved, GivenUpIsReported
  <2> QED
    BY <2>1, <2>2 DEF WorkInv
<1>6. CaseInv
  <2>1. \A r \in Rounds : Unlisted(r) /\ Untouched(r)
    BY <1>3, <1>4 DEF Unlisted, Untouched, Workers
  <2>2. OwnerAlone
    BY <2>1 DEF OwnerAlone, Paying
  <2>3. RowFollows
    BY DEF RowFollows, Paying, Over
  <2>4. AnsweredKept
    BY DEF AnsweredKept
  <2>5. RowsAnswered
    BY <1>3, <1>4 DEF RowsAnswered, Workers
  <2> QED
    BY <1>1, <2>2, <2>3, <2>4, <2>5 DEF CaseInv
<1> QED
  BY <1>2, <1>5, <1>6 DEF CInv

LEMMA StillInv ==
    ASSUME CInv, UNCHANGED allVars
    PROVE  CInv'
<1>1. UNCHANGED <<vars, compVars>>
  BY DEF allVars
<1>2. CompTypeOK'
  BY <1>1, CompTypes, TypeFrame
  DEF CInv, vars, betVars, compVars, TypeOK, BetTypeOK, WorkTypes
<1>3. \A w \in Workers : InHand(w)' = InHand(w) /\ (WorkerOK(w) => WorkerOK(w)')
  BY <1>1
  DEF InHand, WorkerOK, InPlace, MoneyFirst, CopyIsOld, GivesUp, Retries, TableOf, InHand,
      compVars, vars, betVars, walletVars, storeVars
<1>4. WorkInv'
  BY <1>1, <1>3
  DEF CInv, WorkInv, StatusIsMoney, DoneOpIsPaid, DoneTxIsResolved, GivenUpIsReported,
      compVars, vars, betVars, walletVars, storeVars
<1>5. CalmStep
  BY <1>1, <1>3
  DEF CalmStep, Workers, compVars, vars, betVars, idemVars, walletVars, storeVars
<1> QED
  BY <1>2, <1>4, <1>5, CalmKeeps DEF CInv

LEMMA CompNextInv == CInv /\ [CompNext]_allVars => CInv'
<1> SUFFICES ASSUME CInv, [CompNext]_allVars
             PROVE  CInv'
  OBVIOUS
<1>1. CASE Next /\ UNCHANGED compVars
  BY <1>1, NextKeeps
<1>2. ASSUME NEW w \in Workers, WorkerStep(w)
      PROVE  CInv'
  BY <1>2, CompTypes, WorkerTypes, WorkersWork, WorkersKeep DEF CInv
<1>3. CASE Restart
  BY <1>3, RestartWorks, RestartKeeps DEF CInv
<1>4. CASE UNCHANGED allVars
  BY <1>4, StillInv
<1> QED
  BY <1>1, <1>2, <1>3, <1>4 DEF CompNext

\* The inductive invariant holds in every reachable state.
THEOREM CompInvariant == CompSpec => []CInv
BY CompInitInv, CompNextInv, PTL DEF CompSpec

\* Every variable keeps its type, next to the bets: in particular a worker is
\* at one of its calls, with a row it has listed (Reconciler and
\* OrphanReconciler).
THEOREM CompTypesHold == CompSpec => []CompTypeOK
<1>1. CInv => CompTypeOK
  BY DEF CInv
<1> QED
  BY <1>1, CompInvariant, PTL

LEMMA Resolved == CInv => RoundsResolvedSafely
<1> SUFFICES ASSUME CInv
             PROVE  RoundsResolvedSafely
  OBVIOUS
<1>1. NotPaidAndRefunded
  BY DEF CInv, CaseInv, RowsAnswered, NotPaidAndRefunded
<1>2. SettledNotRefunded
  BY DEF CInv, CaseInv, RowFollows, AnsweredKept, SettledNotRefunded, Over, Answers
<1>3. DoneOpIsPaid /\ DoneTxIsResolved /\ GivenUpIsReported
  BY DEF CInv, WorkInv
<1> QED
  BY <1>1, <1>2, <1>3 DEF RoundsResolvedSafely

\* Requests and reconcilers resolve a round the way the player was told: it is
\* not both paid and refunded, a settled bet is not refunded, and a row is
\* closed or given up only for a reason the wallet, the ledger or the dead
\* letters show; for any number of requests, loops and processes.
THEOREM RoundsSafe == CompSpec => []RoundsResolvedSafely
BY Resolved, CompInvariant, PTL

=============================================================================
