------------------------------ MODULE BetFlow ------------------------------
(***************************************************************************)
(* BetLogic.Bet (services/rgs/internal/logic/betLogic.go): what one bet    *)
(* request does to Redis, the operator's wallet and MySQL, one step per    *)
(* remote call.  Requests of one player run concurrently in one or more    *)
(* RGS processes; a client that retries a round sends another request with *)
(* the same roundId.                                                       *)
(*                                                                         *)
(* Any call may fail, before it took effect or after (its answer is lost); *)
(* processes may die at any step, and the 3 s lock may run out under a     *)
(* request that is still working.                                          *)
(***************************************************************************)
EXTENDS RedisLock, IdempotentStore, SessionStore, SeamlessWallet, RoundStore, FiniteSets

CONSTANTS
    Winning,        \* rounds the generator lets the player win
    MaxFaults,      \* bound: failed Redis and MySQL calls, failed computations
    MaxCrashes,     \* bound: process deaths
    MaxOverruns     \* bound: locks that expire under a working request

ASSUME BetFlowAssumption ==
    /\ Winning \subseteq Rounds
    /\ BigWins \subseteq Winning
    /\ MaxFaults \in Nat /\ MaxCrashes \in Nat /\ MaxOverruns \in Nat

VARIABLES
    pc,             \* the call a request makes next
    resp,           \* the answer it has composed so far
    faults, crashes, overruns

betVars == <<pc, resp, faults, crashes, overruns>>
vars == <<lockVars, idemVars, sessionVars, walletVars, storeVars, betVars>>

BeforeLock == {"start", "acquire"}
\* Between ClaimWithToken and the end of SaveResult or ReleaseClaim.
Paying     == {"postBet", "insertTx", "compute", "win", "pendOp", "markWin",
               "pendLedger", "record", "save"}
Owning     == {"config", "bet", "unclaim"} \cup Paying
\* ... and before the insert into pending_transactions.
NoRowYet   == {"config", "bet", "unclaim", "postBet", "insertTx"}
InLock     == {"locked", "readSeq", "writeSeq", "claim", "wait"} \cup Owning
                \cup {"release", "unlock"}
Ended      == {"done", "crashed"}
Steps      == BeforeLock \cup InLock \cup Ended
Answers    == {"settled", "pending"}

BetTypeOK ==
    /\ pc \in [Handlers -> Steps]
    /\ resp \in [Handlers -> Answers \cup {"none", "error"}]
    /\ faults \in 0..MaxFaults
    /\ crashes \in 0..MaxCrashes
    /\ overruns \in 0..MaxOverruns

\* The type invariant.
TypeOK ==
    /\ LockTypeOK /\ IdemTypeOK /\ SessionTypeOK
    /\ WalletTypeOK /\ StoreTypeOK /\ BetTypeOK

Init ==
    /\ LockInit /\ IdemInit /\ SessionInit /\ WalletInit /\ StoreInit
    /\ pc = [h \in Handlers |-> "start"]
    /\ resp = [h \in Handlers |-> "none"]
    /\ faults = 0 /\ crashes = 0 /\ overruns = 0

-----------------------------------------------------------------------------
(* Control of one request *)

Goto(h, step) ==
    /\ pc' = [pc EXCEPT ![h] = step]
    /\ UNCHANGED resp

Respond(h, answer, step) ==
    /\ pc' = [pc EXCEPT ![h] = step]
    /\ resp' = [resp EXCEPT ![h] = answer]

Fault ==
    /\ faults < MaxFaults
    /\ faults' = faults + 1

\* A call that fails for its caller: it changed nothing, or its answer is lost.
Fails(effect, store) == Fault /\ (effect \/ UNCHANGED store)

-----------------------------------------------------------------------------
(* Before the lock *)

\* The first GetResult, outside the lock.
CheckCache(h) ==
    /\ pc[h] = "start"
    /\ \/ HasResult(RoundOf[h]) /\ Respond(h, result[RoundOf[h]], "done") /\ UNCHANGED faults
       \/ ~HasResult(RoundOf[h]) /\ Goto(h, "acquire") /\ UNCHANGED faults
       \/ Fault /\ Respond(h, "error", "done")
    /\ UNCHANGED <<lockVars, idemVars, sessionVars, walletVars, storeVars, crashes, overruns>>

\* WithLock: without the lock the request ends, ErrBusy or an error.
AcquireLock(h) ==
    /\ pc[h] = "acquire"
    /\ \/ Acquire(h) /\ Goto(h, "locked") /\ UNCHANGED faults
       \/ AcquireBusy(h) /\ Respond(h, "error", "done") /\ UNCHANGED faults
       \/ Fails(AcquireUnanswered(h), lockVars) /\ Respond(h, "error", "done")
    /\ UNCHANGED <<idemVars, sessionVars, walletVars, storeVars, crashes, overruns>>

-----------------------------------------------------------------------------
(* Under the lock, until the round is claimed *)

\* The second GetResult.
DoubleCheck(h) ==
    /\ pc[h] = "locked"
    /\ \/ HasResult(RoundOf[h]) /\ Respond(h, result[RoundOf[h]], "release") /\ UNCHANGED faults
       \/ ~HasResult(RoundOf[h]) /\ Goto(h, "readSeq") /\ UNCHANGED faults
       \/ Fault /\ Respond(h, "error", "release")
    /\ UNCHANGED <<lockVars, idemVars, sessionVars, walletVars, storeVars, crashes, overruns>>

ConsumeSequenceGet(h) ==
    /\ pc[h] = "readSeq"
    /\ \/ ReadSequence(h) /\ Goto(h, "writeSeq") /\ UNCHANGED faults
       \/ SequenceMismatch(h) /\ Respond(h, "error", "release") /\ UNCHANGED faults
       \/ Fault /\ Respond(h, "error", "release") /\ UNCHANGED sessionVars
    /\ UNCHANGED <<lockVars, idemVars, walletVars, storeVars, crashes, overruns>>

\* ... and the check of the clientSeed, which comes after the counter moved.
ConsumeSequenceSet(h) ==
    /\ pc[h] = "writeSeq"
    /\ \/ WriteSequence(h) /\ Goto(h, "claim") /\ UNCHANGED faults
       \/ WriteSequence(h) /\ Respond(h, "error", "release") /\ UNCHANGED faults
       \/ Fails(WriteSequence(h), sessionVars) /\ Respond(h, "error", "release")
    /\ UNCHANGED <<lockVars, idemVars, walletVars, storeVars, crashes, overruns>>

ClaimRound(h) ==
    /\ pc[h] = "claim"
    /\ \/ ClaimWithToken(RoundOf[h], TokenOf[h]) /\ Goto(h, "config") /\ UNCHANGED faults
       \/ ClaimTaken(RoundOf[h], TokenOf[h]) /\ Goto(h, "wait") /\ UNCHANGED faults
       \/ /\ TokenReused(RoundOf[h], TokenOf[h])
          /\ Respond(h, "error", "release") /\ UNCHANGED <<idemVars, faults>>
       \/ Fails(ClaimWithToken(RoundOf[h], TokenOf[h]), idemVars)
          /\ Respond(h, "error", "release")
    /\ UNCHANGED <<lockVars, sessionVars, walletVars, storeVars, crashes, overruns>>

\* WaitAndGetResult: the result turns up within 500 ms, or ErrDuplicateRound.
\* An error of the poll ends like a result that did not turn up.
AwaitResult(h) ==
    /\ pc[h] = "wait"
    /\ \/ HasResult(RoundOf[h]) /\ Respond(h, result[RoundOf[h]], "release")
       \/ Respond(h, "error", "release")
    /\ UNCHANGED <<lockVars, idemVars, sessionVars, walletVars, storeVars,
                   faults, crashes, overruns>>

-----------------------------------------------------------------------------
(* The round is claimed *)

LoadConfig(h) ==
    /\ pc[h] = "config"
    /\ \/ Goto(h, "bet") /\ UNCHANGED faults
       \/ Fault /\ Goto(h, "unclaim")
    /\ UNCHANGED <<lockVars, idemVars, sessionVars, walletVars, storeVars, crashes, overruns>>

\* Mutant of DebitBet: the request returns without releasing the claim.
DebitBetKeepingClaim(h) ==
    /\ pc[h] = "bet"
    /\ \E o \in WalletOutcomes :
          /\ WalletBet(RoundOf[h], o)
          /\ IF o = "ok" THEN Goto(h, "postBet") ELSE Respond(h, "error", "release")
    /\ UNCHANGED <<lockVars, idemVars, sessionVars, storeVars, faults, crashes, overruns>>

\* wallet.Bet.  Every error, a timeout among them, releases the claim.
DebitBet(h) ==
    /\ pc[h] = "bet"
    /\ \E o \in WalletOutcomes :
          /\ WalletBet(RoundOf[h], o)
          /\ Goto(h, IF o = "ok" THEN "postBet" ELSE "unclaim")
    /\ UNCHANGED <<lockVars, idemVars, sessionVars, storeVars, faults, crashes, overruns>>

\* ReleaseClaim; its error is ignored.
Unclaim(h) ==
    /\ pc[h] = "unclaim"
    /\ \/ ReleaseClaim(RoundOf[h]) /\ UNCHANGED faults
       \/ Fails(ReleaseClaim(RoundOf[h]), idemVars)
    /\ Respond(h, "error", "release")
    /\ UNCHANGED <<lockVars, sessionVars, walletVars, storeVars, crashes, overruns>>

-----------------------------------------------------------------------------
(* The bet is debited.  The bookkeeping calls only log their errors. *)

\* A bookkeeping call: the request goes on whether it succeeds or not.
Book(effect) == (effect /\ UNCHANGED faults) \/ Fails(effect, storeVars)

PostBet(h) ==
    /\ pc[h] = "postBet"
    /\ Book(PostLedger(RoundOf[h], "BET", "SUCCESS"))
    /\ Goto(h, "insertTx")
    /\ UNCHANGED <<lockVars, idemVars, sessionVars, walletVars, crashes, overruns>>

\* Mutant of InsertTx: only rounds that win get a row.
InsertTxOfWinners(h) ==
    /\ pc[h] = "insertTx"
    /\ IF RoundOf[h] \in Winning THEN Book(InsertPendingTx(RoundOf[h]))
       ELSE UNCHANGED <<storeVars, faults>>
    /\ Goto(h, "compute")
    /\ UNCHANGED <<lockVars, idemVars, sessionVars, walletVars, crashes, overruns>>

InsertTx(h) ==
    /\ pc[h] = "insertTx"
    /\ Book(InsertPendingTx(RoundOf[h]))
    /\ Goto(h, "compute")
    /\ UNCHANGED <<lockVars, idemVars, sessionVars, walletVars, crashes, overruns>>

\* ComputeReplay.  Its error ends the request with the claim still PENDING.
Compute(h) ==
    /\ pc[h] = "compute"
    /\ \/ RoundOf[h] \in Winning /\ Goto(h, "win") /\ UNCHANGED faults
       \/ RoundOf[h] \notin Winning /\ Respond(h, "settled", "record") /\ UNCHANGED faults
       \/ Fault /\ Respond(h, "error", "release")
    /\ UNCHANGED <<lockVars, idemVars, sessionVars, walletVars, storeVars, crashes, overruns>>

\* Mutant of CreditWin: the error of wallet.Win is ignored.
CreditWinUnchecked(h) ==
    /\ pc[h] = "win"
    /\ \E o \in WalletOutcomes : WalletWin(RoundOf[h], o)
    /\ Respond(h, "settled", "record")
    /\ UNCHANGED <<lockVars, idemVars, sessionVars, storeVars, faults, crashes, overruns>>

CreditWin(h) ==
    /\ pc[h] = "win"
    /\ \E o \in WalletOutcomes :
          /\ WalletWin(RoundOf[h], o)
          /\ IF o = "ok" THEN Respond(h, "settled", "record") ELSE Respond(h, "pending", "pendOp")
    /\ UNCHANGED <<lockVars, idemVars, sessionVars, storeVars, faults, crashes, overruns>>

\* Mutant of RecordPendingOp: the row is not inserted.
RecordPendingOpSkipped(h) ==
    /\ pc[h] = "pendOp"
    /\ Goto(h, "markWin")
    /\ UNCHANGED <<lockVars, idemVars, sessionVars, walletVars, storeVars, faults, crashes,
                   overruns>>

\* recordPending, with a context of its own.
RecordPendingOp(h) ==
    /\ pc[h] = "pendOp"
    /\ Book(InsertPendingOp(RoundOf[h]))
    /\ Goto(h, "markWin")
    /\ UNCHANGED <<lockVars, idemVars, sessionVars, walletVars, crashes, overruns>>

MarkPending(h) ==
    /\ pc[h] = "markWin"
    /\ Book(MarkWinPending(RoundOf[h]))
    /\ Goto(h, "pendLedger")
    /\ UNCHANGED <<lockVars, idemVars, sessionVars, walletVars, crashes, overruns>>

PostPendingWin(h) ==
    /\ pc[h] = "pendLedger"
    /\ Book(PostLedger(RoundOf[h], "WIN", "PENDING_RETRY"))
    /\ Goto(h, "save")
    /\ UNCHANGED <<lockVars, idemVars, sessionVars, walletVars, crashes, overruns>>

Record(h) ==
    /\ pc[h] = "record"
    /\ Book(RecordSettled(RoundOf[h], RoundOf[h] \in Winning))
    /\ Goto(h, "save")
    /\ UNCHANGED <<lockVars, idemVars, sessionVars, walletVars, crashes, overruns>>

Save(h) ==
    /\ pc[h] = "save"
    /\ \/ SaveResult(RoundOf[h], resp[h]) /\ UNCHANGED faults
       \/ Fails(SaveResult(RoundOf[h], resp[h]), idemVars)
       \/ Fault /\ SaveResultHalf(RoundOf[h], resp[h])
    /\ Goto(h, "release")
    /\ UNCHANGED <<lockVars, sessionVars, walletVars, storeVars, crashes, overruns>>

-----------------------------------------------------------------------------
(* The deferred Release *)

ReleaseToken(h) ==
    /\ pc[h] = "release"
    /\ TakeToken(h)
    /\ Goto(h, "unlock")
    /\ UNCHANGED <<idemVars, sessionVars, walletVars, storeVars, faults, crashes, overruns>>

ReleaseLock(h) ==
    /\ pc[h] = "unlock"
    /\ \/ EvalUnlock(h) /\ UNCHANGED faults
       \/ Fails(EvalUnlock(h), lockVars)
    /\ Goto(h, "done")
    /\ UNCHANGED <<idemVars, sessionVars, walletVars, storeVars, crashes, overruns>>

-----------------------------------------------------------------------------
(* The environment *)

InProgress(h) == pc[h] \notin {"start"} \cup Ended

\* A process dies with every request it serves and is started again.
Crash(p) ==
    /\ crashes < MaxCrashes
    /\ \E h \in Handlers : PodOf[h] = p /\ InProgress(h)
    /\ pc' = [h \in Handlers |-> IF PodOf[h] = p /\ InProgress(h) THEN "crashed" ELSE pc[h]]
    /\ LosePod(p)
    /\ crashes' = crashes + 1
    /\ UNCHANGED <<idemVars, sessionVars, walletVars, storeVars, resp, faults, overruns>>

\* The 3 s TTL: the holder is gone, or the lock is overrun.
ExpireLock ==
    /\ Expire
    /\ \/ pc[lock] \notin InLock /\ UNCHANGED overruns
       \/ /\ pc[lock] \in InLock
          /\ overruns < MaxOverruns
          /\ overruns' = overruns + 1
    /\ UNCHANGED <<idemVars, sessionVars, walletVars, storeVars, pc, resp, faults, crashes>>

Step(h) ==
    \/ CheckCache(h) \/ AcquireLock(h) \/ DoubleCheck(h)
    \/ ConsumeSequenceGet(h) \/ ConsumeSequenceSet(h)
    \/ ClaimRound(h) \/ AwaitResult(h) \/ LoadConfig(h)
    \/ DebitBet(h) \/ Unclaim(h) \/ PostBet(h) \/ InsertTx(h) \/ Compute(h)
    \/ CreditWin(h) \/ RecordPendingOp(h) \/ MarkPending(h) \/ PostPendingWin(h)
    \/ Record(h) \/ Save(h) \/ ReleaseToken(h) \/ ReleaseLock(h)

Next ==
    \/ \E h \in Handlers : Step(h)
    \/ \E p \in Pods : Crash(p)
    \/ ExpireLock

Spec == Init /\ [][Next]_vars

-----------------------------------------------------------------------------
(* Properties *)

\* A round is worked on by one request at a time, whatever becomes of the
\* lock: the claim of ClaimWithToken, not the lock, keeps the requests apart.
ClaimExclusive ==
    \A g, h \in Handlers :
        pc[g] \in Owning /\ pc[h] \in Owning /\ RoundOf[g] = RoundOf[h] => g = h

\* The RGS calls wallet.Win for a round once, even when locks are overrun,
\* processes die and clients retry, and with a wallet that pays every call.
PaidOnce == \A r \in Rounds : wins[r] <= 1

\* Every request of a round that is told "settled" or "pending" is told the
\* same: the first answer, composed or read back from the cache.
AnswersAgree ==
    \A g, h \in Handlers :
        RoundOf[g] = RoundOf[h] /\ resp[g] \in Answers /\ resp[h] \in Answers
            => resp[g] = resp[h]

\* A settled event stands for money that moved: the bet was debited, a
\* winning round was paid and its ledger entry written, and no request of
\* the round is told "pending" (recordSettled runs after the wallet calls).
EventBacked ==
    \A r \in Rounds :
        <<r, "settled">> \in events =>
            /\ bets[r] > 0
            /\ r \in Winning => wins[r] > 0 /\ <<r, "WIN", "SUCCESS">> \in ledger
            /\ \A h \in Handlers : RoundOf[h] = r => resp[h] # "pending"

\* A round has one result, however many requests ask for it: one request at a
\* time works on it, the wallet is told of the win once, every request that
\* is answered is answered alike, and the settled event tells what happened.
OneResultPerRound ==
    /\ ClaimExclusive
    /\ PaidOnce
    /\ AnswersAgree
    /\ EventBacked

\* The saved answer of a round is never replaced by a different one.
ResultStable ==
    [][\A r \in Rounds : result[r] # "none" => result'[r] = result[r]]_vars

\* As long as no lock runs out under a working request, the bets of the
\* player are serialised, crashes and failed releases notwithstanding.
LockExclusive ==
    overruns = 0 =>
        \A g, h \in Handlers : pc[g] \in InLock /\ pc[h] \in InLock => g = h

\* ConsumeSequence is a GET and a SET: that a sequenceId is consumed once
\* rests on the lock.
SequenceConsumedOnce ==
    overruns = 0 =>
        \A g, h \in accepted : SeqOf[g] = SeqOf[h] => g = h

\* What the player lock is for: one bet of a player at a time, so that the
\* GET and SET of ConsumeSequence are one step.
OnePlayerAtATime == LockExclusive /\ SequenceConsumedOnce

\* An answer "pending" has a row from which the win will be paid: one failed
\* call cannot lose both wallet_pending_ops and pending_transactions.
PendingAnswerRecorded ==
    \A h \in Handlers :
        resp[h] = "pending" /\ pc[h] \in {"release", "unlock", "done"} /\ faults <= 1 =>
            \/ pendOps[RoundOf[h]].status = "pending"
            \/ pendTx[RoundOf[h]].status = "pending" /\ pendTx[RoundOf[h]].phase = "win_pending"

\* The rounds that stay claimed without an answer though nobody works on them
\* or died doing so: every retry is told ErrDuplicateRound for 24 hours.
Stranded ==
    {r \in Rounds :
        /\ claim[r] = "PENDING" /\ result[r] = "none"
        /\ \A h \in Handlers : RoundOf[h] = r => pc[h] \notin Owning \cup {"crashed"}}

\* A failed call strands the claim of one round at most, that of another request
\* or of a retry never; a process that dies, those of its own requests only.
ClaimsResolved == Cardinality(Stranded) <= faults

\* The rounds that were debited and are claimed, that no request is about to
\* put into pending_transactions or died before it could, and that are not there.
Forgotten ==
    {r \in Rounds :
        /\ bets[r] > 0 /\ claim[r] # "none" /\ pendTx[r].status = "none"
        /\ \A h \in Handlers : RoundOf[h] = r => pc[h] \notin NoRowYet \cup {"crashed"}}

\* A debit is not forgotten: a failed call can keep one round at most from the
\* reconcilers, and a death between wallet.Bet and PendingTx.Insert leaves the round
\* claimed, so that no retry debits it again.  A round that was debited and may be
\* claimed again was not answered: a request of it was told an error.
DebitsRemembered ==
    /\ Cardinality(Forgotten) <= faults
    /\ \A r \in Rounds :
          bets[r] > 0 /\ claim[r] = "none"
             => \E h \in Handlers : RoundOf[h] = r /\ resp[h] = "error"

\* The comment at the release of the claim: "the debit did not succeed".
\* A round that may be claimed again was not debited.
ReleasedClaimNotDebited == \A r \in Rounds : claim[r] = "none" => bets[r] = 0

=============================================================================
