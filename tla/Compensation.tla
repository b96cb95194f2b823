---------------------------- MODULE Compensation ----------------------------
(***************************************************************************)
(* The rollback service (services/rollback/internal/worker) next to the    *)
(* bets of BetFlow.  Two kinds of loops work off what bets leave behind:   *)
(*                                                                         *)
(*   Reconciler        pays the wins of wallet_pending_ops;                *)
(*   OrphanReconciler  asks the wallet about old pending_transactions, and *)
(*                     pays the win, refunds the bet, or closes the row.   *)
(*                                                                         *)
(* Both list their rows once per tick and then act on that snapshot, one   *)
(* row after the other, whatever happens to the rows meanwhile.  Ops of    *)
(* type "rollback" are not modelled: nothing inserts one.                  *)
(***************************************************************************)
EXTENDS BetFlow

CONSTANTS
    OpWorkers,          \* goroutines of Reconciler
    TxWorkers,          \* goroutines of OrphanReconciler
    MaxRetries,         \* maxRetries and orphanMaxRetries, 10 in the code
    MaxWorkerCrashes    \* bound: restarts of the rollback service

ASSUME CompensationAssumption ==
    /\ OpWorkers \cap TxWorkers = {}
    /\ MaxRetries \in Nat \ {0}
    /\ MaxWorkerCrashes \in Nat

VARIABLES
    stage,      \* what a worker does next
    batch,      \* the rows of its listing it has not come to yet
    row,        \* the row it works on
    dlq,        \* rounds published to game.reconcile.dlq, by table
    restarts

Workers  == OpWorkers \cup TxWorkers
compVars == <<stage, batch, row, dlq, restarts>>
allVars  == <<vars, compVars>>

Rows == [round : Rounds, retry : Nat, phase : Phases]
NoRow == [round |-> NoRound, retry |-> 0, phase |-> "settled"]

Stages == {"idle", "loop", "check", "win", "rollback", "ledgerWin", "ledgerRollback",
           "done", "bump", "dlq", "failed"}

\* The type invariant.
CompTypeOK ==
    /\ TypeOK
    /\ stage \in [Workers -> Stages]
    /\ batch \in [Workers -> SUBSET Rows]
    /\ row \in [Workers -> Rows \cup {NoRow}]
    /\ dlq \subseteq Rounds \X {"wallet_pending_ops", "pending_transactions"}
    /\ restarts \in 0..MaxWorkerCrashes

CompInit ==
    /\ Init
    /\ stage = [w \in Workers |-> "idle"]
    /\ batch = [w \in Workers |-> {}]
    /\ row = [w \in Workers |-> NoRow]
    /\ dlq = {}
    /\ restarts = 0

-----------------------------------------------------------------------------
(* Control of a worker *)

\* The worker goes to another stage and leaves everything of the bets alone
\* but the variables its call works on.
Proceed(w, s) ==
    /\ stage' = [stage EXCEPT ![w] = s]
    /\ UNCHANGED <<batch, row, dlq, restarts>>

BetRest == <<lockVars, idemVars, sessionVars, pc, resp, crashes, overruns>>

\* Mutant of Answered: the error of the call is ignored.
AnsweredUnchecked(w, o, ok) ==
    /\ Proceed(w, ok)
    /\ UNCHANGED <<BetRest, storeVars, faults>>

\* Where a worker goes on after a wallet call that ended with outcome o.
Answered(w, o, ok) ==
    /\ Proceed(w, IF o = "ok" THEN ok ELSE "bump")
    /\ UNCHANGED <<BetRest, storeVars, faults>>

\* A statement of a worker on a row; its error is only logged.
Write(w, effect, next) ==
    /\ Book(effect)
    /\ Proceed(w, next)
    /\ UNCHANGED <<BetRest, walletVars>>

-----------------------------------------------------------------------------
(* Listing *)

PendingOps ==
    {[round |-> r, retry |-> pendOps[r].retry, phase |-> "win_pending"] :
        r \in {q \in Rounds : pendOps[q].status = "pending"}}

\* Mutant of Old: the listing takes rows of any age.
AnyAge(r) == TRUE

\* A row is listed when it is a minute old.  An RGS request is over after
\* 30 s, so that no request is still working on the round of a listed row.
Old(r) == \A h \in Handlers : RoundOf[h] = r => pc[h] \notin Paying

StalePending ==
    {[round |-> r, retry |-> pendTx[r].retry, phase |-> pendTx[r].phase] :
        r \in {q \in Rounds : pendTx[q].status = "pending" /\ Old(q)}}

\* A tick that finds rows.  One that finds none, or fails, changes nothing.
List(w) ==
    /\ stage[w] = "idle"
    /\ LET rows == IF w \in OpWorkers THEN PendingOps ELSE StalePending
       IN  rows # {} /\ batch' = [batch EXCEPT ![w] = rows]
    /\ stage' = [stage EXCEPT ![w] = "loop"]
    /\ UNCHANGED <<vars, row, dlq, restarts>>

\* Mutant of TakeRow: the limit counts the attempt to come.
TakeRowEarly(w) ==
    /\ stage[w] = "loop"
    /\ \E x \in batch[w] :
          /\ row' = [row EXCEPT ![w] = x]
          /\ batch' = [batch EXCEPT ![w] = @ \ {x}]
          /\ stage' = [stage EXCEPT ![w] =
                         IF x.retry + 1 >= MaxRetries THEN "dlq"
                         ELSE IF w \in OpWorkers THEN "win" ELSE "check"]
    /\ UNCHANGED <<vars, dlq, restarts>>

\* The head of the loop: a row out of retries goes to the dead letters.
TakeRow(w) ==
    /\ stage[w] = "loop"
    /\ \E x \in batch[w] :
          /\ row' = [row EXCEPT ![w] = x]
          /\ batch' = [batch EXCEPT ![w] = @ \ {x}]
          /\ stage' = [stage EXCEPT ![w] =
                         IF x.retry >= MaxRetries THEN "dlq"
                         ELSE IF w \in OpWorkers THEN "win" ELSE "check"]
    /\ UNCHANGED <<vars, dlq, restarts>>

EndOfBatch(w) ==
    /\ stage[w] = "loop" /\ batch[w] = {}
    /\ stage' = [stage EXCEPT ![w] = "idle"]
    /\ row' = [row EXCEPT ![w] = NoRow]
    /\ UNCHANGED <<vars, batch, dlq, restarts>>

-----------------------------------------------------------------------------
(* One row *)

\* Mutant of CheckTransaction: the expected action of the row is not looked at.
CheckTransactionBlindly(w) ==
    /\ stage[w] = "check"
    /\ LET status == txStatus[row[w].round]
       IN  \/ status \in {"settled", "rolled_back"} /\ Proceed(w, "done")
           \/ status \in {"bet_only", "not_found"} /\ Proceed(w, "rollback")
           \/ WalletOutcomes # {"ok"} /\ Proceed(w, "bump")
    /\ UNCHANGED vars

\* Mutant of CheckTransaction: a bet nobody settled is closed as it is.
CheckTransactionClosing(w) ==
    /\ stage[w] = "check"
    /\ LET status == txStatus[row[w].round]
       IN  \/ status # "bet_only" /\ Proceed(w, "done")
           \/ status = "bet_only"
              /\ Proceed(w, IF row[w].phase = "win_pending" THEN "win" ELSE "done")
           \/ WalletOutcomes # {"ok"} /\ Proceed(w, "bump")
    /\ UNCHANGED vars

\* reconcileOne: CheckTransaction and the switch on its answer.
CheckTransaction(w) ==
    /\ stage[w] = "check"
    /\ LET status == txStatus[row[w].round]
       IN  \/ status \in {"settled", "rolled_back"} /\ Proceed(w, "done")
           \/ /\ status = "bet_only" /\ row[w].phase = "win_pending"
              /\ Proceed(w, "win")
           \/ /\ status \in {"bet_only", "not_found"}
              /\ ~(status = "bet_only" /\ row[w].phase = "win_pending")
              /\ Proceed(w, "rollback")
           \/ WalletOutcomes # {"ok"} /\ Proceed(w, "bump")
    /\ UNCHANGED vars

RetryWin(w) ==
    /\ stage[w] = "win"
    /\ \E o \in WalletOutcomes :
          WalletWin(row[w].round, o) /\ Answered(w, o, "ledgerWin")

RollbackBet(w) ==
    /\ stage[w] = "rollback"
    /\ \E o \in WalletOutcomes :
          WalletRollback(row[w].round, o) /\ Answered(w, o, "ledgerRollback")

PostWin(w) ==
    /\ stage[w] = "ledgerWin"
    /\ Write(w, PostLedger(row[w].round, "WIN", "SUCCESS"), "done")

PostRollback(w) ==
    /\ stage[w] = "ledgerRollback"
    /\ Write(w, PostLedger(row[w].round, "ROLLBACK", "SUCCESS"), "done")

MarkDone(w) ==
    /\ stage[w] = "done"
    /\ Write(w, IF w \in OpWorkers THEN MarkOp(row[w].round, "done")
                ELSE MarkTxDone(row[w].round), "loop")

\* Mutant of IncrementRetry: the failed attempt is not counted.
IncrementRetrySkipped(w) ==
    /\ stage[w] = "bump"
    /\ Proceed(w, "loop")
    /\ UNCHANGED vars

IncrementRetry(w) ==
    /\ stage[w] = "bump"
    /\ Write(w, IF w \in OpWorkers THEN IncrementOpRetry(row[w].round)
                ELSE IncrementTxRetry(row[w].round), "loop")

\* publishReconcileDLQ returns nothing: a failed publish, or no producer at
\* all, goes on like a successful one.
PublishDLQ(w) ==
    /\ stage[w] = "dlq"
    /\ LET record == <<row[w].round, IF w \in OpWorkers THEN "wallet_pending_ops"
                                     ELSE "pending_transactions">>
       IN  \/ dlq' = dlq \cup {record} /\ UNCHANGED faults
           \/ Fails(dlq' = dlq \cup {record}, dlq)
    /\ stage' = [stage EXCEPT ![w] = "failed"]
    /\ UNCHANGED <<BetRest, walletVars, storeVars, batch, row, restarts>>

MarkFailed(w) ==
    /\ stage[w] = "failed"
    /\ Write(w, IF w \in OpWorkers THEN MarkOp(row[w].round, "failed")
                ELSE MarkTxFailed(row[w].round), "loop")

\* The service restarts: the listing and the position in it are lost.
Restart ==
    /\ restarts < MaxWorkerCrashes
    /\ \E w \in Workers : stage[w] # "idle"
    /\ stage' = [w \in Workers |-> "idle"]
    /\ batch' = [w \in Workers |-> {}]
    /\ row' = [w \in Workers |-> NoRow]
    /\ restarts' = restarts + 1
    /\ UNCHANGED <<vars, dlq>>

WorkerStep(w) ==
    \/ List(w) \/ TakeRow(w) \/ EndOfBatch(w)
    \/ CheckTransaction(w) \/ RetryWin(w) \/ RollbackBet(w)
    \/ PostWin(w) \/ PostRollback(w) \/ MarkDone(w) \/ IncrementRetry(w)
    \/ PublishDLQ(w) \/ MarkFailed(w)

CompNext ==
    \/ Next /\ UNCHANGED compVars
    \/ \E w \in Workers : WorkerStep(w)
    \/ Restart

CompSpec == CompInit /\ [][CompNext]_allVars

\* The scheduler runs every request and every loop: requests have timeouts
\* on all their calls, and the loops are driven by tickers.
Fairness ==
    /\ \A h \in Handlers : WF_allVars(Step(h) /\ UNCHANGED compVars)
    /\ \A w \in Workers : WF_allVars(WorkerStep(w))

FairCompSpec == CompSpec /\ Fairness

-----------------------------------------------------------------------------
(* Properties *)

\* Two loops and a request work on a round, but it is not both paid and
\* refunded, as long as the bookkeeping of the request is complete: no call
\* of MySQL or Redis failed, no RGS process died.  The wallet may fail and
\* the rollback service restart at any moment.
NotPaidAndRefunded ==
    faults = 0 /\ crashes = 0 =>
        \A r \in Rounds : wins[r] = 0 \/ refunds[r] = 0

\* A bet whose player was told "settled" is not refunded later on.
SettledNotRefunded ==
    faults = 0 =>
        \A h \in Handlers :
            pc[h] = "done" /\ resp[h] = "settled" => refunds[RoundOf[h]] = 0

\* An op is closed as done only when the player has the money, and, no
\* statement failing, when the ledger shows it.
DoneOpIsPaid ==
    \A r \in Rounds :
        pendOps[r].status = "done" =>
            /\ wins[r] > 0
            /\ faults = 0 => <<r, "WIN", "SUCCESS">> \in ledger

\* A pending transaction is closed only when its round is resolved: paid,
\* refunded, or settled by its request.
DoneTxIsResolved ==
    \A r \in Rounds :
        pendTx[r].status = "done" =>
            wins[r] > 0 \/ refunds[r] > 0 \/ <<r, "settled">> \in events

\* Only a row that was tried MaxRetries times is given up and, no call
\* failing, not without a record in the dead letter topic.
GivenUpIsReported ==
    \A r \in Rounds :
        /\ pendOps[r].status = "failed" =>
              pendOps[r].retry >= MaxRetries /\ (faults = 0 => <<r, "wallet_pending_ops">> \in dlq)
        /\ pendTx[r].status = "failed" =>
              pendTx[r].retry >= MaxRetries /\ (faults = 0 => <<r, "pending_transactions">> \in dlq)

\* The reconcilers, a request and a restart of either resolve a round the way
\* the player was told: it is paid or refunded and not both, and a row is
\* closed or given up only for a reason that can be seen afterwards.
RoundsResolvedSafely ==
    /\ NotPaidAndRefunded
    /\ SettledNotRefunded
    /\ DoneOpIsPaid
    /\ DoneTxIsResolved
    /\ GivenUpIsReported

\* No pending row is forgotten: it is worked on until it is done or failed.
RowsResolved ==
    \A r \in Rounds :
        /\ pendOps[r].status = "pending" ~> pendOps[r].status # "pending"
        /\ pendTx[r].status = "pending" ~> pendTx[r].status # "pending"

\* The comment at the orphan's retryWin: money that has arrived must have a
\* SUCCESS entry in the ledger.  A closed row of a paid round has one.
ClosedTxIsBooked ==
    \A r \in Rounds :
        pendTx[r].status = "done" /\ wins[r] > 0 => <<r, "WIN", "SUCCESS">> \in ledger

=============================================================================
