----------------------------- MODULE RoundStore -----------------------------
(***************************************************************************)
(* The MySQL rows of a round that the RGS and the rollback service share:  *)
(* wallet_pending_ops and pending_transactions (internal/model), the       *)
(* game_transactions ledger and the outbox.  All of them are keyed by the  *)
(* round, and the updates below are unconditional: none looks at the       *)
(* status it overwrites.                                                   *)
(*                                                                         *)
(* expected_action of pending_transactions is not kept: every statement    *)
(* writes it together with phase, rollback_bet with bet_debited,           *)
(* settle_win (and a positive win_amount) with win_pending, none with      *)
(* settled.  A round is paid by one RGS call at most, so that win_failed   *)
(* and win_timeout never have a row each.                                  *)
(***************************************************************************)
EXTENDS BetRequests

CONSTANT BigWins    \* rounds whose multiplier is announced as a big win

ASSUME RoundStoreAssumption == BigWins \subseteq Rounds

VARIABLES
    pendOps,    \* wallet_pending_ops row of a round
    pendTx,     \* pending_transactions row of a round
    ledger,     \* idempotency keys of game_transactions
    events      \* events registered in the outbox

storeVars == <<pendOps, pendTx, ledger, events>>

RowStatuses == {"none", "pending", "done", "failed"}    \* "none": no row
Phases      == {"bet_debited", "win_pending", "settled"}
OpRows      == [status : RowStatuses, retry : Nat]
TxRows      == [status : RowStatuses, phase : Phases, retry : Nat]
LedgerKeys  == Rounds \X {"BET", "WIN", "ROLLBACK"} \X {"SUCCESS", "PENDING_RETRY"}
EventKeys   == Rounds \X {"settled", "bigwin"}

StoreTypeOK ==
    /\ pendOps \in [Rounds -> OpRows]
    /\ pendTx \in [Rounds -> TxRows]
    /\ ledger \subseteq LedgerKeys
    /\ events \subseteq EventKeys

StoreInit ==
    /\ pendOps = [r \in Rounds |-> [status |-> "none", retry |-> 0]]
    /\ pendTx = [r \in Rounds |-> [status |-> "none", phase |-> "bet_debited", retry |-> 0]]
    /\ ledger = {}
    /\ events = {}

-----------------------------------------------------------------------------
(* wallet_pending_ops *)

\* Insert: an upsert that makes the row pending and keeps its retry_count.
InsertPendingOp(r) ==
    /\ pendOps' = [pendOps EXCEPT ![r] = [status |-> "pending", retry |-> @.retry]]
    /\ UNCHANGED <<pendTx, ledger, events>>

\* MarkDone and MarkFailed: the worker has the id of the row, it exists.
MarkOp(r, status) ==
    /\ pendOps' = [pendOps EXCEPT ![r] = [status |-> status, retry |-> @.retry]]
    /\ UNCHANGED <<pendTx, ledger, events>>

IncrementOpRetry(r) ==
    /\ pendOps' = [pendOps EXCEPT ![r] = [status |-> @.status, retry |-> @.retry + 1]]
    /\ UNCHANGED <<pendTx, ledger, events>>

-----------------------------------------------------------------------------
(* pending_transactions *)

\* Mutant of InsertPendingTx: expected_action lands in the phase column.
InsertPendingTxSwapped(r) ==
    /\ pendTx' = [pendTx EXCEPT ![r] =
                    [status |-> "pending", phase |-> "rollback_bet", retry |-> @.retry]]
    /\ UNCHANGED <<pendOps, ledger, events>>

\* Insert: an upsert that puts an existing row back to a pending bet.
InsertPendingTx(r) ==
    /\ pendTx' = [pendTx EXCEPT ![r] =
                    [status |-> "pending", phase |-> "bet_debited", retry |-> @.retry]]
    /\ UNCHANGED <<pendOps, ledger, events>>

\* An UPDATE by merchant and round: without a row it changes nothing.
UpdatedTx(r, status, phase) ==
    IF pendTx[r].status = "none" THEN pendTx
    ELSE [pendTx EXCEPT ![r] = [status |-> status, phase |-> phase, retry |-> @.retry]]

MarkWinPending(r) ==
    /\ pendTx' = UpdatedTx(r, "pending", "win_pending")
    /\ UNCHANGED <<pendOps, ledger, events>>

MarkTxDone(r) ==
    /\ pendTx' = UpdatedTx(r, "done", "settled")
    /\ UNCHANGED <<pendOps, ledger, events>>

\* Mutant of MarkTxFailed: the status is written to phase as well.
MarkTxFailedPhase(r) ==
    /\ pendTx' = UpdatedTx(r, "failed", "failed")
    /\ UNCHANGED <<pendOps, ledger, events>>

MarkTxFailed(r) ==
    /\ pendTx' = UpdatedTx(r, "failed", pendTx[r].phase)
    /\ UNCHANGED <<pendOps, ledger, events>>

IncrementTxRetry(r) ==
    /\ pendTx' = [pendTx EXCEPT ![r] =
                    [status |-> @.status, phase |-> @.phase, retry |-> @.retry + 1]]
    /\ UNCHANGED <<pendOps, ledger, events>>

-----------------------------------------------------------------------------
(* The ledger and the outbox *)

\* Poster.Post: the unique key (merchant, round, type, status) turns a
\* repeated posting into a no-op.  How balances are chained is the subject
\* of LedgerPoster.
PostLedger(r, type, status) ==
    /\ ledger' = ledger \cup {<<r, type, status>>}
    /\ UNCHANGED <<pendOps, pendTx, events>>

\* recordSettled, one transaction: ledger entry of a winning round,
\* MarkSettled, replay, the settled event and the big-win event.
RecordSettled(r, winning) ==
    /\ ledger' = IF winning THEN ledger \cup {<<r, "WIN", "SUCCESS">>} ELSE ledger
    /\ pendTx' = UpdatedTx(r, "done", "settled")
    /\ events' = events \cup {<<r, "settled">>}
                        \cup {<<b, "bigwin">> : b \in BigWins \cap {r}}
    /\ UNCHANGED pendOps

=============================================================================
