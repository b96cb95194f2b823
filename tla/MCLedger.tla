------------------------------ MODULE MCLedger ------------------------------
(***************************************************************************)
(* One player: a win that two postings book (the RGS's and a reconciler's, *)
(* or those of both reconcilers), the PENDING entry of another win, and a  *)
(* manual debit of the operator, which carries no wallet balance.          *)
(***************************************************************************)
EXTENDS LedgerPoster, TLC

CONSTANTS win, pendingWin, adjust,          \* keys
          pWin1, pWin2, pPending, pAdjust   \* postings

MCAmountOf == [k \in Keys |-> IF k = adjust THEN 1 ELSE 2]
MCKeyOf == pWin1 :> win @@ pWin2 :> win @@ pPending :> pendingWin @@ pAdjust :> adjust

=============================================================================
