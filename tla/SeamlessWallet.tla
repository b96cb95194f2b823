--------------------------- MODULE SeamlessWallet ---------------------------
(***************************************************************************)
(* The operator's wallet as the RGS and the rollback service see it: the   *)
(* operations of pkg/wallet/mock.go behind the HTTP client (http.go) and   *)
(* the breaker (breaker.go).                                               *)
(*                                                                         *)
(* A call has one of three outcomes for its caller and the wallet:         *)
(*   "ok"      the wallet moved the money and the caller knows;            *)
(*   "refused" nothing moved and the caller got an error: insufficient     *)
(*             funds, breaker open, request lost;                          *)
(*   "lost"    the money moved and the caller got an error: the answer     *)
(*             came after the timeout, or failed verification.             *)
(* The wallet executes a request, if at all, before its caller gives up.   *)
(*                                                                         *)
(* IdempotentWallet tells the two wallets the code runs against apart: the *)
(* mock moves money on every call; a production wallet is expected to      *)
(* recognise the round of a repeated call.                                 *)
(***************************************************************************)
EXTENDS BetRequests

CONSTANTS
    WalletOutcomes,     \* the outcomes the network of the model can produce
    IdempotentWallet

ASSUME SeamlessWalletAssumption ==
    /\ WalletOutcomes \subseteq {"ok", "refused", "lost"}
    /\ IdempotentWallet \in BOOLEAN

VARIABLES
    bets, wins, refunds,    \* how often money moved for a round
    txStatus                \* roundState.status of a round

walletVars == <<bets, wins, refunds, txStatus>>

TxStatuses == {"not_found", "bet_only", "settled", "rolled_back"}

WalletTypeOK ==
    /\ bets \in [Rounds -> Nat]
    /\ wins \in [Rounds -> Nat]
    /\ refunds \in [Rounds -> Nat]
    /\ txStatus \in [Rounds -> TxStatuses]

WalletInit ==
    /\ bets = [r \in Rounds |-> 0]
    /\ wins = [r \in Rounds |-> 0]
    /\ refunds = [r \in Rounds |-> 0]
    /\ txStatus = [r \in Rounds |-> "not_found"]

\* A call that moves money: not a refused one, and not a repeated one when
\* the wallet recognises it.
Moves(o, count, r) ==
    /\ o # "refused"
    /\ ~(IdempotentWallet /\ count[r] > 0)

WalletBet(r, o) ==
    \/ /\ Moves(o, bets, r)
       /\ bets' = [bets EXCEPT ![r] = @ + 1]
       /\ txStatus' = [txStatus EXCEPT ![r] = "bet_only"]
       /\ UNCHANGED <<wins, refunds>>
    \/ ~Moves(o, bets, r) /\ UNCHANGED walletVars

WalletWin(r, o) ==
    \/ /\ Moves(o, wins, r)
       /\ wins' = [wins EXCEPT ![r] = @ + 1]
       /\ txStatus' = [txStatus EXCEPT ![r] = "settled"]
       /\ UNCHANGED <<bets, refunds>>
    \/ ~Moves(o, wins, r) /\ UNCHANGED walletVars

WalletRollback(r, o) ==
    \/ /\ Moves(o, refunds, r)
       /\ refunds' = [refunds EXCEPT ![r] = @ + 1]
       /\ txStatus' = [txStatus EXCEPT ![r] = "rolled_back"]
       /\ UNCHANGED <<bets, wins>>
    \/ ~Moves(o, refunds, r) /\ UNCHANGED walletVars

=============================================================================
