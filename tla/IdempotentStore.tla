-------------------------- MODULE IdempotentStore --------------------------
(***************************************************************************)
(* The Redis keys that make a bet idempotent (pkg/idempotent/store.go):    *)
(* per round a claim key and a result key, per idempotency token the round *)
(* it is bound to.  All three live 24 hours; the model covers a time span  *)
(* shorter than that, so none of them expires.                             *)
(***************************************************************************)

EXTENDS BetRequests

CONSTANT NoRound    \* a token that is not bound

ASSUME IdempotentStoreAssumption == NoRound \notin Rounds

VARIABLES
    claim,      \* claim key of a round
    boundTo,    \* token key: the round a token is bound to
    result      \* result key: the settlement status of the saved answer

idemVars == <<claim, boundTo, result>>

ClaimValues  == {"none", "PENDING", "DONE"}
ResultValues == {"none", "settled", "pending"}

IdemTypeOK ==
    /\ claim \in [Rounds -> ClaimValues]
    /\ boundTo \in [Tokens -> Rounds \cup {NoRound}]
    /\ result \in [Rounds -> ResultValues]

IdemInit ==
    /\ claim = [r \in Rounds |-> "none"]
    /\ boundTo = [t \in Tokens |-> NoRound]
    /\ result = [r \in Rounds |-> "none"]

\* GetResult finds an answer.
HasResult(r) == result[r] # "none"

\* luaClaimWithToken returns -1: the token belongs to another round.
TokenReused(r, t) == boundTo[t] \notin {NoRound, r}

\* Mutant of ClaimWithToken: SET without NX.
ClaimOverwriting(r, t) ==
    /\ ~TokenReused(r, t)
    /\ claim' = [claim EXCEPT ![r] = "PENDING"]
    /\ boundTo' = [boundTo EXCEPT ![t] = r]
    /\ UNCHANGED result

\* luaClaimWithToken returns 1: SET NX won, the token is bound to the round.
ClaimWithToken(r, t) ==
    /\ ~TokenReused(r, t)
    /\ claim[r] = "none"
    /\ claim' = [claim EXCEPT ![r] = "PENDING"]
    /\ boundTo' = [boundTo EXCEPT ![t] = r]
    /\ UNCHANGED result

\* luaClaimWithToken returns 0: the round is in progress or finished.
ClaimTaken(r, t) ==
    /\ ~TokenReused(r, t)
    /\ claim[r] # "none"
    /\ UNCHANGED idemVars

\* ReleaseClaim deletes the claim key whoever owns it; the token stays bound.
ReleaseClaim(r) ==
    /\ claim' = [claim EXCEPT ![r] = "none"]
    /\ UNCHANGED <<boundTo, result>>

\* Mutant of SaveResult: the claim is deleted instead of kept as DONE.
SaveResultUnclaiming(r, s) ==
    /\ result' = [result EXCEPT ![r] = s]
    /\ claim' = [claim EXCEPT ![r] = "none"]
    /\ UNCHANGED boundTo

\* Mutant of SaveResult: a pending payout is cached as settled.
SaveResultSettled(r, s) ==
    /\ result' = [result EXCEPT ![r] = "settled"]
    /\ claim' = [claim EXCEPT ![r] = "DONE"]
    /\ UNCHANGED boundTo

\* The pipeline of SaveResult is no transaction: when it fails in between, the
\* answer is there and the claim still PENDING.
SaveResultHalf(r, s) ==
    /\ result' = [result EXCEPT ![r] = s]
    /\ UNCHANGED <<claim, boundTo>>

\* SaveResult writes the answer and turns the claim into DONE.
SaveResult(r, s) ==
    /\ result' = [result EXCEPT ![r] = s]
    /\ claim' = [claim EXCEPT ![r] = "DONE"]
    /\ UNCHANGED boundTo

=============================================================================
