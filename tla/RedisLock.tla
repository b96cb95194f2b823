----------------------------- MODULE RedisLock -----------------------------
(***************************************************************************)
(* The distributed lock that serialises the bets of one player             *)
(* (pkg/lock/redis_lock.go).  One Redis key is modelled: every request of  *)
(* the model is a request of the same merchant and player, so all of them  *)
(* use lock:bet:<merchant>:<user>.                                         *)
(*                                                                         *)
(* A token is drawn afresh for every acquisition and a handler acquires at *)
(* most once, so the handler's own identity stands for its token.          *)
(***************************************************************************)

EXTENDS BetRequests

CONSTANT NoOne      \* "the key does not exist", "the map has no entry"

ASSUME RedisLockAssumption == NoOne \notin Handlers

VARIABLES
    lock,       \* the value of the Redis key: a token, or NoOne
    tokens,     \* RedisLock.tokens of each pod, at the one key of the model
    evalToken   \* the token a releasing handler read from its pod's map

lockVars == <<lock, tokens, evalToken>>

LockTypeOK ==
    /\ lock \in Handlers \cup {NoOne}
    /\ tokens \in [Pods -> Handlers \cup {NoOne}]
    /\ evalToken \in [Handlers -> Handlers \cup {NoOne}]

LockInit ==
    /\ lock = NoOne
    /\ tokens = [p \in Pods |-> NoOne]
    /\ evalToken = [h \in Handlers |-> NoOne]

\* Mutant of Acquire: Set instead of SetNX.
AcquireOverwriting(h) ==
    /\ lock' = h
    /\ tokens' = [tokens EXCEPT ![PodOf[h]] = h]
    /\ UNCHANGED evalToken

\* Acquire: SetNX won; the token is stored in the process-wide map under the
\* key, over whatever token was there.
Acquire(h) ==
    /\ lock = NoOne
    /\ lock' = h
    /\ tokens' = [tokens EXCEPT ![PodOf[h]] = h]
    /\ UNCHANGED evalToken

\* Acquire: SetNX lost, the map is not touched.
AcquireBusy(h) ==
    /\ lock # NoOne
    /\ UNCHANGED lockVars

\* Acquire: SetNX won but its answer got lost, so no token is stored.
AcquireUnanswered(h) ==
    /\ lock = NoOne
    /\ lock' = h
    /\ UNCHANGED <<tokens, evalToken>>

\* Release, first half: read and delete the map entry under the mutex.
TakeToken(h) ==
    /\ evalToken' = [evalToken EXCEPT ![h] = tokens[PodOf[h]]]
    /\ tokens' = [tokens EXCEPT ![PodOf[h]] = NoOne]
    /\ UNCHANGED lock

\* Release, second half: the Lua script deletes the key if it still holds
\* that token.  Without a map entry Release returns before the script.
EvalUnlock(h) ==
    /\ lock' = IF lock = evalToken[h] THEN NoOne ELSE lock
    /\ evalToken' = [evalToken EXCEPT ![h] = NoOne]
    /\ UNCHANGED tokens

\* The TTL of the key runs out.
Expire ==
    /\ lock # NoOne
    /\ lock' = NoOne
    /\ UNCHANGED <<tokens, evalToken>>

\* A process dies and its map with it; the key stays until its TTL.
LosePod(p) ==
    /\ tokens' = [tokens EXCEPT ![p] = NoOne]
    /\ UNCHANGED <<lock, evalToken>>

=============================================================================
