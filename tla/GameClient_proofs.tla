-------------------------- MODULE GameClient_proofs --------------------------
(***************************************************************************)
(* What the client of the game keeps true for any number of clicks,        *)
(* replays and sessions.  A second start runs beside whatever is under     *)
(* way, so that none of it rests on the flag alone: pools are numbered by  *)
(* the clicks that found no session, tweens belong to runs that swim, and  *)
(* a sequence is fresh because the session is the only one to hand it out. *)
(***************************************************************************)
EXTENDS GameClient, FiniteSetTheorems, TLAPS

\* One pool, and one for every click that found the session expired.
PoolsCounted ==
    /\ pools = Cardinality(restarted) + 1
    /\ \A c \in restarted : pc[c] # "idle"

\* Each kind of run takes its own way.
RunsInPlace ==
    /\ pc[Boot] \in {"session", "balance", "done"}
    /\ \A c \in Replays : pc[c] \notin {"session", "balance", "signing", "bet"}
    /\ \A c \in Clicks : pc[c] \in {"session", "balance"} => c \in restarted
    /\ \A c \in Runs : pc[c] = "signing" => hasSecret

\* A tween calls back for a run that waits for it, from a pool there is.
TweensOfSwims ==
    \A s \in swims : /\ pc[s[1]] = "swim" /\ s[2] \in 1..pools
                     /\ \A t \in swims : s[1] = t[1] => s = t

\* Sessions and bets carry tokens that were issued, and a bet of the session
\* at hand a sequence that was taken from it.
TokensIssued ==
    /\ info.token <= issued
    /\ \A t \in Tokens : t > issued => accepts[t] = 1
    /\ \A c \in Runs : /\ bet[c].token <= issued
                       /\ bet[c].token = info.token /\ info.token # 0 =>
                              bet[c].seq < info.next
                       /\ pc[c] \in {"signing", "bet"} => bet[c].token # 0

GInv ==
    /\ GameTypeOK /\ PoolsCounted /\ RunsInPlace /\ TweensOfSwims /\ TokensIssued
    /\ BetsAreFresh /\ CastsTakeTurns /\ SequencesInStep /\ FishAccounted

-----------------------------------------------------------------------------

LEMMA RunsFinite ==
    ASSUME GameAssumption
    PROVE  /\ IsFiniteSet(Runs) /\ IsFiniteSet(Clicks)
           /\ MaxPools \in Nat \ {0}
<1>1. IsFiniteSet(Clicks \cup Replays) /\ IsFiniteSet(Clicks)
  BY FS_Union DEF GameAssumption
<1>2. IsFiniteSet(Runs)
  BY <1>1, FS_AddElement DEF Runs
<1>3. Cardinality(Clicks) \in Nat
  BY <1>1, FS_CardinalityType
<1> QED
  BY <1>1, <1>2, <1>3 DEF MaxPools

LEMMA PoolsStep ==
    ASSUME GameAssumption, GameTypeOK, PoolsCounted, NEW c \in Clicks, pc[c] = "idle", InitPools
    PROVE  /\ c \notin restarted
           /\ pools' = Cardinality(restarted \cup {c}) + 1
           /\ pools' \in 1..MaxPools
<1>1. restarted \subseteq Clicks /\ IsFiniteSet(restarted) /\ IsFiniteSet(Clicks)
  BY RunsFinite, FS_Subset DEF GameTypeOK
<1>2. c \notin restarted
  BY DEF PoolsCounted
<1>3. Cardinality(restarted \cup {c}) = Cardinality(restarted) + 1
  BY <1>1, <1>2, FS_AddElement
<1>4. restarted \cup {c} \in SUBSET Clicks
  BY <1>1
<1>5. Cardinality(restarted \cup {c}) <= Cardinality(Clicks)
  BY <1>1, <1>4, FS_Subset
<1>6. Cardinality(restarted) \in Nat /\ Cardinality(Clicks) \in Nat
  BY <1>1, FS_CardinalityType
<1> QED
  BY <1>2, <1>3, <1>5, <1>6 DEF PoolsCounted, InitPools, MaxPools

LEMMA Changed ==
    ASSUME NEW S, NEW T, NEW f \in [S -> T], NEW x \in S, NEW y \in T
    PROVE  [f EXCEPT ![x] = y] \in [S -> T]
OBVIOUS

LEMMA PoolType ==
    ASSUME NEW pool \in [active : BOOLEAN, count : Int]
    PROVE  /\ Release(pool) \in [active : BOOLEAN, count : Int]
           /\ RecycleAll(pool) \in [active : BOOLEAN, count : Int]
           /\ Acquire(RecycleAll(pool)) \in [active : BOOLEAN, count : Int]
<1>1. Release(pool) \in [active : BOOLEAN, count : Int]
  BY DEF Release
<1>2. RecycleAll(pool) \in [active : BOOLEAN, count : Int]
  BY <1>1 DEF RecycleAll
<1> QED
  BY <1>1, <1>2 DEF Acquire

LEMMA BeginType ==
    ASSUME GameAssumption, GameTypeOK, NEW c \in Runs, Begin(c)
    PROVE  /\ info' \in [token : 0..MaxSessions, next : Nat]
           /\ bet' \in [Runs -> [token : 0..MaxSessions, seq : Nat, key : 0..MaxSessions]]
           /\ casting' \in BOOLEAN
           /\ pc' \in [Runs -> Phases]
<1>1. info \in [token : 0..MaxSessions, next : Nat] /\ pc \in [Runs -> Phases]
  BY DEF GameTypeOK
<1>2. bet \in [Runs -> [token : 0..MaxSessions, seq : Nat, key : 0..MaxSessions]]
  BY DEF GameTypeOK
<1>3. CASE info.token = 0
  BY <1>1, <1>2, <1>3 DEF Begin, Finally, Goto, Phases
<1>4. CASE info.token # 0
  <2>1. info' = [info EXCEPT !.next = @ + 1] /\ casting' = TRUE
    BY <1>4 DEF Begin, ConsumeSequence
  <2>2. bet' = [bet EXCEPT ![c] = [token |-> info.token, seq |-> info.next,
                                   key |-> IF hasSecret THEN 0 ELSE info.token]]
    BY <1>4 DEF Begin
  <2>3. [token |-> info.token, seq |-> info.next, key |-> IF hasSecret THEN 0 ELSE info.token]
           \in [token : 0..MaxSessions, seq : Nat, key : 0..MaxSessions]
    <3>1. info.token \in 0..MaxSessions /\ info.next \in Nat /\ 0 \in 0..MaxSessions
      BY <1>1 DEF GameAssumption
    <3> DEFINE key == IF hasSecret THEN 0 ELSE info.token
    <3>2. key \in 0..MaxSessions
      BY <3>1
    <3> HIDE DEF key
    <3>3. [token |-> info.token, seq |-> info.next, key |-> key]
             \in [token : 0..MaxSessions, seq : Nat, key : 0..MaxSessions]
      BY <3>1, <3>2
    <3> QED
      BY <3>3 DEF key
  <2>4. bet' \in [Runs -> [token : 0..MaxSessions, seq : Nat, key : 0..MaxSessions]]
    BY <1>2, <2>2, <2>3
  <2>5. pc' \in [Runs -> Phases]
    BY <1>1, <1>4 DEF Begin, Goto, Phases
  <2>6. info' \in [token : 0..MaxSessions, next : Nat]
    BY <1>1, <2>1
  <2> QED
    BY <2>1, <2>4, <2>5, <2>6
<1> QED
  BY <1>3, <1>4

LEMMA TypeStep ==
    ASSUME GameAssumption, GInv, [Next]_gameVars
    PROVE  GameTypeOK'
<1> USE DEF GameTypeOK, NoBet, Phases, Tokens, Goto, Finally, sessionVars, serverVars, poolVars, gameVars
<1>0. GameTypeOK /\ PoolsCounted /\ TokensIssued /\ Clicks \subseteq Runs /\ MaxSessions \in Nat /\ MaxPools \in Nat
  BY RunsFinite DEF GInv, Runs, GameAssumption
<1>1. ASSUME NEW c \in Runs, CastClick(c) \/ ReplayRound(c) \/ Progress(c)
      PROVE  GameTypeOK'
  <2>1. CASE CastClick(c)
    <3>1. CASE Begin(c) /\ UNCHANGED <<restarted, poolVars>>
      BY <1>0, <2>1, <3>1, BeginType DEF CastClick
    <3>2. CASE InitPools /\ restarted' = restarted \cup {c} /\ Goto(c, "session")
      BY <1>0, <2>1, <3>2, PoolsStep DEF CastClick, InitPools
    <3> QED
      BY <2>1, <3>1, <3>2 DEF CastClick
  <2>2. CASE ReplayRound(c)
    BY <1>0, <2>2 DEF ReplayRound
  <2>3. CASE SessionCreated(c)
    BY <1>0, <2>3 DEF SessionCreated
  <2>4. CASE SessionFailed(c)
    <3>1. issued' \in 0..MaxSessions
      BY <1>0, <2>4 DEF SessionFailed
    <3>2. /\ info' \in [token : 0..MaxSessions, next : Nat]
          /\ bet' \in [Runs -> [token : 0..MaxSessions, seq : Nat, key : 0..MaxSessions]]
          /\ casting' \in BOOLEAN /\ pc' \in [Runs -> Phases]
      BY <1>0, <2>4, BeginType DEF SessionFailed, AfterStart
    <3> QED
      BY <1>0, <2>4, <3>1, <3>2 DEF SessionFailed
  <2>5. CASE BalanceAnswered(c)
    BY <1>0, <2>5, BeginType DEF BalanceAnswered, AfterStart
  <2>6. CASE ReadSessionKey(c)
    BY <1>0, <2>6 DEF ReadSessionKey
  <2>7. CASE BetAnswered(c) \/ BetFailed(c) \/ BetRefused(c)
    <3>1. bet[c].token \in Tokens
      BY <1>0, <2>7 DEF TokensIssued, BetAnswered, BetFailed, BetRefused
    <3>2. \/ accepts' = accepts
          \/ accepts' = [accepts EXCEPT ![bet[c].token] = accepts[bet[c].token] + 1]
      BY <2>7 DEF BetAnswered, BetFailed, BetRefused
    <3>a. accepts \in [Tokens -> Nat] /\ accepts[bet[c].token] + 1 \in Nat
      BY <1>0, <3>1
    <3>3. accepts' \in [Tokens -> Nat]
      BY <3>1, <3>a, <3>2, Changed
    <3>4. refused' \subseteq Tokens
      BY <1>0, <2>7, <3>1 DEF BetAnswered, BetFailed, BetRefused
    <3> QED
      BY <1>0, <2>7, <3>3, <3>4 DEF BetAnswered, BetFailed, BetRefused
  <2>8. CASE ReplayFetched(c) \/ RodDone(c) \/ ResultDone(c)
    BY <1>0, <2>8 DEF ReplayFetched, RodDone, ResultDone
  <2>9. CASE SpawnSchool(c)
    <3>1. fish' \in [1..MaxPools -> [active : BOOLEAN, count : Int]]
      <4>1. pools \in 1..MaxPools /\ fish[pools] \in [active : BOOLEAN, count : Int]
        BY <1>0
      <4>2. \/ fish' = [fish EXCEPT ![pools] = RecycleAll(fish[pools])]
            \/ fish' = [fish EXCEPT ![pools] = Acquire(RecycleAll(fish[pools]))]
        BY <2>9 DEF SpawnSchool
      <4>3. /\ RecycleAll(fish[pools]) \in [active : BOOLEAN, count : Int]
            /\ Acquire(RecycleAll(fish[pools])) \in [active : BOOLEAN, count : Int]
        BY <4>1, PoolType
      <4>4. fish \in [1..MaxPools -> [active : BOOLEAN, count : Int]]
        BY <1>0
      <4> HIDE DEF GameTypeOK, RecycleAll
      <4> QED
        BY <4>1, <4>2, <4>3, <4>4, Changed
    <3>2. swims' \subseteq Runs \X (1..MaxPools)
      BY <1>0, <2>9 DEF SpawnSchool, TweensMayStop, SwimsIn
    <3> QED
      BY <1>0, <2>9, <3>1, <3>2 DEF SpawnSchool
  <2>10. CASE SchoolDone(c)
    BY <1>0, <2>10 DEF SchoolDone, Release, SwimsIn
  <2> QED
    BY <1>1, <2>1, <2>2, <2>3, <2>4, <2>5, <2>6, <2>7, <2>8, <2>9, <2>10 DEF Progress
<1>2. CASE Expire
  BY <1>0, <1>2 DEF Expire
<1>3. CASE UNCHANGED gameVars
  BY <1>0, <1>3
<1> QED
  BY <1>1, <1>2, <1>3 DEF Next

LEMMA BeginEffect ==
    ASSUME GameAssumption, GameTypeOK, NEW c \in Runs, Begin(c)
    PROVE  \/ /\ info.token = 0 /\ info' = info /\ bet' = bet
              /\ casting' = FALSE /\ pc' = [pc EXCEPT ![c] = "done"]
           \/ /\ info.token # 0 /\ info'.token = info.token /\ info'.next = info.next + 1
              /\ casting' = TRUE
              /\ pc' = [pc EXCEPT ![c] = IF hasSecret THEN "signing" ELSE "bet"]
              /\ \A d \in Runs \ {c} : bet'[d] = bet[d]
              /\ bet'[c].token = info.token /\ bet'[c].seq = info.next
              /\ ~hasSecret => bet'[c].key = info.token
<1>1. info \in [token : 0..MaxSessions, next : Nat]
  BY DEF GameTypeOK
<1>2. bet \in [Runs -> [token : 0..MaxSessions, seq : Nat, key : 0..MaxSessions]]
  BY DEF GameTypeOK
<1> QED
  BY <1>1, <1>2 DEF Begin, ConsumeSequence, Finally, Goto

LEMMA PlaceStep ==
    ASSUME GameAssumption, GInv, [Next]_gameVars
    PROVE  RunsInPlace'
<1> USE DEF RunsInPlace, Goto, Finally, sessionVars, serverVars, poolVars, gameVars
<1>0. GameTypeOK /\ RunsInPlace /\ TweensOfSwims /\ pc \in [Runs -> Phases]
  BY DEF GInv, GameTypeOK
<1>a. Runs = Clicks \cup Replays \cup {Boot} /\ Clicks \cap Replays = {} /\ Boot \notin Clicks \cup Replays
  BY DEF Runs, GameAssumption
<1>1. ASSUME NEW c \in Runs, CastClick(c) \/ ReplayRound(c) \/ Progress(c)
      PROVE  RunsInPlace'
  <2>1. CASE CastClick(c)
    BY <1>0, <1>a, <2>1, BeginEffect DEF CastClick
  <2>2. CASE ReplayRound(c)
    BY <1>0, <1>a, <2>2 DEF ReplayRound
  <2>3. CASE SessionCreated(c)
    BY <1>0, <1>a, <2>3 DEF SessionCreated
  <2>4. CASE SessionFailed(c)
    BY <1>0, <1>a, <2>4, BeginEffect DEF SessionFailed, AfterStart
  <2>5. CASE BalanceAnswered(c)
    <3>1. c = Boot \/ c \in Clicks
      BY <1>0, <1>a, <2>5 DEF BalanceAnswered
    <3>2. CASE c = Boot
      BY <1>0, <1>a, <2>5, <3>2 DEF BalanceAnswered, AfterStart
    <3>3. CASE c \in Clicks
      BY <1>0, <1>a, <2>5, <3>3, BeginEffect DEF BalanceAnswered, AfterStart
    <3> QED
      BY <3>1, <3>2, <3>3
  <2>6. CASE ReadSessionKey(c)
    BY <1>0, <1>a, <2>6 DEF ReadSessionKey
  <2>7. CASE BetAnswered(c) \/ BetFailed(c) \/ BetRefused(c)
    BY <1>0, <1>a, <2>7 DEF BetAnswered, BetFailed, BetRefused
  <2>8. CASE ReplayFetched(c) \/ RodDone(c) \/ SpawnSchool(c) \/ ResultDone(c)
    BY <1>0, <1>a, <2>8 DEF ReplayFetched, RodDone, SpawnSchool, ResultDone
  <2>9. CASE SchoolDone(c)
    BY <1>0, <1>a, <2>9 DEF SchoolDone, TweensOfSwims
  <2> QED
    BY <1>1, <2>1, <2>2, <2>3, <2>4, <2>5, <2>6, <2>7, <2>8, <2>9 DEF Progress
<1>2. CASE Expire
  BY <1>0, <1>2 DEF Expire
<1>3. CASE UNCHANGED gameVars
  BY <1>0, <1>3
<1> QED
  BY <1>1, <1>2, <1>3 DEF Next

LEMMA TweensStep ==
    ASSUME GameAssumption, GInv, [Next]_gameVars
    PROVE  TweensOfSwims'
<1> USE DEF Goto, Finally, sessionVars, serverVars, poolVars, gameVars
<1>0. /\ TweensOfSwims /\ pc \in [Runs -> Phases] /\ pools \in Nat \ {0}
      /\ swims \subseteq Runs \X (1..MaxPools)
  BY RunsFinite DEF GInv, GameTypeOK
<1>1. ASSUME NEW c \in Runs, CastClick(c) \/ ReplayRound(c) \/ Progress(c)
      PROVE  TweensOfSwims'
  \* A run that was not swimming has no tween, and no other run moves.
  <2>1. ASSUME swims' = swims, pools' >= pools, pools' \in Nat, pc[c] # "swim",
               \A d \in Runs \ {c} : pc'[d] = pc[d]
        PROVE  TweensOfSwims'
    BY <1>0, <2>1 DEF TweensOfSwims
  <2>2. CASE CastClick(c)
    BY <1>0, <2>1, <2>2 DEF CastClick, InitPools, Begin
  <2>3. CASE ReplayRound(c) \/ SessionCreated(c) \/ SessionFailed(c) \/ BalanceAnswered(c)
    BY <1>0, <2>1, <2>3
    DEF ReplayRound, SessionCreated, SessionFailed, BalanceAnswered, AfterStart, Begin
  <2>4. CASE ReadSessionKey(c) \/ BetAnswered(c) \/ BetFailed(c) \/ BetRefused(c)
    BY <1>0, <2>1, <2>4 DEF ReadSessionKey, BetAnswered, BetFailed, BetRefused
  <2>5. CASE ReplayFetched(c) \/ RodDone(c) \/ ResultDone(c)
    BY <1>0, <2>1, <2>5 DEF ReplayFetched, RodDone, ResultDone
  <2>6. CASE SpawnSchool(c)
    BY <1>0, <2>6 DEF SpawnSchool, TweensMayStop, TweensOfSwims
  <2>7. CASE SchoolDone(c)
    BY <1>0, <2>7 DEF SchoolDone, TweensOfSwims
  <2> QED
    BY <1>1, <2>2, <2>3, <2>4, <2>5, <2>6, <2>7 DEF Progress
<1>2. CASE Expire
  BY <1>0, <1>2 DEF Expire, TweensOfSwims
<1>3. CASE UNCHANGED gameVars
  BY <1>0, <1>3 DEF TweensOfSwims
<1> QED
  BY <1>1, <1>2, <1>3 DEF Next

LEMMA TokensStep ==
    ASSUME GameAssumption, GInv, [Next]_gameVars
    PROVE  TokensIssued'
<1> USE DEF TokensIssued, Goto, Finally, sessionVars, serverVars, poolVars, gameVars
<1>0. /\ GameTypeOK /\ TokensIssued /\ pc \in [Runs -> Phases]
      /\ info \in [token : 0..MaxSessions, next : Nat] /\ issued \in 0..MaxSessions
      /\ bet \in [Runs -> [token : 0..MaxSessions, seq : Nat, key : 0..MaxSessions]]
      /\ accepts \in [Tokens -> Nat] /\ MaxSessions \in Nat
  BY DEF GInv, GameTypeOK, GameAssumption
<1>a. ASSUME NEW c \in Runs, Begin(c), accepts' = accepts, issued' >= issued, issued' \in Nat
      PROVE  TokensIssued'
  <2>1. CASE /\ info.token = 0 /\ info' = info /\ bet' = bet /\ pc' = [pc EXCEPT ![c] = "done"]
    <3>1. \A d \in Runs : bet[d].token \in Nat
      BY <1>0
    <3>2. \A d \in Runs : pc'[d] \in {"signing", "bet"} => pc[d] \in {"signing", "bet"}
      BY <1>0, <2>1
    <3> QED
      BY <1>0, <1>a, <2>1, <3>1, <3>2 DEF Tokens
  <2>2. CASE /\ info.token # 0 /\ info'.token = info.token /\ info'.next = info.next + 1
             /\ pc' = [pc EXCEPT ![c] = IF hasSecret THEN "signing" ELSE "bet"]
             /\ \A d \in Runs \ {c} : bet'[d] = bet[d]
             /\ bet'[c].token = info.token /\ bet'[c].seq = info.next
    <3>1. /\ info'.token <= issued'
          /\ \A t \in Tokens : t > issued' => accepts'[t] = 1
      BY <1>0, <1>a, <2>2 DEF Tokens
    <3>2. ASSUME NEW d \in Runs
          PROVE  /\ bet'[d].token <= issued'
                 /\ bet'[d].token = info'.token => bet'[d].seq < info'.next
                 /\ pc'[d] \in {"signing", "bet"} => bet'[d].token # 0
      <4>1. CASE d = c
        BY <1>0, <1>a, <2>2, <4>1
      <4>2. CASE d # c
        <5>1. bet'[d] = bet[d] /\ pc'[d] = pc[d]
          BY <1>0, <2>2, <4>2
        <5>2. bet[d].token \in 0..MaxSessions /\ bet[d].seq \in Nat
          BY <1>0
        <5> QED
          BY <1>0, <1>a, <2>2, <5>1, <5>2
      <4> QED
        BY <4>1, <4>2
    <3> QED
      BY <3>1, <3>2
  <2> QED
    BY <1>0, <1>a, <2>1, <2>2, BeginEffect
<1>1. ASSUME NEW c \in Runs, CastClick(c) \/ ReplayRound(c) \/ Progress(c)
      PROVE  TokensIssued'
  <2>1. CASE CastClick(c)
    BY <1>0, <1>a, <2>1 DEF CastClick
  <2>2. CASE ReplayRound(c)
    BY <1>0, <2>2 DEF ReplayRound
  <2>3. CASE SessionCreated(c)
    BY <1>0, <2>3 DEF SessionCreated, Tokens
  <2>4. CASE SessionFailed(c)
    <3>1. issued' >= issued /\ issued' \in Nat /\ accepts' = accepts
      BY <1>0, <2>4 DEF SessionFailed
    <3>2. CASE c = Boot
      BY <1>0, <2>4, <3>1, <3>2 DEF SessionFailed, AfterStart, Tokens
    <3>3. CASE c # Boot
      BY <1>a, <2>4, <3>1, <3>3 DEF SessionFailed, AfterStart
    <3> QED
      BY <3>2, <3>3
  <2>5. CASE BalanceAnswered(c)
    BY <1>0, <1>a, <2>5 DEF BalanceAnswered, AfterStart
  <2>6. CASE ReadSessionKey(c)
    BY <1>0, <2>6 DEF ReadSessionKey
  <2>7. CASE BetAnswered(c) \/ BetFailed(c)
    <3>1. /\ accepts' = [accepts EXCEPT ![bet[c].token] = accepts[bet[c].token] + 1]
          /\ UNCHANGED <<info, issued, bet>>
      BY <2>7 DEF BetAnswered, BetFailed
    <3>2. \A t \in Tokens : t > issued' => accepts'[t] = 1
      BY <1>0, <3>1 DEF Tokens
    <3>3. \A d \in Runs : pc'[d] \in {"signing", "bet"} => pc[d] \in {"signing", "bet"}
      BY <1>0, <2>7 DEF BetAnswered, BetFailed
    <3> QED
      BY <1>0, <3>1, <3>2, <3>3
  <2>8. CASE BetRefused(c) \/ ReplayFetched(c) \/ RodDone(c) \/ SpawnSchool(c) \/ ResultDone(c)
    BY <1>0, <2>8 DEF BetRefused, ReplayFetched, RodDone, SpawnSchool, ResultDone
  <2>9. CASE SchoolDone(c)
    BY <1>0, <2>9 DEF SchoolDone
  <2> QED
    BY <1>1, <2>1, <2>2, <2>3, <2>4, <2>5, <2>6, <2>7, <2>8, <2>9 DEF Progress
<1>2. CASE Expire
  BY <1>0, <1>2 DEF Expire
<1>3. CASE UNCHANGED gameVars
  BY <1>0, <1>3
<1> QED
  BY <1>1, <1>2, <1>3 DEF Next

LEMMA BetsStep ==
    ASSUME GameAssumption, GInv, [Next]_gameVars
    PROVE  BetsAreFresh'
<1> USE DEF BetsAreFresh, Goto, Finally, sessionVars, serverVars, poolVars, gameVars
<1>0. /\ GameTypeOK /\ TokensIssued /\ BetsAreFresh /\ RunsInPlace /\ hasSecret \in BOOLEAN
      /\ info \in [token : 0..MaxSessions, next : Nat]
      /\ bet \in [Runs -> [token : 0..MaxSessions, seq : Nat, key : 0..MaxSessions]]
  BY DEF GInv, GameTypeOK
<1>1. ASSUME NEW c \in Runs, Begin(c), hasSecret' = hasSecret
      PROVE  BetsAreFresh'
  <2>1. CASE bet' = bet
    BY <1>0, <1>1, <2>1
  <2>2. CASE /\ info.token # 0
             /\ \A d \in Runs \ {c} : bet'[d] = bet[d]
             /\ bet'[c].token = info.token /\ bet'[c].seq = info.next
             /\ ~hasSecret => bet'[c].key = info.token
    <3>1. \A d \in Runs : ~hasSecret' => bet'[d].key = bet'[d].token
      BY <1>0, <1>1, <2>2
    <3>2. ASSUME NEW d \in Runs \ {c}, bet'[d].token = info.token
          PROVE  bet'[d].seq # bet'[c].seq
      BY <1>0, <2>2, <3>2 DEF TokensIssued
    <3> QED
      BY <1>0, <2>2, <3>1, <3>2
  <2> QED
    BY <1>0, <1>1, <2>1, <2>2, BeginEffect
<1>2. ASSUME bet' = bet, hasSecret' = hasSecret
      PROVE  BetsAreFresh'
  BY <1>0, <1>2
<1>3. ASSUME NEW c \in Runs, CastClick(c) \/ ReplayRound(c) \/ Progress(c)
      PROVE  BetsAreFresh'
  <2>1. CASE CastClick(c) \/ SessionFailed(c) \/ BalanceAnswered(c)
    BY <2>1, <1>1, <1>2 DEF CastClick, SessionFailed, BalanceAnswered, AfterStart
  <2>2. CASE ReplayRound(c) \/ SessionCreated(c)
    BY <2>2, <1>2 DEF ReplayRound, SessionCreated
  <2>3. CASE ReadSessionKey(c)
    BY <1>0, <2>3 DEF ReadSessionKey, RunsInPlace
  <2>4. CASE BetAnswered(c) \/ BetFailed(c) \/ BetRefused(c) \/ ReplayFetched(c)
    BY <2>4, <1>2 DEF BetAnswered, BetFailed, BetRefused, ReplayFetched
  <2>5. CASE RodDone(c) \/ SpawnSchool(c) \/ SchoolDone(c) \/ ResultDone(c)
    BY <2>5, <1>2 DEF RodDone, SpawnSchool, SchoolDone, ResultDone
  <2> QED
    BY <1>3, <2>1, <2>2, <2>3, <2>4, <2>5 DEF Progress
<1>4. CASE Expire \/ UNCHANGED gameVars
  BY <1>4, <1>2 DEF Expire
<1> QED
  BY <1>3, <1>4 DEF Next

LEMMA FishStep ==
    ASSUME GameAssumption, GInv, [Next]_gameVars
    PROVE  FishAccounted'
<1> USE DEF Goto, Finally, sessionVars, serverVars, poolVars, gameVars
<1>0. /\ FishAccounted /\ pools \in 1..MaxPools
      /\ fish \in [1..MaxPools -> [active : BOOLEAN, count : Int]]
      /\ swims \subseteq Runs \X (1..MaxPools)
  BY DEF GInv, GameTypeOK
<1> DEFINE Fits(pool) == pool.count = IF pool.active THEN 1 ELSE 0
<1>1. ASSUME NEW pool \in [active : BOOLEAN, count : Int], Fits(pool)
      PROVE  /\ Fits(Release(pool)) /\ Fits(RecycleAll(pool)) /\ Fits(Acquire(RecycleAll(pool)))
  BY <1>1 DEF Release, RecycleAll, Acquire
<1>2. ASSUME fish' = fish
      PROVE  FishAccounted'
  BY <1>0, <1>2 DEF FishAccounted
<1>3. ASSUME NEW p \in 1..MaxPools, NEW pool, Fits(pool), fish' = [fish EXCEPT ![p] = pool]
      PROVE  FishAccounted'
  BY <1>0, <1>3 DEF FishAccounted
<1>4. ASSUME NEW c \in Runs, CastClick(c) \/ ReplayRound(c) \/ Progress(c)
      PROVE  FishAccounted'
  <2>1. CASE SpawnSchool(c)
    <3>1. fish[pools] \in [active : BOOLEAN, count : Int] /\ Fits(fish[pools])
      BY <1>0 DEF FishAccounted
    <3>2. \/ fish' = [fish EXCEPT ![pools] = RecycleAll(fish[pools])]
          \/ fish' = [fish EXCEPT ![pools] = Acquire(RecycleAll(fish[pools]))]
      BY <2>1 DEF SpawnSchool
    <3>3. Fits(RecycleAll(fish[pools])) /\ Fits(Acquire(RecycleAll(fish[pools])))
      BY <3>1, <1>1
    <3> HIDE DEF Fits
    <3> QED
      BY <1>0, <3>2, <3>3, <1>3
  <2>2. CASE SchoolDone(c)
    <3>1. PICK p \in 1..pools : /\ <<c, p>> \in swims
                                /\ fish' = [fish EXCEPT ![p] = Release(fish[p])]
      BY <2>2 DEF SchoolDone
    <3>2. p \in 1..MaxPools /\ fish[p] \in [active : BOOLEAN, count : Int] /\ Fits(fish[p])
      BY <1>0, <3>1 DEF FishAccounted
    <3>3. Fits(Release(fish[p]))
      BY <3>2, <1>1
    <3> HIDE DEF Fits
    <3> QED
      BY <3>1, <3>2, <3>3, <1>3
  <2>3. CASE CastClick(c) \/ ReplayRound(c) \/ SessionCreated(c)
    BY <2>3, <1>2 DEF CastClick, InitPools, ReplayRound, SessionCreated
  <2>4. CASE SessionFailed(c) \/ BalanceAnswered(c) \/ ReadSessionKey(c)
    BY <2>4, <1>2 DEF SessionFailed, BalanceAnswered, ReadSessionKey
  <2>5. CASE BetAnswered(c) \/ BetFailed(c) \/ BetRefused(c)
    BY <2>5, <1>2 DEF BetAnswered, BetFailed, BetRefused
  <2>6. CASE ReplayFetched(c) \/ RodDone(c) \/ ResultDone(c)
    BY <2>6, <1>2 DEF ReplayFetched, RodDone, ResultDone
  <2> QED
    BY <1>4, <2>1, <2>2, <2>3, <2>4, <2>5, <2>6 DEF Progress
<1>5. CASE Expire \/ UNCHANGED gameVars
  BY <1>5, <1>2 DEF Expire
<1> QED
  BY <1>4, <1>5 DEF Next

\* Who is underway does not change but for run c.
LEMMA CastsStep ==
    ASSUME GameAssumption, GInv, [Next]_gameVars
    PROVE  CastsTakeTurns'
<1> USE DEF CastsTakeTurns, Underway, Goto, Finally, sessionVars, serverVars, poolVars, gameVars
<1>0. /\ CastsTakeTurns /\ RunsInPlace /\ TweensOfSwims /\ casting \in BOOLEAN
      /\ pc \in [Runs -> Phases] /\ Replays \subseteq Runs
  BY DEF GInv, GameTypeOK, Runs
\* A run begins, ends, stays underway, or was not and is not.
<1>1. ASSUME NEW c \in Runs, Begin(c), restarted' = restarted,
             ~casting \/ restarted # {}
      PROVE  CastsTakeTurns'
  BY <1>0, <1>1 DEF Begin
<1>2. ASSUME NEW c \in Runs, Finally(c), restarted' = restarted, Underway(c)
      PROVE  CastsTakeTurns'
  BY <1>0, <1>2
<1>3. ASSUME NEW c \in Runs, NEW phase, Goto(c, phase), restarted' = restarted,
             casting' = casting, Underway(c),
             phase \in {"bet", "fetch", "rod", "path", "swim", "result"}
      PROVE  CastsTakeTurns'
  BY <1>0, <1>3
<1>4. ASSUME NEW c \in Runs, NEW phase, Goto(c, phase), restarted \subseteq restarted',
             casting' = casting, ~Underway(c), phase \in {"session", "balance", "done"}
      PROVE  CastsTakeTurns'
  BY <1>0, <1>4
<1>5. ASSUME NEW c \in Runs, CastClick(c) \/ ReplayRound(c) \/ Progress(c)
      PROVE  CastsTakeTurns'
  <2>1. CASE CastClick(c)
    BY <2>1, <1>1, <1>4 DEF CastClick
  <2>2. CASE ReplayRound(c)
    BY <1>0, <2>2 DEF ReplayRound
  <2>3. CASE SessionCreated(c)
    BY <2>3, <1>4 DEF SessionCreated
  <2>4. CASE SessionFailed(c) \/ BalanceAnswered(c)
    BY <1>0, <2>4, <1>1, <1>4
    DEF SessionFailed, BalanceAnswered, AfterStart, RunsInPlace, Runs
  <2>5. CASE ReadSessionKey(c) \/ RodDone(c)
    BY <2>5, <1>3 DEF ReadSessionKey, RodDone
  <2>6. CASE BetAnswered(c) \/ SpawnSchool(c)
    BY <2>6, <1>3 DEF BetAnswered, SpawnSchool
  <2>7. CASE SchoolDone(c)
    BY <1>0, <2>7, <1>3 DEF SchoolDone, TweensOfSwims
  <2>8. CASE ReplayFetched(c)
    BY <2>8, <1>2, <1>3 DEF ReplayFetched
  <2>9. CASE BetFailed(c) \/ BetRefused(c) \/ ResultDone(c)
    BY <2>9, <1>2 DEF BetFailed, BetRefused, ResultDone
  <2> QED
    BY <1>5, <2>1, <2>2, <2>3, <2>4, <2>5, <2>6, <2>7, <2>8, <2>9 DEF Progress
<1>6. CASE Expire \/ UNCHANGED gameVars
  BY <1>0, <1>6 DEF Expire
<1> QED
  BY <1>5, <1>6 DEF Next

Sent == {"signing", "bet"}

\* The bets of session t that the server has not looked at.
OnTheirWay(pcs, bets, t) == {c \in Runs : pcs[c] \in Sent /\ bets[c].token = t}

LEMMA WayFinite ==
    ASSUME GameAssumption, NEW pcs, NEW bets, NEW t
    PROVE  /\ IsFiniteSet(OnTheirWay(pcs, bets, t))
           /\ Cardinality(OnTheirWay(pcs, bets, t)) \in Nat
<1>1. OnTheirWay(pcs, bets, t) \in SUBSET Runs
  BY DEF OnTheirWay
<1> HIDE DEF OnTheirWay
<1> QED
  BY <1>1, RunsFinite, FS_Subset, FS_CardinalityType

InStep(session, counted, way) == session.next = counted[session.token] + Cardinality(way)

LEMMA SequencesStep ==
    ASSUME GameAssumption, GInv, [Next]_gameVars
    PROVE  SequencesInStep'
<1> USE DEF Goto, Finally, sessionVars, serverVars, poolVars, gameVars
<1>0. /\ GameTypeOK /\ TokensIssued /\ SequencesInStep /\ TweensOfSwims
      /\ pc \in [Runs -> Phases] /\ issued \in Nat
      /\ info \in [token : 0..MaxSessions, next : Nat]
      /\ bet \in [Runs -> [token : 0..MaxSessions, seq : Nat, key : 0..MaxSessions]]
      /\ accepts \in [Tokens -> Nat] /\ MaxSessions \in Nat
  BY DEF GInv, GameTypeOK, GameAssumption
<1> DEFINE way  == OnTheirWay(pc, bet, info.token)
           way1 == OnTheirWay(pc', bet', info'.token)
<1>a. SequencesInStep <=> (info.token \notin refused \cup {0} => InStep(info, accepts, way))
  BY DEF SequencesInStep, OnTheirWay, InStep, Sent
<1>b. SequencesInStep' <=>
        (info'.token \notin refused' \cup {0} => InStep(info', accepts', way1))
  BY DEF SequencesInStep, OnTheirWay, InStep, Sent
<1>c. Cardinality(way) \in Nat /\ IsFiniteSet(way)
  BY WayFinite
<1>1. ASSUME info' = info, way1 = way, refused \subseteq refused',
             info.token \in Tokens \ refused' => accepts'[info.token] = accepts[info.token]
      PROVE  SequencesInStep'
  <2> HIDE DEF way, way1
  <2> QED
    BY <1>0, <1>a, <1>b, <1>1 DEF InStep, Tokens
<1>2. ASSUME NEW c \in Runs, NEW phase, Goto(c, phase), pc[c] \notin Sent, phase \notin Sent,
             info' = info, bet' = bet, accepts' = accepts, refused' = refused
      PROVE  SequencesInStep'
  <2>1. way1 = way
    BY <1>0, <1>2 DEF OnTheirWay
  <2> QED
    BY <1>1, <1>2, <2>1
\* A bet is sent with the next sequence.
<1>3. ASSUME NEW c \in Runs, Begin(c), pc[c] \notin Sent, accepts' = accepts, refused' = refused
      PROVE  SequencesInStep'
  <2>1. CASE /\ info' = info /\ bet' = bet /\ pc' = [pc EXCEPT ![c] = "done"]
    BY <1>2, <1>3, <2>1 DEF Sent
  <2>2. CASE /\ info.token # 0 /\ info'.token = info.token /\ info'.next = info.next + 1
             /\ pc' = [pc EXCEPT ![c] = IF hasSecret THEN "signing" ELSE "bet"]
             /\ \A d \in Runs \ {c} : bet'[d] = bet[d]
             /\ bet'[c].token = info.token
    <3>1. pc'[c] \in Sent /\ \A d \in Runs \ {c} : pc'[d] = pc[d]
      BY <1>0, <2>2 DEF Sent
    <3>2. way1 = way \cup {c} /\ c \notin way
      BY <1>3, <2>2, <3>1 DEF OnTheirWay
    <3> HIDE DEF way, way1
    <3>3. Cardinality(way1) = Cardinality(way) + 1
      BY <1>c, <3>2, FS_AddElement
    <3>4. info.token \in Tokens /\ info.next \in Nat
      BY <1>0, <2>2 DEF Tokens
    <3> QED
      BY <1>0, <1>3, <1>a, <1>b, <1>c, <2>2, <3>3, <3>4 DEF InStep
  <2> QED
    BY <1>0, <1>3, <2>1, <2>2, BeginEffect
\* A bet is counted, and the server's sequence goes up with it.
<1>4. ASSUME NEW c \in Runs, NEW phase, Goto(c, phase), pc[c] \in Sent, phase \notin Sent,
             info' = info, bet' = bet, refused' = refused,
             accepts' = [accepts EXCEPT ![bet[c].token] = accepts[bet[c].token] + 1]
      PROVE  SequencesInStep'
  <2>1. bet[c].token \in Tokens
    BY <1>0, <1>4 DEF TokensIssued, Tokens, Sent
  <2>2. pc'[c] \notin Sent /\ \A d \in Runs \ {c} : pc'[d] = pc[d]
    BY <1>0, <1>4
  <2>3. CASE bet[c].token # info.token
    <3>1. way1 = way
      BY <1>4, <2>2, <2>3 DEF OnTheirWay
    <3> QED
      BY <1>0, <1>1, <1>4, <2>1, <2>3, <3>1
  <2>4. CASE bet[c].token = info.token
    <3>1. way1 = way \ {c} /\ c \in way
      BY <1>4, <2>2, <2>4 DEF OnTheirWay
    <3> HIDE DEF way, way1
    <3>2. Cardinality(way1) = Cardinality(way) - 1
      BY <1>c, <3>1, FS_RemoveElement
    <3>3. accepts'[info.token] = accepts[info.token] + 1 /\ accepts[info.token] \in Nat
      BY <1>0, <1>4, <2>1, <2>4
    <3>4. info.next \in Nat
      BY <1>0
    <3> QED
      BY <1>0, <1>4, <1>a, <1>b, <1>c, <3>2, <3>3, <3>4 DEF InStep
  <2> QED
    BY <2>3, <2>4
<1>5. ASSUME NEW c \in Runs, CastClick(c) \/ ReplayRound(c) \/ Progress(c)
      PROVE  SequencesInStep'
  <2>1. CASE CastClick(c)
    BY <2>1, <1>2, <1>3 DEF CastClick, Sent
  <2>2. CASE ReplayRound(c) \/ ReplayFetched(c)
    BY <2>2, <1>2 DEF ReplayRound, ReplayFetched, Sent
  <2>3. CASE SessionCreated(c)
    <3>1. info' = [token |-> issued + 1, next |-> 1] /\ accepts' = accepts /\ bet' = bet
      BY <2>3 DEF SessionCreated
    <3>2. issued + 1 \in Tokens /\ accepts[issued + 1] = 1
      BY <1>0, <2>3 DEF SessionCreated, TokensIssued, Tokens
    <3>3. \A d \in Runs : bet[d].token # issued + 1
      BY <1>0 DEF TokensIssued
    <3>4. way1 = {}
      BY <3>1, <3>3 DEF OnTheirWay
    <3> HIDE DEF way1
    <3> QED
      BY <1>b, <3>1, <3>2, <3>4, FS_EmptySet DEF InStep
  <2>4. CASE SessionFailed(c) \/ BalanceAnswered(c)
    <3>1. /\ pc[c] \notin Sent /\ AfterStart(c) /\ accepts' = accepts /\ refused' = refused
      BY <2>4 DEF SessionFailed, BalanceAnswered, Sent
    <3> QED
      BY <1>2, <1>3, <3>1 DEF AfterStart, Sent
  <2>5. CASE ReadSessionKey(c)
    <3>1. \A d \in Runs : (pc'[d] \in Sent <=> pc[d] \in Sent) /\ bet'[d].token = bet[d].token
      BY <1>0, <2>5 DEF ReadSessionKey, Sent
    <3>2. way1 = way
      BY <2>5, <3>1 DEF OnTheirWay, ReadSessionKey
    <3> QED
      BY <1>1, <2>5, <3>2 DEF ReadSessionKey
  <2>6. CASE BetAnswered(c) \/ BetFailed(c)
    BY <2>6, <1>4 DEF BetAnswered, BetFailed, Sent
  <2>7. CASE BetRefused(c)
    <3>1. CASE bet[c].token = info.token
      BY <1>b, <2>7, <3>1 DEF BetRefused
    <3>2. CASE bet[c].token # info.token
      <4>1. way1 = way
        BY <1>0, <2>7, <3>2 DEF BetRefused, OnTheirWay
      <4> QED
        BY <1>1, <2>7, <4>1 DEF BetRefused
    <3> QED
      BY <3>1, <3>2
  <2>8. CASE RodDone(c) \/ SpawnSchool(c) \/ ResultDone(c)
    BY <2>8, <1>2 DEF RodDone, SpawnSchool, ResultDone, Sent
  <2>9. CASE SchoolDone(c)
    <3>1. pc[c] = "swim"
      BY <1>0, <2>9 DEF SchoolDone, TweensOfSwims
    <3>2. Goto(c, "result") /\ UNCHANGED <<sessionVars, serverVars, bet>>
      BY <2>9 DEF SchoolDone
    <3> QED
      BY <1>2, <3>1, <3>2 DEF Sent
  <2> QED
    BY <1>5, <2>1, <2>2, <2>3, <2>4, <2>5, <2>6, <2>7, <2>8, <2>9 DEF Progress
<1>6. CASE Expire \/ UNCHANGED gameVars
  <2>1. way1 = way
    BY <1>6 DEF Expire
  <2> QED
    BY <1>1, <1>6, <2>1 DEF Expire
<1> QED
  BY <1>5, <1>6 DEF Next

LEMMA PoolsCountedStep ==
    ASSUME GameAssumption, GInv, [Next]_gameVars
    PROVE  PoolsCounted'
<1> USE DEF Goto, Finally, sessionVars, serverVars, poolVars, gameVars
<1>0. GameTypeOK /\ PoolsCounted /\ TweensOfSwims /\ pc \in [Runs -> Phases] /\ restarted \subseteq Runs
  BY DEF GInv, GameTypeOK, Runs
<1>1. ASSUME NEW c \in Runs, NEW phase, Goto(c, phase), phase # "idle",
             pools' = pools, restarted' = restarted
      PROVE  PoolsCounted'
  BY <1>0, <1>1 DEF PoolsCounted
<1>2. ASSUME NEW c \in Runs, CastClick(c) \/ ReplayRound(c) \/ Progress(c)
      PROVE  PoolsCounted'
  <2>1. CASE CastClick(c)
    <3>1. CASE Begin(c) /\ UNCHANGED <<restarted, poolVars>>
      BY <3>1, <1>1 DEF Begin
    <3>2. CASE InitPools /\ restarted' = restarted \cup {c} /\ Goto(c, "session")
      BY <1>0, <2>1, <3>2, PoolsStep DEF PoolsCounted, CastClick
    <3> QED
      BY <2>1, <3>1, <3>2 DEF CastClick
  <2>2. CASE ReplayRound(c) \/ ReplayFetched(c) \/ SessionCreated(c) \/ ReadSessionKey(c)
    BY <2>2, <1>1 DEF ReplayRound, ReplayFetched, SessionCreated, ReadSessionKey
  <2>3. CASE SessionFailed(c) \/ BalanceAnswered(c)
    BY <2>3, <1>1 DEF SessionFailed, BalanceAnswered, AfterStart, Begin
  <2>4. CASE BetAnswered(c) \/ BetFailed(c) \/ BetRefused(c)
    BY <2>4, <1>1 DEF BetAnswered, BetFailed, BetRefused
  <2>5. CASE RodDone(c) \/ SpawnSchool(c) \/ SchoolDone(c) \/ ResultDone(c)
    BY <2>5, <1>1 DEF RodDone, SpawnSchool, SchoolDone, ResultDone
  <2> QED
    BY <1>2, <2>1, <2>2, <2>3, <2>4, <2>5 DEF Progress
<1>3. CASE Expire \/ UNCHANGED gameVars
  BY <1>0, <1>3 DEF Expire, PoolsCounted
<1> QED
  BY <1>2, <1>3 DEF Next

-----------------------------------------------------------------------------

LEMMA GameInit ==
    ASSUME GameAssumption, Init
    PROVE  GInv
<1> USE DEF Init
<1>1. GameTypeOK
  <2>1. MaxPools \in Nat \ {0} /\ MaxSessions \in Nat
    BY RunsFinite DEF GameAssumption
  <2>2. NoBet \in [token : 0..MaxSessions, seq : Nat, key : 0..MaxSessions]
    BY <2>1 DEF NoBet
  <2> QED
    <3>1. bet \in [Runs -> [token : 0..MaxSessions, seq : Nat, key : 0..MaxSessions]]
      BY <2>2
    <3>2. fish \in [1..MaxPools -> [active : BOOLEAN, count : Int]]
      OBVIOUS
    <3>3. info \in [token : 0..MaxSessions, next : Nat] /\ pc \in [Runs -> Phases]
      BY <2>1 DEF Phases
    <3>4. issued \in 0..MaxSessions /\ expired \in 0..MaxSessions
      BY <2>1
    <3>5. accepts \in [Tokens -> Nat] /\ refused \subseteq Tokens
      OBVIOUS
    <3>6. restarted \subseteq Clicks /\ pools \in 1..MaxPools /\ swims \subseteq Runs \X (1..MaxPools)
      BY <2>1
    <3>7. hasSecret \in BOOLEAN /\ casting \in BOOLEAN
      OBVIOUS
    <3> QED
      BY <3>1, <3>2, <3>3, <3>4, <3>5, <3>6, <3>7 DEF GameTypeOK
<1>2. PoolsCounted
  BY FS_EmptySet DEF PoolsCounted
<1>3. RunsInPlace /\ TweensOfSwims
  BY DEF RunsInPlace, TweensOfSwims, Runs, GameAssumption
<1>4. TokensIssued
  BY DEF TokensIssued, NoBet
<1>5. BetsAreFresh
  BY DEF BetsAreFresh, NoBet
<1>6. CastsTakeTurns
  BY DEF CastsTakeTurns, Underway
<1>7. SequencesInStep
  BY DEF SequencesInStep
<1>8. FishAccounted
  BY DEF FishAccounted
<1> QED
  BY <1>1, <1>2, <1>3, <1>4, <1>5, <1>6, <1>7, <1>8 DEF GInv

\* The invariant holds in every state of the client.
THEOREM GameInvariant == Spec => []GInv
<1>1. Init => GInv
  BY GameInit, GameAssumption
<1>2. GInv /\ [Next]_gameVars => GInv'
  BY GameAssumption, TypeStep, PoolsCountedStep, PlaceStep, TweensStep, TokensStep, BetsStep,
     CastsStep, SequencesStep, FishStep
  DEF GInv
<1> QED
  BY <1>1, <1>2, PTL DEF Spec

\* The client's state has its types; there are never more pools than clicks and one.
THEOREM GameTypes == Spec => []GameTypeOK
<1>1. GInv => GameTypeOK
  BY DEF GInv
<1> QED
  BY <1>1, GameInvariant, PTL

\* No sequence of a session is sent twice, whichever starts, casts and lost
\* answers overlap, and a bet is signed for the session it names.
THEOREM FreshBets == Spec => []BetsAreFresh
<1>1. GInv => BetsAreFresh
  BY DEF GInv
<1> QED
  BY <1>1, GameInvariant, PTL

\* Casts overlap, or leave the button enabled, only after a restart or a replay.
THEOREM CastsInTurn == Spec => []CastsTakeTurns
<1>1. GInv => CastsTakeTurns
  BY DEF GInv
<1> QED
  BY <1>1, GameInvariant, PTL

\* Only a bet that is not counted brings client and server out of step.
THEOREM InStepWithServer == Spec => []SequencesInStep
<1>1. GInv => SequencesInStep
  BY DEF GInv
<1> QED
  BY <1>1, GameInvariant, PTL

\* The count of a pool is right whatever tweens of recycled nodes do.
THEOREM FishCounted == Spec => []FishAccounted
<1>1. GInv => FishAccounted
  BY DEF GInv
<1> QED
  BY <1>1, GameInvariant, PTL

=============================================================================
