----------------------------- MODULE GameClient -----------------------------
(***************************************************************************)
(* The Cocos client of the fishing game: FishingGameController with the    *)
(* session of RgsClient and the pool of fish nodes.                        *)
(*                                                                         *)
(* A run is one call of start, onCastClick or replayRound.  Between two    *)
(* awaits nothing else happens; at an await any other run may go on.  The  *)
(* engine is external: whether a tween of a node that was recycled still   *)
(* calls back is left open.  The scene is not torn down.                   *)
(***************************************************************************)
EXTENDS Integers, FiniteSets

CONSTANTS
    Boot,           \* the call of start by the engine
    Clicks,         \* bound: calls of onCastClick
    Replays,        \* bound: calls of replayRound
    MaxSessions     \* bound: sessions the server creates

Runs == Clicks \cup Replays \cup {Boot}

ASSUME GameAssumption ==
    /\ Clicks \cap Replays = {} /\ Boot \notin Clicks \cup Replays
    /\ IsFiniteSet(Clicks) /\ IsFiniteSet(Replays)
    /\ MaxSessions \in Nat \ {0}

VARIABLES
    hasSecret,  \* GameConfig.merchantSecret is set: chosen by the build, '' by default
    info,       \* GameSession.info: token (0: none) and next sequence
    issued,     \* tokens 1..issued exist
    expired,    \* tokens 1..expired are past their expiresAt: all live equally long
    accepts,    \* the server's next sequence of a token
    refused,    \* history: tokens with a bet the server did not count
    casting,    \* the flag; the cast button is enabled when it is FALSE
    pc,         \* where a run is
    bet,        \* the bet of a run: token, sequence, token of the sign key
    restarted,  \* history: clicks that found the session expired
    pools,      \* number of calls of initPools
    fish,       \* the fish pools: is a node in the scene, activeCount
    swims       \* tweens that will call back: run and pool

sessionVars == <<hasSecret, info, issued, expired>>
serverVars  == <<accepts, refused>>
poolVars    == <<pools, fish, swims>>
gameVars    == <<sessionVars, serverVars, casting, pc, bet, restarted, poolVars>>

Tokens   == 1..MaxSessions
MaxPools == Cardinality(Clicks) + 1
Phases   == {"idle", "session", "balance", "signing", "bet", "fetch", "rod", "path",
             "swim", "result", "done"}
NoBet    == [token |-> 0, seq |-> 0, key |-> 0]

\* The runs between `casting = true` and their finally block.
Underway(c) == pc[c] \in {"signing", "bet", "fetch", "rod", "path", "swim", "result"}

\* Type invariant.
GameTypeOK ==
    /\ hasSecret \in BOOLEAN
    /\ info \in [token : 0..MaxSessions, next : Nat]
    /\ issued \in 0..MaxSessions /\ expired \in 0..MaxSessions
    /\ accepts \in [Tokens -> Nat] /\ refused \subseteq Tokens
    /\ casting \in BOOLEAN
    /\ pc \in [Runs -> Phases]
    /\ bet \in [Runs -> [token : 0..MaxSessions, seq : Nat, key : 0..MaxSessions]]
    /\ restarted \subseteq Clicks
    /\ pools \in 1..MaxPools
    /\ fish \in [1..MaxPools -> [active : BOOLEAN, count : Int]]
    /\ swims \subseteq Runs \X (1..MaxPools)

Init ==
    /\ hasSecret \in BOOLEAN
    /\ info = [token |-> 0, next |-> 0]
    /\ issued = 0 /\ expired = 0
    /\ accepts = [t \in Tokens |-> 1] /\ refused = {}
    /\ casting = FALSE
    /\ pc = [c \in Runs |-> IF c = Boot THEN "session" ELSE "idle"]
    /\ bet = [c \in Runs |-> NoBet]
    /\ restarted = {}
    /\ pools = 1
    /\ fish = [p \in 1..MaxPools |-> [active |-> FALSE, count |-> 0]]
    /\ swims = {}

Goto(c, phase) == pc' = [pc EXCEPT ![c] = phase]

\* The finally block of onCastClick and replayRound.
Finally(c) == casting' = FALSE /\ Goto(c, "done")

-----------------------------------------------------------------------------
(* The session *)

\* GameSession.isExpired: no session, or past its end.
IsExpired == info.token <= expired

\* The clock passes expiresAt.
Expire ==
    /\ expired < issued
    /\ expired' = expired + 1
    /\ UNCHANGED <<hasSecret, info, issued, serverVars, casting, pc, bet>>
    /\ UNCHANGED <<restarted, poolVars>>

\* Mutant of ConsumeSequence: the counter stays.
ConsumeSequenceStays == info' = info

\* Mutant of ConsumeSequence: the counter runs down.
ConsumeSequenceBack == info' = [info EXCEPT !.next = @ - 1]

\* GameSession.consumeSequence: what is left after the value was taken.
ConsumeSequence == info' = [info EXCEPT !.next = @ + 1]

\* The part of onCastClick from `casting = true` to the first await of
\* RgsClient.bet.  Without a session consumeSequence throws.
Begin(c) ==
    IF info.token = 0
    THEN Finally(c) /\ UNCHANGED <<info, bet>>
    ELSE /\ casting' = TRUE
         /\ ConsumeSequence
         /\ bet' = [bet EXCEPT ![c] = [token |-> info.token, seq |-> info.next,
                                       key |-> IF hasSecret THEN 0 ELSE info.token]]
         /\ Goto(c, IF hasSecret THEN "signing" ELSE "bet")

\* initPools, at the head of start: new pools beside the old ones, whose
\* nodes, and whose bubble timer, nobody stops.
InitPools ==
    /\ pools' = pools + 1
    /\ UNCHANGED <<fish, swims>>

\* Mutant of CastClick: the click does not look at the flag.
CastClickUnguarded(c) ==
    /\ c \in Clicks /\ pc[c] = "idle"
    /\ \/ /\ IsExpired /\ InitPools
          /\ restarted' = restarted \cup {c} /\ Goto(c, "session")
          /\ UNCHANGED <<info, casting, bet>>
       \/ ~IsExpired /\ Begin(c) /\ UNCHANGED <<restarted, poolVars>>
    /\ UNCHANGED <<hasSecret, issued, expired, serverVars>>

\* onCastClick up to its first await.
CastClick(c) ==
    /\ c \in Clicks /\ pc[c] = "idle"
    /\ ~casting
    /\ \/ /\ IsExpired /\ InitPools
          /\ restarted' = restarted \cup {c} /\ Goto(c, "session")
          /\ UNCHANGED <<info, casting, bet>>
       \/ ~IsExpired /\ Begin(c) /\ UNCHANGED <<restarted, poolVars>>
    /\ UNCHANGED <<hasSecret, issued, expired, serverVars>>

\* What follows start: the rest of onCastClick, nothing for the engine.
AfterStart(c) ==
    IF c = Boot THEN Goto(c, "done") /\ UNCHANGED <<info, casting, bet>> ELSE Begin(c)

\* createSession: the answer sets the session.  An error, the answer lost
\* after the server made the session included, ends the try block.
SessionCreated(c) ==
    /\ pc[c] = "session" /\ issued < MaxSessions
    /\ issued' = issued + 1
    /\ info' = [token |-> issued + 1, next |-> 1]
    /\ Goto(c, "balance")
    /\ UNCHANGED <<hasSecret, expired, serverVars, casting, bet, restarted, poolVars>>

SessionFailed(c) ==
    /\ pc[c] = "session"
    /\ AfterStart(c)
    /\ issued' \in {issued} \cup (IF issued < MaxSessions THEN {issued + 1} ELSE {})
    /\ UNCHANGED <<hasSecret, expired, serverVars, restarted, poolVars>>

\* refreshBalance, answered or failed.
BalanceAnswered(c) ==
    /\ pc[c] = "balance"
    /\ AfterStart(c)
    /\ UNCHANGED <<hasSecret, issued, expired, serverVars, restarted, poolVars>>

-----------------------------------------------------------------------------
(* The bet *)

\* RgsClient.bet after the request signature: the session may be another one.
ReadSessionKey(c) ==
    /\ pc[c] = "signing"
    /\ bet' = [bet EXCEPT ![c].key = info.token]
    /\ Goto(c, "bet")
    /\ UNCHANGED <<sessionVars, serverVars, casting, restarted, poolVars>>

\* The server's ConsumeSequence and the check of X-Session-Sign.
Counts(c) ==
    /\ bet[c].token > expired
    /\ bet[c].key = bet[c].token
    /\ bet[c].seq = accepts[bet[c].token]

\* The bet is counted and its answer arrives, with a replay or without.
BetAnswered(c) ==
    /\ pc[c] = "bet" /\ Counts(c)
    /\ accepts' = [accepts EXCEPT ![bet[c].token] = @ + 1]
    /\ \E next \in {"rod", "result"} : Goto(c, next)
    /\ UNCHANGED <<sessionVars, refused, casting, bet, restarted, poolVars>>

\* The bet is counted and fails later, or its answer is lost.
BetFailed(c) ==
    /\ pc[c] = "bet" /\ Counts(c)
    /\ accepts' = [accepts EXCEPT ![bet[c].token] = @ + 1]
    /\ Finally(c)
    /\ UNCHANGED <<sessionVars, refused, bet, restarted, poolVars>>

\* The bet is refused before the sequence is consumed, or never arrives.
BetRefused(c) ==
    /\ pc[c] = "bet"
    /\ refused' = refused \cup {bet[c].token}
    /\ Finally(c)
    /\ UNCHANGED <<sessionVars, accepts, bet, restarted, poolVars>>

\* replayRound up to fetchReplay: it does not look at the flag.
ReplayRound(c) ==
    /\ c \in Replays /\ pc[c] = "idle"
    /\ casting' = TRUE
    /\ Goto(c, "fetch")
    /\ UNCHANGED <<sessionVars, serverVars, bet, restarted, poolVars>>

ReplayFetched(c) ==
    /\ pc[c] = "fetch"
    /\ \/ Goto(c, "rod") /\ UNCHANGED casting
       \/ Finally(c)    \* an error answer, or no replay payload
    /\ UNCHANGED <<sessionVars, serverVars, bet, restarted, poolVars>>

-----------------------------------------------------------------------------
(* The animations *)

\* Mutant of Release: the count is not kept above zero.
ReleaseBelowZero(pool) == [active |-> FALSE, count |-> pool.count - 1]

\* NodePoolManager.release; the node leaves the scene.  A node that is
\* already in the free list is not put there twice.
Release(pool) ==
    [active |-> FALSE, count |-> IF pool.count > 0 THEN pool.count - 1 ELSE 0]

\* NodePoolManager.acquire, below maxActive.
Acquire(pool) == [active |-> TRUE, count |-> pool.count + 1]

\* FishPool.recycleAll.
RecycleAll(pool) == IF pool.active THEN Release(pool) ELSE pool

SwimsIn(p) == {s \in swims : s[2] = p}

\* A recycled node: the tweens of S may be gone or may still call back.
TweensMayStop(S) == \E gone \in SUBSET S : swims' = swims \ gone

\* playCastAnimation: the timer of castDurationMs.
RodDone(c) ==
    /\ pc[c] = "rod"
    /\ Goto(c, "path")
    /\ UNCHANGED <<sessionVars, serverVars, casting, bet, restarted, poolVars>>

\* FishPool.spawnSchool; without a path it calls back at once.
SpawnSchool(c) ==
    /\ pc[c] = "path"
    /\ \/ /\ fish' = [fish EXCEPT ![pools] = RecycleAll(@)]
          /\ TweensMayStop(SwimsIn(pools))
          /\ Goto(c, "result")
       \/ /\ fish' = [fish EXCEPT ![pools] = Acquire(RecycleAll(@))]
          /\ \E gone \in SUBSET SwimsIn(pools) :
                swims' = (swims \ gone) \cup {<<c, pools>>}
          /\ Goto(c, "swim")
    /\ UNCHANGED <<sessionVars, serverVars, casting, bet, restarted, pools>>

\* The last call of the tween: FishPool.recycle, then the promise.  There is
\* one node, so that the recycled one may be another run's by now.
SchoolDone(c) ==
    \E p \in 1..pools :
        /\ <<c, p>> \in swims
        /\ fish' = [fish EXCEPT ![p] = Release(@)]
        /\ \E gone \in SUBSET SwimsIn(p) : swims' = swims \ (gone \cup {<<c, p>>})
        /\ Goto(c, "result")
        /\ UNCHANGED <<sessionVars, serverVars, casting, bet, restarted, pools>>

\* Mutant of ResultDone: no finally block.
ResultDoneWithoutFinally(c) ==
    /\ pc[c] = "result"
    /\ Goto(c, "done")
    /\ UNCHANGED <<sessionVars, serverVars, casting, bet, restarted, poolVars>>

\* playResultAnimation has ended; the labels and the finally block.
ResultDone(c) ==
    /\ pc[c] = "result"
    /\ Finally(c)
    /\ UNCHANGED <<sessionVars, serverVars, bet, restarted, poolVars>>

-----------------------------------------------------------------------------

\* What the server, the network, the timers and the tweens do in the end.
Progress(c) ==
    \/ SessionCreated(c) \/ SessionFailed(c) \/ BalanceAnswered(c)
    \/ ReadSessionKey(c) \/ BetAnswered(c) \/ BetFailed(c) \/ BetRefused(c)
    \/ ReplayFetched(c) \/ RodDone(c) \/ SpawnSchool(c) \/ SchoolDone(c) \/ ResultDone(c)

Next ==
    \/ \E c \in Runs : CastClick(c) \/ ReplayRound(c) \/ Progress(c)
    \/ Expire

Fairness == \A c \in Runs : WF_gameVars(Progress(c))

Spec == Init /\ [][Next]_gameVars /\ Fairness

-----------------------------------------------------------------------------

\* No two bets carry the same sequence of the same session, and every bet is
\* signed with the key of the session it names; with a merchant secret the
\* key is read after an await, and only the first half holds.
BetsAreFresh ==
    \A c \in Runs :
        /\ ~hasSecret => bet[c].key = bet[c].token
        /\ \A d \in Runs :
              bet[c].token # 0 /\ bet[c].token = bet[d].token /\ bet[c].seq = bet[d].seq
                => c = d

\* The flag, and the disabled button, belong to a run that is underway; and
\* runs are underway side by side, or behind an enabled button, only after a
\* click that found the session expired (start is awaited before the flag is
\* set) or after a replay (which does not look at the flag).
CastsTakeTurns ==
    /\ casting => \E c \in Runs : Underway(c)
    /\ \/ restarted # {}
       \/ \E c \in Replays : pc[c] # "idle"
       \/ \A c, d \in Runs : Underway(c) /\ Underway(d) => c = d /\ casting

\* The client's sequence runs ahead of the server's by the bets on their way,
\* unless a bet of the session was not counted: nothing else in the client
\* brings the two counters apart.
SequencesInStep ==
    info.token \notin refused \cup {0} =>
        info.next = accepts[info.token]
                      + Cardinality({c \in Runs : /\ pc[c] \in {"signing", "bet"}
                                                  /\ bet[c].token = info.token})

\* The count of a fish pool is the number of its nodes in the scene, tweens of
\* recycled nodes notwithstanding; so acquire never runs into maxActive.
FishAccounted ==
    \A p \in 1..MaxPools : fish[p].count = IF fish[p].active THEN 1 ELSE 0

\* However casts, restarts and replays overlap and whatever fails, the cast
\* button comes back.
ButtonReturns == casting ~> ~casting

=============================================================================
