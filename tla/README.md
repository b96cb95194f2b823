# fastgame in TLA+

fastgame is the back end of a game aggregator: game clients send bets to the
remote game server (RGS), which debits the bet from the operator's wallet,
computes the round, has the win paid, and books everything in MySQL.  A
rollback service repairs rounds that stopped half way, and a transactional
outbox carries events to Kafka.  Its front ends are a game client, two consoles
for merchants, and two pages on which a player checks a round.  This directory
models two parts of it.  One moves money, and several processes work on it at
once: what a bet does call by call, what the reconcilers do beside it, what the
outbox delivers, and what ends up in the ledger.  The other faces a user who
does not wait: every front end sends calls whose answers come late, in another
order, or into a session that is no longer the one they were sent in.

    cd tla
    tlc -workers 2 -config MCBetFlow.cfg MCBetFlow      # model checking
    tlapm Compensation_proofs.tla                       # proofs

`PROJECT.json` lists the runs, which definition stands for which lines of the
source (`map`), the faulty variant of a definition that each property detects
(`mutants`), the disagreements between code and comments that the runs show
(`findings`), and where the code can go wrong (`hazards`).

## 1. The system

| Component | State | Operations | Interacts with |
|---|---|---|---|
| Bet flow, `services/rgs/internal/logic/betLogic.go` | none of its own; one goroutine per request | `Bet` | everything below |
| Player lock, `pkg/lock` | a Redis key with TTL, a token map per process | `Acquire`, `Release`, `WithLock` | Redis |
| Idempotency store, `pkg/idempotent` | claim, token and result keys in Redis | `ClaimWithToken`, `ReleaseClaim`, `SaveResult`, `GetResult`, `WaitAndGetResult` | Redis |
| Session store, `pkg/session` | session with the next sequence number | `Create`, `ConsumeSequence` | Redis |
| Seamless wallet, `pkg/wallet` | at the operator: bets, wins, refunds per round | `Bet`, `Win`, `Rollback`, `CheckTransaction` | HTTP |
| Pending tables, `internal/model` | `wallet_pending_ops`, `pending_transactions` | insert, list, mark, bump | MySQL |
| Rollback service, `services/rollback/internal/worker` | snapshot of a listing, row by row | `processPending`, `reconcileOne`, dead letters | wallet, MySQL, Kafka |
| Outbox, `pkg/outbox` | `event_outbox` rows, batches in flight | register, claim, deliver, settle, reap, purge | MySQL, Kafka |
| Ledger poster, `pkg/ledger` | `player_accounts`, `game_transactions` | `Post`, `PostInTx` | MySQL, outbox |
| Settle consumer, `services/consumer` | batch in memory, claims in MySQL, offsets | run, claim, flush, close | Kafka, MySQL, ClickHouse |
| Rollback request consumer, `services/rollback/internal/worker/worker.go` | offsets | fetch, handle, commit | Kafka, wallet |
| Circuit breaker, `pkg/wallet/breaker*.go` | state per operator | allow, report | wallet clients |
| Task runner, `pkg/async` | WaitGroup, closed flag | `Go`, `Run`, `Shutdown` | all services |
| RTP watchdog, `pkg/rtpwatchdog`, `pkg/security/suspend.go` | sliding window and cooldown in Redis | record, alert, suspend | Redis |
| Request guard, `pkg/security` | nonces, black and white lists with caches | check | Redis, MySQL |
| Admin, settlement periods | rows of their own | CRUD, period life cycle | MySQL |
| Broadcast hub, `services/broadcast` | open connections | register, broadcast | Kafka, WebSocket |
| Game client, `client/assets/scripts` | session with the next sequence number, cast flag, pools of nodes | `start`, `onCastClick`, `replayRound` | RGS, the engine's tweens and timers |
| Console pages, `web/admin-vue/src/views/fastgame` | list, filters, dialog, spinner of a page | load, change a filter, write | admin service |
| Console shell, `router`, `store`, `utils/auth.ts`, `lay-tag` | cookies, local storage, menus, tags | log in and out, guard, 401, second factor, tag commands | router, browser, other tabs |
| Old console, `web/admin-legacy/js` | its panels, and one session for all of them | load, write, log in and out, bind | admin service |
| Verify and replay pages, `web/verify`, `web/replay`, `web/shared` | the fields, a result card, a canvas | import, check, share, replay | RGS (one round), browser |
| Generator, pay table, money, `pkg/prng`, `pkg/par`, `pkg/money` | none | pure | - |

The hard part of the system is not in any one component.

* **Concurrency.**  A client that gets no answer sends the round again, to any
  process.  The lock that keeps bets of one player apart lives 3 s, the wallet
  call inside it may take 5 s.  The reconcilers work on the same rounds from
  another service, each on a listing that is old by the time it comes to a row.
  Two goroutines of one process share a claim owner during a shutdown.
* **Failure.**  Every remote call may fail before it took effect or after.  A
  process may die between two of them.  Five stores (Redis, wallet, MySQL,
  Kafka, ClickHouse) have no common transaction.
* **Ordering.**  Postings reach the ledger in another order than the wallet
  moved the money; an outbox event that failed is overtaken by later ones.
* **Timeouts.**  The 3 s lock, the 24 h claim, the two-minute reaper and the
  ten retries of a reconciler each race an answer that is late.

* **A user in the middle.**  The front ends never cancel a call and do not
  number their loads.  A button is clicked twice, a filter changed while its
  list is loading, a user logs out with calls on their way and another logs in;
  a node of the game is recycled under its tween; two replays draw on one canvas.

What makes the components correct:

* Bet flow: a round is worked on by one request at a time, paid once, answered
  the same to everybody; what is announced as settled did happen; a win that
  could not be paid is remembered; a failure strands no more than one claim and
  hides no more than one debit.
* Lock: no two holders as long as it does not run out; released by its owner.
* Rollback service: nothing is both paid and refunded; a row is closed only
  when its round is resolved, given up only with a report, and never forgotten.
* Outbox: a registered event is published or given up after all retries; no
  two dispatchers hold it unless one was reaped at work.
* Ledger: the balances of consecutive entries fit together, a key is booked
  once, the event of an entry exists exactly when the entry does, and a drift
  can be explained.
* Settle consumer: an event is stored and counted once; the offset of the group
  passes a message only when its row is safe; a shutdown flushes and ends.
* Game client: no sequence number is sent twice, and the client's number stays in
  step with the server's unless a bet is not counted; the cast button comes
  back; a pool's count is that of its nodes in the scene.
* Console pages: at rest a page shows the answer to what was asked last, after
  the last write; a spinner ends; what was loaded for one merchant is not saved
  under another; no button is offered to a role that the service refuses.
* Console shell: a page is on the screen only in a session that may see it; the
  stored roles are those of the stored token; a page has one tag, and the fixed
  tag stays.
* Verify and replay: what a card says of a round is what the server paid, and
  a picture on the canvas is of one round.

## 2. The modules

| Module | Stands for |
|---|---|
| `BetRequests` | requests, rounds, tokens and processes: the constants the others share |
| `RedisLock` | `pkg/lock/redis_lock.go` |
| `IdempotentStore` | `pkg/idempotent/store.go` |
| `SessionStore` | `pkg/session/store.go` |
| `SeamlessWallet` | `pkg/wallet`: what a caller sees of the operator's wallet, external |
| `RoundStore` | the pending tables; ledger and outbox as sets of keys |
| `BetFlow` | `BetLogic.Bet`, composed of the six above; `MCBetFlow` its instance |
| `Compensation` | the rollback service next to `BetFlow`; `MCCompensation` |
| `EventDelivery` | what the outbox promises, abstractly |
| `Outbox` | `pkg/outbox`, with the refinement mapping to `EventDelivery`; `MCOutbox` |
| `LedgerPoster` | `pkg/ledger/poster.go` with its tables; `MCLedger` |
| `KafkaPartition` | a partition seen through kafka-go's Reader, external |
| `SettleConsumer` | `services/consumer` and `pkg/batch`; `MCSettleConsumer` |
| `GameClient` | the client's controller with its session and fish pool; `MCGameClient` |
| `ConsoleCalls` | one page of a console at work, whatever the page |
| `ConsoleViews`, `LegacyPanels` | the pages of the new and the panels of the old console, as records; `MCConsole` |
| `TagBar` | the store of the tags and the arithmetic of their commands |
| `AdminShell` | the new console around its pages, on `TagBar`; `MCAdminShell` |
| `PayTable` | the pay table, its sampling and the rounding of a prize, on the server and on the pages |
| `FairPages` | the verify and the replay page, on `PayTable`; `MCFairPages` |
| `Compensation_proofs` (of `BetFlow` and `Compensation`), `Outbox_proofs`, `Ledger_proofs`, `SettleConsumer_proofs`, `GameClient_proofs`, `Console_proofs`, `AdminShell_proofs`, `FairPages_proofs` | theorems and proofs |

**BetFlow.**  `pc[h]` is the call request `h` makes next; each action is one
remote call of `Bet` with everything the code does on its outcome, so that
requests interleave between calls and nowhere else.  `resp[h]` is the response
composed so far, which the code keeps in a local variable.  `Fails(effect,
store)` is a call that returned an error to its caller: it took effect, or it
did not.  Redis operations are atomic, the two-step ones are two actions:
`ConsumeSequence` is a GET and a SET, `Release` takes the token from the map of
the process and then runs the script; `SaveResultHalf` is the pipeline of
`SaveResult` that failed between its two SETs.  `Crash` is a process death, with all
its requests and its token map; `ExpireLock` lets the TTL pass, under a request
still at work only as often as `MaxOverruns`.  Which rounds win is the constant
`Winning`: the generator is deterministic.

**SeamlessWallet** is external.  A call ends `"ok"`, `"refused"` (nothing moved)
or `"lost"` (moved or not, an error for the caller; the circuit breaker, when it
refuses, looks like "refused").  `IdempotentWallet` says whether a repeated call
of a round moves money again; the bet flow is checked, and proved, without that
assumption, the reconcilers, which retry by design, with it.

**Compensation** extends `BetFlow` with loops that list rows (`List`), take one
(`TakeRow`), call the wallet, post the ledger, and mark, bump or give up the
row, each statement an action.  A row in hand is the copy that was listed, with
the retry counter of that moment.  The age that `ListStalePending` asks for is
`Old`: no request is between the debit of the round and its saved answer, for
the orphan age is minutes and a request lives seconds.  A restart of the service empties the loops.

**Outbox.**  A dispatcher holds records it claimed (`todo`), records whose
publishing failed (`errs`) and events it published (`oks`).  The statements of
`SettleBatch` are actions, for they are not one transaction; each looks for
rows it still owns (`Mine`).  `ReapStuck` takes claims back; when its holder is
still at work that counts in `slow`.  Back-off times are left out: a pending
row may be due at any moment, which only adds interleavings.

**LedgerPoster.**  One player.  Each `PostInTx` is a database transaction whose
writes are in `draft[p]` until `Commit`.  `LockAccount` is the
`SELECT ... FOR UPDATE`; `LoadType` is the plain SELECT of a type cache that
expired, which under REPEATABLE READ (MySQL's default; nothing in the
repository sets another level) fixes `snapshot[p]` for later plain SELECTs.
`wallet`, `moves`, `quote` are the operator's side, so that drift means
something.  `Rollback` is any failing statement, and the death of the process.

**SettleConsumer.**  `stage["run"]` is where the loop of `Worker.Run` is with its
message `current`, `stage["ticker"]` where the loop of the batcher is.  The mutex
of the batcher makes `Add` and `TakeBatch` atomic; the insert and the commit of a
flush are outside it, so that two flushes overlap.  `Fails` is a call that
returned an error: a fault, or the cancelled context of `Run` after `SigTerm`,
which the detached context of the ticker loop does not share.  A failed insert
may have written the batch.  `dropped`, `skipped` and `unclaimed` are history:
rows lost from memory, messages whose parsing failed, claims let through.  In
`KafkaPartition` a commit sets the group's offset, also backwards, as kafka-go
does when an older batch commits last.  Old rows of `processed_events` are not
purged: their seven days are longer than a redelivery takes.

**GameClient.**  A run is one call of `start`, `onCastClick` or `replayRound`;
`pc[c]` is the await it is at, and an action is what it does from one await to
the next, as JavaScript runs nothing in between.  The server is what the client
can see of it: `accepts[t]`, the sequence a session accepts next.  `swims` are
the tweens that will call back; whether the tween of a recycled node still does
is up to the engine, so both are allowed.  A second `start` makes new pools beside
the old ones, hence pools are numbered.

**ConsoleCalls, ConsoleViews, LegacyPanels.**  The fifteen pages of the new console and the
eleven panels of the old one are the same program with different switches: does the page load
when it opens, which controls load, what does a failed load leave behind, is the
spinner a flag of its own, which writes are there, for whom, and does a load
follow.  The whitelist panel shows its rows only after its second stage (`whole`), and the
RTP panel's opening fetches the merchants and nothing else (`opens = "call"`).
`ConsoleCalls` is that program, and a page a record of its switches,
each read off its script and template.  The variable `page` is chosen by `Init`,
so one run checks them all.  `calls[s]` is a call on its way with what it asked
for; answers come in any order.  The service is a revision that every write
raises, with `pkg/auth`'s `CanAccess` in `Permitted`.  `late`, `failed`, `mixed`
and `refused` are history.  The panels of the old console share a session and
survive it: `SignOut`, `SignIn`, `OpenTab` and the binding of a second factor
are actions, and a 401 (`Fails`) ends whatever session there is.

**AdminShell, TagBar.**  One tab of a browser.  `browser` is what cookies and local
storage hold, shared with other tabs; `named` and `menus` are the stores of this
one.  `Go` is a push, decided by the guard at once; `Arrive` puts the page up later.
`calls` keeps the token each call was sent with, because the interceptor does
not: a 401 to an old call logs out whoever is logged in.  The sidebar and the tags follow
an arrival only at a page they are told of (`Told`), with menus that have come.  A tag is its path;
`Remaining` and `Leads` are `deleteDynamicTag` with JavaScript's indexes, -1
included, as `Splice` treats them.

**PayTable, FairPages.**  A round is a pick in the table and a stake; hashes and
rolls are references to the round they are of, equal or not.  The two ways the
pages write an amount, units and minor units, are numbers and are converted as the code
does; the last line of a replay is one or the other, as the page got it (`Line`).  Amounts
are exact: the limits of an int64 on the server and of a JavaScript number on the
pages are left out.  `FairPages` is both pages over the same fields: checks that end in a
card, or are refused at once (`CheckRefused`), and replays that draw on one canvas
(`runs`).  An action draws what the page draws between two awaits: the scene, a frame of
the path, which covers the whole canvas, or the last frame.

## 3. Runs

| Run | States | What it shows |
|---|---|---|
| `betflow` | 780 114 | `OneResultPerRound` (claims exclusive, one payment, one answer, events backed by money), `OnePlayerAtATime` (lock and sequence), pending wins recorded, a saved answer stays; `ClaimsResolved`, `DebitsRemembered`: no more claims stranded, and no more debits forgotten, than calls failed |
| `compensation` | 1 401 882 | `RoundsResolvedSafely`: rows are closed or given up only for a reason that can be seen; and no round is both paid and refunded where no MySQL or Redis call failed and no RGS process died, whatever the wallet and the restarts of the service do |
| `compensation_live` | 150 872 | every pending row is resolved |
| `outbox` | 198 613 | `NoEventLost`: `Outbox` implements `EventDelivery`; `BatchesKeepApart`: claims and give-ups; `EventsResolved`: every registered event is sent or given up |
| `ledger` | 562 121 | `BookHangsTogether`: chaining, versions, mirror; `BookedAsAnnounced`: once, with its event and its answer; no drift in order |
| `settle_consumer` | 197 395 | rows stored once, `LossesAreKnown`: losses only where the code drops; `BatchesEnd`: the batcher flushes, a shutdown ends |
| `game_client` | 286 032 | sequences are fresh and in step, casts take turns, fish are counted, the button returns |
| `console` | 719 568 | on every page of both consoles: spinner, what is shown, what is saved, what is refused |
| `admin_shell` | 596 619 | sessions and pages, tags |
| `fair_replay` | 383 876 | what a card says of a round and of its prize (`CardIsTrue`); every picture is of one replay (`PictureIsOne`) |
| `bet_timeout` | violation | a debit whose answer is lost releases the claim of a debited round |
| `closed_unbooked` | violation | a row is closed although the ledger lacks the win |

The two violations are disagreements between the code and its own comments.

* `bet_timeout`: `Bet` calls `ReleaseClaim` on any error of `wallet.Bet`, with
  the comment that the debit did not succeed.  After a timeout it may have.
  The retry then debits the round a second time, unless the wallet recognises
  the round; without a retry nothing in the RGS remembers the debit.
* `closed_unbooked`: when the process dies between `wallet.Win` and
  `recordSettled`, the orphan reconciler learns from the wallet that the round
  is settled and closes the row.  The win has no ledger entry then, though the
  branch beside it posts one.

Other disagreements came up while the models were written.  The models do what
the code does, and where a property would say otherwise it names the exception.

* `redis_lock.go:73`: `Release` looks up its token by lock key in the map of the
  process.  The token there is that of the last acquirer, so that a late release
  passes the owner check of the script and removes the lock of another request.
* `poster.go:266`: a posting that waits for the row lock while another one books
  the same key, and whose snapshot is older than that commit, finds the key
  taken and the entry missing.  In `recordSettled` the error rolls back the whole
  settlement transaction.
* `worker.go:128` of the consumer: the claim of an event commits by itself and the row
  is written by a later flush, though `outbox.go:13` and the schema demand one
  transaction.  After a process death between the two the event is a duplicate
  of itself.  `LossesAreKnown` says that this, a failed flush, and a
  flush under the context that SIGTERM cancelled are the only ways to lose a row.
* `shared/prng-money.js`: it is said to mirror the server (lines 1 to 11), but `betToMinor` takes
  an amount of 10 000 or more for minor units and any other for units of money, though
  either can be the other, and `applyMultiplier` cuts off a half that the server
  rounds up.  `CardIsTrue` names both exceptions.
* `replay/js/app.js:125`: a round that is loaded by its id gets its last line from the
  answer of the service, in minor units (`replayLogic.go:95`); one that is derived from
  seeds gets it from `prng-money.js:155`, in units.  A prize of 2.5 is shown as 25000 and
  as 2.5, and so is the multiplier.  `Line` keeps the two apart, and no property
  compares them with what was paid.
* `money.go:66` says that its fast path cannot overflow, but leaves the `Scale / 2` that
  is added out of the test: the last products below 2^63 wrap.
* `idempotent/store.go:65` calls the update atomic; line 74 takes a pipeline that is no
  transaction.  After a failure in between the answer is there and the claim is still
  `PENDING` (`SaveResultHalf`), which `GetResult` hides from every retry.
* `verify/js/app.js:148` shows a formula with thresholds at 55 % and 90 %, and
  `client/.../ReplayEngine.ts:2`, "same as engine.go", computes by it.  The server samples
  a pay table since.
* `merchant/games/index.vue` offers the import to everybody, against `docs/DEV.md:68`
  and against `CanAccess`, which refuses a viewer; the old console's settlement
  rows keep the buttons they were rendered with when another user signs in
  (`RefusedIsTheImport`).
* `admin-legacy/js/api.js:66` and the interceptor of the new console: a 401 to a
  call of a session that is over ends the session that replaced it.
* `AdminShell`: recovery codes are shown only if the dialog is still open
  when the answer arrives; closed meanwhile, they are lost with the second factor bound.
* `BubblePool`: a second `start` leaves the timer of the old bubbles running.
* `replay/index.html:12` promises that every replay is reproduced; two at once draw on one
  canvas in turns, and what stays is the one that ended last, whichever was asked for
  last.  `PictureIsOne` says that each picture is of one of them.
* `NodePoolManager.ts:6` forbids `instantiate` in the game loop; an empty pool does it.

**Bounds.**  `betflow`: three requests of one player, a round and its retry in
two processes and another round in the first one's process.  This is the
smallest instance with all the conflicts the code knows: two requests of one
round, two rounds of one player, two requests of one token map, two token maps.
One failed call, one process death and one overrun lock, in any combination; a
second fault mostly ends another request early.  Rounds, tokens and requests
are only compared, so that further ones add no new kind of step.
`compensation`: a winning and a losing round, one loop of each kind, one retry
before a row is given up (ten in the code; the counter is only compared with
the limit), one restart.  `BigWins` is empty there: the announcement of a big
win bears no relation to the pending tables.
`outbox`: two events, three dispatchers of which two share an owner, batches of two,
two retries, and one mishap, be it a fault, a death or an early reap: the smallest
instance in which owners, batches and limits can be confused.  It uses no symmetry,
for it checks liveness.
`ledger`: a win that is posted twice, an entry that moves no money, and a debit
without a wallet balance, with one fault, so that every branch of `PostInTx`
runs beside every other one.
`settle_consumer`: four messages, of which one cannot be read, one has no id and
two are the same event, in batches of two: the smallest log with a duplicate of
a row that is stored, of one in the batcher and of one in flight, and with two
overlapping flushes.  One failed call, one SIGTERM or process death and one
rebalance, so that every message may be read three times.
`game_client`: the engine's start, two clicks and a replay over two sessions, the least in
which a second session has a bet of its own beside a call of the first one, and
a replay overlaps a cast.
`console`: two settings of a page's controls, three calls on their way (a load, the
load that overtakes it, and a write), one write that the service carries out.
A panel of the old console, whose session adds states of its own, has two calls and
one more sign-in; its first session is an admin's, who has every button (a first
session of another role is a second one whose rows are its own), and after the
sign-in a panel with text fields has one call.  Settings and calls are interchangeable: the run uses
that symmetry, and has no liveness.
`admin_shell`: a page for everybody and one for admins, an admin and a viewer, two
tokens, a login and another call on their way, one mishap.  Two constraints cut states
off: `LoginIsAwaited` (while a login is on its way the tab stays on the login
page, which it leaves only if another tab logs in meanwhile) and `TokenLeft` (a
second factor is begun only while a token is left for it).  So binding a
second factor after a new login of another user is not reached; `overtaken`
stands for it in the properties.
`fair_replay`: two rounds, the first on each edge of the table, stakes on both sides of
every rounding and reading; two checks or replays at once, two edits.  `Scale` is
20: of the code's 10 000 the arithmetic only uses that it is even.

Deadlock is not checked: requests end, partitions are read to their end, the loops may come to
rest with nothing to do.

**Fairness.**  `compensation_live` assumes weak fairness of each request step
and each loop step: the goroutines run, and every call they make returns,
for the clients have timeouts.  Crashes, lock expiry and failures are never
assumed to happen, and need not stop by themselves: their number is bounded,
which says that a database that fails forever is outside the claim.
`outbox` (`EventsResolved`) assumes weak fairness of every dispatcher and of the reaper,
which are ticker loops.  Neither assumes that the wallet or Kafka ever succeeds: rows
end as failed then.
`game_client` (`ButtonReturns`) assumes weak fairness of what each run waits for: calls are
answered or fail, timers fire, tweens call back or their node is recycled by
another run that ends.
`settle_consumer` assumes weak fairness of both loops of the worker, of their
flushes and of the restart of a process that ended.

## 4. Proofs

`tlapm` proves for every value of the constants what the runs check on an
instance.

**Compensation_proofs, the bet flow.**  `OneResultPerRound` with its four parts `ClaimExclusive`,
`PaidOnce`, `AnswersAgree` and `EventBacked`, `ResultStable` and `TypeOK`, for any
number of requests, processes, rounds and
faults.  The properties are not inductive: that a round is paid once depends on
who may still pay it.  `IInv` adds that a request between claiming and
releasing owns a claim (`OwnerClaims`), that a round for which somebody has
composed or saved an answer is never unclaimed (`SpentIsClaimed`), that the
owner of a claim works on a round not yet answered (`OwnerUnspent`), and what
the money of its round looks like at each step (`OwnerMoney`).  The lock does
not occur in the argument: the claim alone keeps the requests apart, which is
why a lock that runs out does no harm to these properties.

Four more properties have an invariant of their own on top of `IInv`.
`OnePlayerAtATime` is where the lock counts: while none has run out, whoever is
inside holds it, whatever token the unlock script is given (`HolderInLock`), and the
counter is past every consumed `sequenceId` (`SequenceInv`).
`PendingAnswerRecorded` says for each call of a pending payout what is written
by then and how many calls must have failed for it to be missing (`HasRow`).

`ClaimsResolved` and `DebitsRemembered` count.  `Stranded` and `Forgotten` are the rounds
that were lost: claimed with nobody at work and no answer, debited with no row and nobody
about to write it.  `LossInv` bounds both by the calls that failed, so each step
is shown to add no round to either set, or one together with a fault (`StepStrands`,
`StepForgets`).  That a death adds none is what `"crashed"` in their definitions
says: the rounds of dead requests are known, by their claim.  That a claim whose round was
debited is only ever given back by a request that told an error is a second invariant
(`FreedIsRefused`), for which whoever told one must have nothing left to do (`ErrorsEnd`).

**Compensation_proofs, the reconcilers.**  `RoundsResolvedSafely` and the types, for any number of
requests, loops, rounds and retries, and for a wallet that recognises a
repeated call as well as for one that pays it again.  `CInv` has two parts.  `WorkInv`
is what a worker knows: the money moved before it is booked (`MoneyFirst`), a
copy of a row counts no more attempts than the row (`CopyIsOld`), a row is given up
with a record (`GivesUp`), and the wallet's answer is what happened
(`StatusIsMoney`).  `CaseInv` follows a round from hand to hand.  While a request
owns it, no orphan loop has listed it (`OwnerAlone`, which rests on the age limit of
the listing).  When it is answered, its row asks for the win (`RowFollows`),
so that any copy listed from then on leads to a payment and never to a refund
(`AnsweredKept`), though the copies are stale by the time they are used.  A row
of a round with no answer has a request working on it, unless a process died
(`RowsAnswered`).

**Outbox_proofs.**  Types, the refinement and `BatchesKeepApart`.  Every step of
`Outbox` is a step of `EventDelivery` or a stutter (`OutboxDelivers`): the
invariant `OInv` says that a held record is registered and that what a
dispatcher is about to confirm is published.  `ClaimedOnce` rests on rows in
flight having the owner of their holder.  `GivenUpWasTried` compares a row with the
copy its dispatcher works on: it is the only copy in hand (`OneRecord`), no newer than the row
(`RecordsAreOld`), and the failures of a row are its retries (`FailuresCounted`).

**Ledger_proofs.**  `BookHangsTogether` and `BookedAsAnnounced` with their parts, and the types.  The
invariant `LInv` ties the row lock to the stages (`LockInv`), says that what the
holder of the lock has drafted fits the tables as they are (`DraftInv`: the
entry starts where the book ends, its key is new, the drafted row is its
balance), and that entries belong to postings that are over (`OverInv`).
Commits are the only steps that touch the tables, and `CommitTables` shows what
one more entry does to each property.

`InOrderNoDrift` needs an invariant of its own, `OrderInv`, which avoids the sum over the
movements: the wallet after the n-th movement is what it answered to the
posting that moved the money, a quote that nothing overwrites (`WalletInv`,
`WalletGrows`).  While the book follows the wallet, the mirror is the wallet after
the movement booked last (`Followed`), so that the next entry in turn computes what
its wallet call returned.  A wallet call cannot put a book in order that was not
(`OrderBefore`): the money of every SUCCESS entry has moved before it is booked.

**SettleConsumer_proofs.**  `ProcessedOnce`, `LossesAreKnown` with its parts, and the types, for any log, batch size
and number of faults, deaths and rebalances.  `SInv` holds two arguments.
`CountInv` counts: rows stored plus rows waiting for an insert never exceed the
times an event was handed to the watchdog, and those never exceed its claim plus
the claims let through.  `PassedInv` follows the offsets: whatever lies below
the position, the committed offset or any message in memory is stored, past its
claim, skipped or dropped.  Memory is part of it because a rebalance moves the
position back behind messages that are still in a batch, whose commit comes
later.  `ClaimInv` is what makes a duplicate safe to pass: its first copy is
past its claim.

**GameClient_proofs.**  All safety properties of the client, for any number of
clicks, replays and sessions.  `GInv` numbers the pools by the clicks that
found no session (`PoolsCounted`), keeps each kind of run on its own way
(`RunsInPlace`), gives every tween a run that waits for it (`TweensOfSwims`), and says that sessions
and bets carry issued tokens and a sequence that was taken from the session
(`TokensIssued`).  `SequencesInStep` counts the bets on their way, so that each step
is a lemma on the cardinality of that set.

**AdminShell_proofs.**  `SessionGuarded`, for any pages, users, calls and
sessions.  `PageNeedsSession` speaks of a page that has arrived, so `SInv` follows every push from
the guard that decides it to its arrival (`PagesFit`): what happens in between leaves the
guard's session in place or pushes again.  The menu of a tag is open beside
the layout only (`MenuIsInLayout`), which is why a command never starts from the
login; and roles that are nobody's come from an overtaken second factor only (`BlankIsOvertaken`).
The tags stay tags through the index arithmetic of the bar (`SpliceType`,
`RemainingType`), or a command could lead anywhere.
`TagsDistinct` and `HomeTagKept` are about the same arithmetic.  In a bar every tag but the
home tag is there once, and home tags come first (`Orderly`): a splice leaves the other
tags in their order (`Without`), and a tag is pushed behind a look for it.  From
there `HomeStep` shows which commands can cut the first tag off.  `ShellTypeOK` needs the
bounds of what is not a tag (`ShellBounds`).

**Console_proofs.**  Every property of `ConsoleCalls`, for any number of users, sessions
and overlapping calls.  `Page` is a constant, so that the theorems hold for the pages as
they are: `PagesAssumption` says that `Page` is the pages of `ConsoleViews` and
`LegacyPanels`, which TLC evaluates in the run `console`, and `PagesFit` goes through all
26 of them for the five facts the proofs need (`PageFits`), the button behind each write among them.
`Joined` puts the page lists together instead of `@@`, of which the provers know no definition.
The invariants: calls are of the stages their page has (`LoadStages`) and one
binding of a second factor is underway at most (`OneBind`); the token decides the role and
the rows belong to the session (`TokenIsRole`, `RowsAreOurs`), so that every write was
permitted when it was sent (`CallsPermitted`), which gives `RefusedIsTheImport`; and `LastLoad` follows
the newest load from its call to the screen, in flight (`InFlight`), answered (`Answered`), over
(`Ended`), with the fields it was asked with (`FormAsked`), which gives `ShownIsAsked` and, through
`Current`, `MixedOnlyByLateAnswer`.

**FairPages_proofs.**  Every invariant of the pages, for any number of rounds, replays and
edits, any stakes and any even scale.  `PictureIsOne`: a canvas without a fish is that of a
replay that is still running, and every other one was painted by a whole frame
(`CanvasIsOne`).  `CardIsTrue`
needs that the page's table and arithmetic say what the server's say.  `Sums`
and the search of `SamplePick` are recursive functions, which are choices to the provers: that one is
what its equation says holds only if some function solves it.  So the proofs give a solution
(the sums by name in `SumsExist`; in `FindExists` the row of the pick, brought into the window) and then
unroll the equation over the eleven rows (`SumsAre`, `FindsRow`).  No induction is needed because
the table is finite and fixed.  The search and the page's walk stop at the same row
(`WalksToRow`), whose multiplier is a whole number of units but for the one that is a half
(`RowsAlike`); only there do rounding and cutting off differ, and only for an odd stake
(`PrizesAlike`).  `AmountRead` says which amounts the page reads as the stake, and `Shown`
is the invariant of the card: it is of the form its check began with.

The proofs assume the named `ASSUME`s of the modules only, which state the types
of the constants, which of them differ, and that the runs of a client are finitely many.

Model-checked and not proved: liveness (`RowsResolved`, `EventsResolved`,
`BatchesEnd`, `ButtonReturns`), which the prover does not do under fairness.  Every
invariant, every action property and the refinement that a passing run checks are stated by
theorems.

## 5. Not modelled, and why

* **HMAC and hashing.**  A hash stands for the round it is of.  The scaling of 64
  bits to a pick is left out, the table behind it is in `PayTable`.
* **`GetBalance` and `Settle` of the wallet, the transfer wallet, `retryRollback`** have no
  caller or no data in the modelled flows.  The frozen balance of an account is
  touched by no seeded transaction type.
* **The request guard** runs before the bet flow and can only refuse a request.
* **The rollback request consumer, the wallet circuit breaker, the task runner, the RTP
  watchdog, the settlement periods and the broadcast hub** are planned (section 6).
  The breaker is seen as the outcome "refused".
* **The admin service** is single-statement CRUD but for the settlement periods; what
  of it the consoles depend on is `Permitted` and `ServeWrite`.
* **Signatures, HTTP routing, tracing, metrics, configuration** hold no protocol state.
* **The rest of the client**: sound, coins, bubbles, loading of asset bundles, the HUD.
  Nothing waits for them but the bubbles' timer, named above.
* **The rest of the console**: theme settings, the menu's search, table columns, icons, the
  caches of kept-alive pages.  No state of theirs reaches the service.

## 6. Plan

Done, in this order: the bet flow with its stores; the rollback
service, on top of it; the proofs of both; the outbox, its abstraction and the proof that it implements it; the
ledger poster and its proofs; the settle consumer and its proofs; the game
client; the pages of both consoles and their proofs; the console's shell and its
proofs; the verify and replay pages and their proofs.  Next, in order of what they decide:

1. `RollbackConsumer` on `KafkaPartition`: an error skips the commit, a later
   commit passes it, and a redelivery calls the wallet again.
2. `TaskRunner`: `Go` against `Shutdown`, detached contexts, the drain deadline.
3. `CircuitBreaker`: closed, open, half-open, with concurrent reports of calls
   that started in an earlier state; composed with the wallet.
4. `RtpWatchdog`: the window script and the cooldown outside it.
5. `BlacklistCache` against its table; `SettlementPeriod`; the broadcast hub.

Theorems planned: mutual exclusion of the half-open probe of the breaker.
