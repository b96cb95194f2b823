---------------------------- MODULE LedgerPoster ----------------------------
(***************************************************************************)
(* The shadow account of one player (pkg/ledger/poster.go): every call of  *)
(* Post or PostInTx is a MySQL transaction that locks the account row,     *)
(* inserts an entry with the balances before and after, moves the mirror   *)
(* and registers the event of the entry.  What a transaction has written   *)
(* is private to it, in draft, until it commits.                           *)
(*                                                                         *)
(* The wallet is the authority: a posting that carries the balance its     *)
(* wallet call returned sets the mirror to it, and the difference to what  *)
(* the ledger computes is the entry's drift.  Postings of a player run     *)
(* concurrently (a bet, a reconciler, a manual adjustment), and not in the *)
(* order in which the wallet moved the money.                              *)
(*                                                                         *)
(* No transaction type of the seed data touches the frozen balance, which  *)
(* is left out.  The currency is the same for all postings.                *)
(***************************************************************************)
EXTENDS Integers, Sequences, FiniteSets

CONSTANTS
    Keys,           \* merchant, round, type and status of an entry; a manual
                    \* adjustment has no round and a key of its own
    AmountOf,       \* amount of a key
    Credits,        \* keys of a type with balance_change INCREASE
    Unsettled,      \* keys with a status other than SUCCESS
    Postings,       \* calls of PostInTx
    KeyOf,          \* key of a posting
    Quoting,        \* postings that carry a WalletBalance
    Announcing,     \* postings of a poster with a sink: those of the RGS, not
                    \* those of the rollback and the admin service
    NoOne,
    MaxFaults       \* bound: failed statements, commits and wallet calls

ASSUME LedgerAssumption ==
    /\ AmountOf \in [Keys -> Nat \ {0}]
    /\ Credits \subseteq Keys /\ Unsettled \subseteq Keys
    /\ KeyOf \in [Postings -> Keys]
    /\ Quoting \subseteq Postings /\ Announcing \subseteq Postings
    /\ NoOne \notin Postings
    /\ MaxFaults \in Nat

VARIABLES
    wallet,     \* the player's balance at the operator
    moves,      \* history: keys whose money moved, in the wallet's order
    mover,      \* history: the posting whose wallet call moved the money
    quote,      \* the balance a posting's wallet call returned
    stage,      \* what a posting does next
    snapshot,   \* keys its plain SELECTs see: those committed at its first
                \* one, all of Keys as long as it has made none
    rowLock,    \* the transaction that holds the account row
    draft,      \* what a transaction has written and not committed
    account,    \* player_accounts
    book,       \* game_transactions, in the order of their commits
    events,     \* ledger events in the outbox
    outcome,    \* what PostInTx returned
    faults

walletVars == <<wallet, moves, mover, quote>>
tableVars  == <<account, book, events>>
ledgerVars == <<walletVars, stage, snapshot, rowLock, draft, tableVars, outcome, faults>>

Entries  == [key : Keys, posting : Postings, before : Int, after : Int, drift : Int]
Accounts == [balance : Int, version : Nat, drifts : Nat]
Drafts   == [account : Accounts, entries : Seq(Entries), events : SUBSET Keys]
Stages   == {"wallet", "begin", "lock", "insert", "update", "publish", "commit", "done"}
Outcomes == {"none", "posted", "duplicated", "rejected", "conflict", "notfound", "failed"}
Nothing  == [account |-> [balance |-> 0, version |-> 0, drifts |-> 0],
             entries |-> <<>>, events |-> {}]

Signed(k) == IF k \in Credits THEN AmountOf[k] ELSE -AmountOf[k]
Booked    == {book[i].key : i \in DOMAIN book}
Moved     == {moves[i] : i \in DOMAIN moves}

\* The type invariant.
LedgerTypeOK ==
    /\ wallet \in Nat
    /\ moves \in Seq(Keys)
    /\ mover \in [Keys -> Postings \cup {NoOne}]
    /\ quote \in [Postings -> Nat]
    /\ stage \in [Postings -> Stages]
    /\ snapshot \in [Postings -> SUBSET Keys]
    /\ rowLock \in Postings \cup {NoOne}
    /\ draft \in [Postings -> Drafts]
    /\ account \in Accounts
    /\ book \in Seq(Entries)
    /\ events \subseteq Keys
    /\ outcome \in [Postings -> Outcomes]
    /\ faults \in 0..MaxFaults

Init ==
    /\ wallet = 0 /\ moves = <<>>
    /\ mover = [k \in Keys |-> NoOne]
    /\ quote = [p \in Postings |-> 0]
    /\ stage = [p \in Postings |-> "wallet"]
    /\ snapshot = [p \in Postings |-> Keys]
    /\ rowLock = NoOne
    /\ draft = [p \in Postings |-> Nothing]
    /\ account = Nothing.account
    /\ book = <<>> /\ events = {}
    /\ outcome = [p \in Postings |-> "none"]
    /\ faults = 0

Fault == faults < MaxFaults /\ faults' = faults + 1

Goto(p, s) == stage' = [stage EXCEPT ![p] = s]

\* The transaction ends: its lock is gone, and so is what it wrote.
End(p, result) ==
    /\ stage' = [stage EXCEPT ![p] = "done"]
    /\ outcome' = [outcome EXCEPT ![p] = result]
    /\ draft' = [draft EXCEPT ![p] = Nothing]
    /\ rowLock' = IF rowLock = p THEN NoOne ELSE rowLock

-----------------------------------------------------------------------------
(* The wallet, before the posting *)

\* The wallet call whose money the posting books; an idempotent wallet moves
\* the money of a key once and answers a repeated call with the balance of
\* the moment.  A posting that is not SUCCESS books nothing that moved.
CallWallet(p) ==
    LET k == KeyOf[p]
    IN  /\ stage[p] = "wallet"
        /\ \/ /\ k \notin Unsettled \cup Moved
              /\ wallet + Signed(k) >= 0
              /\ wallet' = wallet + Signed(k)
              /\ moves' = Append(moves, k)
              /\ mover' = [mover EXCEPT ![k] = p]
           \/ k \in Unsettled \cup Moved /\ UNCHANGED <<wallet, moves, mover>>
        /\ quote' = [quote EXCEPT ![p] = wallet']
        /\ \/ Goto(p, "begin") /\ UNCHANGED <<outcome, faults>>
           \/ Fault /\ Goto(p, "done") /\ outcome' = [outcome EXCEPT ![p] = "failed"]
        /\ UNCHANGED <<snapshot, rowLock, draft, tableVars>>

-----------------------------------------------------------------------------
(* PostInTx *)

\* typeByCode when the types are not cached: a plain SELECT, with which
\* MySQL's REPEATABLE READ fixes what later plain SELECTs of the transaction
\* see.
LoadType(p) ==
    /\ stage[p] = "begin"
    /\ snapshot' = [snapshot EXCEPT ![p] = Booked]
    /\ Goto(p, "lock")
    /\ UNCHANGED <<walletVars, rowLock, draft, tableVars, outcome, faults>>

\* Mutant of LockAccount: SELECT without FOR UPDATE.
LockAccountPlain(p) ==
    /\ stage[p] \in {"begin", "lock"}
    /\ draft' = [draft EXCEPT ![p] = [Nothing EXCEPT !.account = account]]
    /\ Goto(p, "insert")
    /\ UNCHANGED <<walletVars, snapshot, rowLock, tableVars, outcome, faults>>

\* EnsureAccountForUpdate, at once when the type is cached: waits for the
\* row, locks it and reads it.
LockAccount(p) ==
    /\ stage[p] \in {"begin", "lock"} /\ rowLock = NoOne
    /\ rowLock' = p
    /\ draft' = [draft EXCEPT ![p] = [Nothing EXCEPT !.account = account]]
    /\ Goto(p, "insert")
    /\ UNCHANGED <<walletVars, snapshot, tableVars, outcome, faults>>

\* applyChange, and the wallet's word for it when the posting carries one.
Computed(p) == draft[p].account.balance + Signed(KeyOf[p])
After(p) ==
    IF KeyOf[p] \in Unsettled THEN draft[p].account.balance
    ELSE IF p \in Quoting THEN quote[p] ELSE Computed(p)

\* Mutant of Drift: the wallet's balance against the balance before the entry.
DriftFromBefore(p) ==
    IF KeyOf[p] \in Unsettled THEN 0 ELSE After(p) - draft[p].account.balance

Drift(p) == IF KeyOf[p] \in Unsettled THEN 0 ELSE After(p) - Computed(p)

\* Mutant of Insufficient: the balance before the debit is looked at.
InsufficientBefore(p) ==
    KeyOf[p] \notin Unsettled /\ p \notin Quoting /\ draft[p].account.balance < 0

\* ErrInsufficientBalance: nobody knows the balance but the mirror, and the
\* mirror has not got it.
Insufficient(p) ==
    /\ KeyOf[p] \notin Unsettled /\ p \notin Quoting
    /\ Computed(p) < 0

Entry(p) ==
    [key |-> KeyOf[p], posting |-> p, before |-> draft[p].account.balance,
     after |-> After(p), drift |-> Drift(p)]

\* Mutant of InsertEntry: the unique key is not looked at.
InsertEntryTwice(p) ==
    /\ stage[p] = "insert" /\ ~Insufficient(p)
    /\ draft' = [draft EXCEPT ![p].entries = <<Entry(p)>>]
    /\ Goto(p, IF KeyOf[p] \in Unsettled THEN "commit" ELSE "update")
    /\ UNCHANGED <<walletVars, snapshot, rowLock, tableVars, outcome, faults>>

\* InsertTransaction: a new key is inserted, and only a SUCCESS entry goes on
\* to the mirror.
InsertEntry(p) ==
    /\ stage[p] = "insert"
    /\ ~Insufficient(p) /\ KeyOf[p] \notin Booked
    /\ draft' = [draft EXCEPT ![p].entries = <<Entry(p)>>]
    /\ Goto(p, IF KeyOf[p] \in Unsettled THEN "commit" ELSE "update")
    /\ UNCHANGED <<walletVars, snapshot, rowLock, tableVars, outcome, faults>>

\* ... a known key is looked up again by a plain SELECT, which may be older
\* than the entry it looks for.
Duplicated(p) ==
    /\ stage[p] = "insert"
    /\ ~Insufficient(p) /\ KeyOf[p] \in Booked
    /\ End(p, IF KeyOf[p] \in snapshot[p] THEN "duplicated" ELSE "notfound")
    /\ UNCHANGED <<walletVars, snapshot, tableVars, faults>>

Reject(p) ==
    /\ stage[p] = "insert" /\ Insufficient(p)
    /\ End(p, "rejected")
    /\ UNCHANGED <<walletVars, snapshot, tableVars, faults>>

\* Mutant of Mirror: the computed balance wins over the wallet's.
MirrorComputed(p) ==
    [balance |-> Computed(p), version |-> draft[p].account.version + 1,
     drifts |-> draft[p].account.drifts + IF Drift(p) = 0 THEN 0 ELSE 1]

\* Mutant of Mirror: the version counts down.
MirrorCountingDown(p) ==
    [balance |-> After(p), version |-> draft[p].account.version - 1,
     drifts |-> draft[p].account.drifts + IF Drift(p) = 0 THEN 0 ELSE 1]

\* The row as UpdateAccount writes it.
Mirror(p) ==
    [balance |-> After(p), version |-> draft[p].account.version + 1,
     drifts |-> draft[p].account.drifts + IF Drift(p) = 0 THEN 0 ELSE 1]

\* UpdateAccount, where version = the version read under the lock.
UpdateAccount(p) ==
    /\ stage[p] = "update"
    /\ IF account.version = draft[p].account.version
       THEN /\ draft' = [draft EXCEPT ![p].account = Mirror(p)]
            /\ Goto(p, "publish")
            /\ UNCHANGED <<rowLock, outcome>>
       ELSE End(p, "conflict")
    /\ UNCHANGED <<walletVars, snapshot, tableVars, faults>>

\* Mutant of Publish: the event is registered outside the transaction.
PublishApart(p) ==
    /\ stage[p] = "publish"
    /\ events' = IF p \in Announcing THEN events \cup {KeyOf[p]} ELSE events
    /\ Goto(p, "commit")
    /\ UNCHANGED <<walletVars, snapshot, rowLock, draft, account, book, outcome, faults>>

\* PublishInTx of a poster with a sink: the event is one more row of the
\* transaction.
Publish(p) ==
    /\ stage[p] = "publish"
    /\ draft' = [draft EXCEPT ![p].events = IF p \in Announcing THEN {KeyOf[p]} ELSE {}]
    /\ Goto(p, "commit")
    /\ UNCHANGED <<walletVars, snapshot, rowLock, tableVars, outcome, faults>>

\* The commit.  When only its answer is lost the caller gets an error.
Commit(p) ==
    /\ stage[p] = "commit"
    /\ account' = draft[p].account
    /\ book' = book \o draft[p].entries
    /\ events' = events \cup draft[p].events
    /\ \/ End(p, "posted") /\ UNCHANGED faults
       \/ End(p, "failed") /\ Fault
    /\ UNCHANGED <<walletVars, snapshot>>

\* Mutant of Rollback: the error is swallowed.
RollbackSwallowed(p) ==
    /\ stage[p] \notin {"wallet", "done"}
    /\ Fault
    /\ End(p, "posted")
    /\ UNCHANGED <<walletVars, snapshot, tableVars>>

\* A statement fails, one of the caller's own transaction (recordSettled)
\* among them, or the process dies: the transaction is rolled back.
Rollback(p) ==
    /\ stage[p] \notin {"wallet", "done"}
    /\ Fault
    /\ End(p, "failed")
    /\ UNCHANGED <<walletVars, snapshot, tableVars>>

Step(p) ==
    \/ CallWallet(p) \/ LoadType(p) \/ LockAccount(p)
    \/ InsertEntry(p) \/ Duplicated(p) \/ Reject(p)
    \/ UpdateAccount(p) \/ Publish(p) \/ Commit(p) \/ Rollback(p)

Next == \E p \in Postings : Step(p)

Spec == Init /\ [][Next]_ledgerVars

-----------------------------------------------------------------------------
(* Properties *)

\* The snapshots of the entries are continuous, whatever transactions ran
\* beside each other or were rolled back: the first entry starts from the
\* empty mirror, every other one where the one before it ended, and the
\* mirror is where the last one ended.
ChainContinuous ==
    /\ \A i \in DOMAIN book :
          book[i].before = IF i = 1 THEN 0 ELSE book[i - 1].after
    /\ account.balance = IF book = <<>> THEN 0 ELSE book[Len(book)].after

\* A key is booked once, however often it is posted.
BookedOnce ==
    \A i, j \in DOMAIN book : book[i].key = book[j].key => i = j

\* The ledger events are those of the SUCCESS entries of the posters with a
\* sink, no more and no less.
Announced(e) == e.posting \in Announcing /\ e.key \notin Unsettled
EventsMatchBook == events = {book[i].key : i \in {j \in DOMAIN book : Announced(book[j])}}

\* A caller that was told "posted" finds the entry of its own posting, and one
\* that was told "duplicated" that of another.
AnswerIsBooked ==
    \A p \in Postings :
        outcome[p] \in {"posted", "duplicated"} =>
            \E i \in DOMAIN book :
                /\ book[i].key = KeyOf[p]
                /\ (outcome[p] = "posted") <=> (book[i].posting = p)

\* UpdateAccount never meets another version than the one it read (the
\* comment at UpdateAccount calls that a grave problem that must show), and
\* the version counts the SUCCESS entries.
VersionUncontested ==
    /\ \A p \in Postings : outcome[p] # "conflict"
    /\ account.version = Cardinality({i \in DOMAIN book : book[i].key \notin Unsettled})

\* The mirror never goes below zero: either the wallet vouches for a balance
\* or the mirror covers the debit.
MirrorCovered == account.balance >= 0

\* The book and the mirror of the account tell one story: the entries follow
\* each other without a gap, the version counts them and is never contested,
\* and no debit went below zero.
BookHangsTogether ==
    /\ ChainContinuous
    /\ VersionUncontested
    /\ MirrorCovered

\* What a caller and the consumers of ledger events were told is what the
\* book says: a key is booked once, by the posting that was told so, and
\* every event has its entry, also when transactions are rolled back.
BookedAsAnnounced ==
    /\ BookedOnce
    /\ EventsMatchBook
    /\ AnswerIsBooked

\* What drift means: the ledger that books the wallet's movements in the
\* order they happened, the n-th as its n-th SUCCESS entry and with the balance
\* of its own call, agrees with the wallet: no entry drifts.
Settled(i) == Cardinality({j \in 1..i : book[j].key \notin Unsettled})
InOrder ==
    \A i \in DOMAIN book :
        book[i].key \notin Unsettled =>
            /\ Settled(i) <= Len(moves)
            /\ moves[Settled(i)] = book[i].key
            /\ mover[book[i].key] = book[i].posting
InOrderNoDrift == InOrder => account.drifts = 0 /\ \A i \in DOMAIN book : book[i].drift = 0

=============================================================================
