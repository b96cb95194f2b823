---------------------------- MODULE Ledger_proofs ----------------------------
(***************************************************************************)
(* That the ledger of a player is continuous, free of repetitions and in   *)
(* agreement with its events and its mirror, whatever the postings, their  *)
(* interleaving and the statements that fail.  The row lock is the reason: *)
(* what its holder has drafted fits the tables as they are, and nobody     *)
(* else writes them before it commits.  In the second half, that it does   *)
(* not drift when it books the wallet's movements in their order.          *)
(***************************************************************************)
EXTENDS LedgerPoster, FiniteSetTheorems, TLAPS

Held == {"insert", "update", "publish", "commit"}

\* The holder of the row lock is the transaction between its SELECT FOR
\* UPDATE and its end.
LockInv == \A p \in Postings : stage[p] \in Held <=> rowLock = p

\* An entry that may follow the book.
Follows(p, e) ==
    /\ e.key = KeyOf[p] /\ e.posting = p
    /\ e.key \notin Booked
    /\ e.before = account.balance
    /\ e.after >= 0
    /\ e.key \in Unsettled => e.after = account.balance

\* What a transaction has drafted when it holds the lock.
EventsDrafted(p) ==
    draft[p].events = IF stage[p] = "commit" /\ p \in Announcing /\ KeyOf[p] \notin Unsettled
                      THEN {KeyOf[p]} ELSE {}

EntryDrafted(p) ==
    \E e \in Entries :
        /\ draft[p].entries = <<e>> /\ Follows(p, e)
        /\ stage[p] = "update" => e.after = After(p) /\ e.key \notin Unsettled
        /\ (stage[p] \in {"publish", "commit"} /\ e.key \notin Unsettled) =>
               /\ draft[p].account.balance = e.after
               /\ draft[p].account.version = account.version + 1
        /\ stage[p] = "publish" => e.key \notin Unsettled

Drafted(p) ==
    /\ EventsDrafted(p)
    /\ stage[p] # "insert" => EntryDrafted(p)
    /\ (stage[p] \in {"insert", "update"} \/ KeyOf[p] \in Unsettled) =>
           draft[p].account = account

DraftInv == \A p \in Postings : stage[p] \in Held => Drafted(p)

\* Entries are those of postings that are over; a posting that is not over
\* has no outcome.
OverInv ==
    /\ \A i \in DOMAIN book : stage[book[i].posting] = "done"
    /\ \A p \in Postings : stage[p] # "done" => outcome[p] = "none"

TablesInv ==
    /\ ChainContinuous /\ BookedOnce /\ EventsMatchBook
    /\ MirrorCovered /\ VersionUncontested

LInv == LedgerTypeOK /\ LockInv /\ DraftInv /\ OverInv /\ TablesInv /\ AnswerIsBooked

-----------------------------------------------------------------------------
(* Types *)

LEMMA EntryType ==
    ASSUME LedgerAssumption, LedgerTypeOK, NEW p \in Postings
    PROVE  /\ Signed(KeyOf[p]) \in Int
           /\ Computed(p) \in Int /\ After(p) \in Int /\ Drift(p) \in Int
           /\ Entry(p) \in Entries
<1> USE LedgerAssumption DEF LedgerAssumption, LedgerTypeOK, Accounts, Drafts
<1>1. Signed(KeyOf[p]) \in Int
  BY DEF Signed
<1>2. Computed(p) \in Int
  BY <1>1 DEF Computed
<1>3. After(p) \in Int
  BY <1>2 DEF After
<1>4. Drift(p) \in Int
  BY <1>2, <1>3 DEF Drift
<1>5. Entry(p) \in Entries
  BY <1>3, <1>4 DEF Entry, Entries
<1> QED
  BY <1>1, <1>2, <1>3, <1>4, <1>5

\* Appending and wrapping keep the type of a sequence.
LEMMA AppendType ==
    ASSUME NEW S, NEW s \in Seq(S), NEW e \in S
    PROVE  Append(s, e) \in Seq(S)
OBVIOUS

LEMMA SingleType ==
    ASSUME NEW S, NEW e \in S
    PROVE  <<e>> \in Seq(S)
OBVIOUS

\* The entries of the book and their keys.
LEMMA BookEntry ==
    ASSUME LedgerTypeOK, NEW i \in DOMAIN book
    PROVE  /\ book[i] \in Entries
           /\ book[i].key \in Keys /\ book[i].posting \in Postings
<1>1. book[i] \in Entries
  BY DEF LedgerTypeOK
<1> QED
  BY <1>1 DEF Entries

\* The row that UpdateAccount writes.
LEMMA MirrorType ==
    ASSUME LedgerAssumption, LedgerTypeOK, NEW p \in Postings
    PROVE  Mirror(p) \in Accounts
<1>1. draft[p] \in Drafts
  BY DEF LedgerTypeOK
<1>2. draft[p].account.version \in Nat /\ draft[p].account.drifts \in Nat
  BY <1>1 DEF Drafts, Accounts
<1>3. After(p) \in Int
  BY EntryType
<1> QED
  BY <1>2, <1>3 DEF Mirror, Accounts

LEMMA NothingType == Nothing \in Drafts
BY DEF Nothing, Drafts, Accounts

\* A draft with one of its parts replaced is a draft.
LEMMA DraftExcept ==
    ASSUME NEW d \in Drafts
    PROVE  /\ \A a \in Accounts : [d EXCEPT !.account = a] \in Drafts
           /\ \A s \in Seq(Entries) : [d EXCEPT !.entries = s] \in Drafts
           /\ \A s \in SUBSET Keys : [d EXCEPT !.events = s] \in Drafts
BY DEF Drafts

\* The drafts of the postings stay drafts when one of them changes.
LEMMA DraftsExcept ==
    ASSUME LedgerTypeOK, NEW p \in Postings, NEW d \in Drafts,
           draft' = [draft EXCEPT ![p] = d]
    PROVE  draft' \in [Postings -> Drafts]
BY DEF LedgerTypeOK

\* The end of a transaction keeps the types.
LEMMA EndType ==
    ASSUME LedgerTypeOK, NEW p \in Postings, NEW r \in Outcomes, End(p, r)
    PROVE  /\ stage' \in [Postings -> Stages]
           /\ outcome' \in [Postings -> Outcomes]
           /\ draft' \in [Postings -> Drafts]
           /\ rowLock' \in Postings \cup {NoOne}
BY NothingType DEF LedgerTypeOK, End, Stages

LEMMA TypeStep ==
    ASSUME LedgerAssumption, LedgerTypeOK, [Next]_ledgerVars
    PROVE  LedgerTypeOK'
<1> USE DEF LedgerTypeOK, walletVars, tableVars, Goto, Fault
<1>0. ASSUME NEW p \in Postings PROVE draft[p] \in Drafts
  BY <1>0
<1>1. ASSUME NEW p \in Postings, CallWallet(p) PROVE LedgerTypeOK'
  <2>1. KeyOf[p] \in Keys /\ Signed(KeyOf[p]) \in Int
    BY EntryType, LedgerAssumption DEF LedgerAssumption
  <2>2. moves' \in Seq(Keys) /\ mover' \in [Keys -> Postings \cup {NoOne}]
    <3>1. Append(moves, KeyOf[p]) \in Seq(Keys)
      BY <2>1, AppendType
    <3>2. moves' = Append(moves, KeyOf[p]) \/ moves' = moves
      BY <1>1 DEF CallWallet
    <3>3. mover' = [mover EXCEPT ![KeyOf[p]] = p] \/ mover' = mover
      BY <1>1 DEF CallWallet
    <3>4. mover' \in [Keys -> Postings \cup {NoOne}]
      BY <2>1, <3>3
    <3> QED
      BY <3>1, <3>2, <3>4
  <2>3. wallet' \in Nat
    BY <1>1, <2>1 DEF CallWallet
  <2>4. quote' \in [Postings -> Nat]
    BY <1>1, <2>3 DEF CallWallet
  <2>5. stage' \in [Postings -> Stages] /\ outcome' \in [Postings -> Outcomes]
    <3>1. \/ stage' = [stage EXCEPT ![p] = "begin"] /\ UNCHANGED outcome
          \/ stage' = [stage EXCEPT ![p] = "done"] /\ outcome' = [outcome EXCEPT ![p] = "failed"]
      BY <1>1 DEF CallWallet
    <3> QED
      BY <3>1 DEF Outcomes, Stages
  <2>6. faults' \in 0..MaxFaults
    BY <1>1, LedgerAssumption DEF CallWallet, LedgerAssumption
  <2> QED
    BY <1>1, <2>2, <2>3, <2>4, <2>5, <2>6 DEF CallWallet
<1>2. ASSUME NEW p \in Postings, LoadType(p) PROVE LedgerTypeOK'
  <2>1. Booked \subseteq Keys
    BY BookEntry DEF Booked
  <2> QED
    BY <1>2, <2>1 DEF LoadType, Stages
<1>3. ASSUME NEW p \in Postings, LockAccount(p) PROVE LedgerTypeOK'
  <2>1. [Nothing EXCEPT !.account = account] \in Drafts
    BY NothingType, DraftExcept
  <2>2. draft' \in [Postings -> Drafts]
    BY <1>3, <2>1, DraftsExcept DEF LockAccount
  <2> QED
    BY <1>3, <2>2 DEF LockAccount, Stages
<1>4. ASSUME NEW p \in Postings, InsertEntry(p) PROVE LedgerTypeOK'
  <2>1. <<Entry(p)>> \in Seq(Entries)
    BY EntryType, SingleType, LedgerAssumption
  <2>0. [draft[p] EXCEPT !.entries = <<Entry(p)>>] \in Drafts
    BY <1>0, <2>1, DraftExcept
  <2>2. draft' \in [Postings -> Drafts]
    BY <1>4, <2>0, DraftsExcept DEF InsertEntry
  <2> QED
    BY <1>4, <2>2 DEF InsertEntry, Stages
<1>5. ASSUME NEW p \in Postings, Duplicated(p) \/ Reject(p) PROVE LedgerTypeOK'
  <2>1. PICK r \in Outcomes : End(p, r)
    BY <1>5 DEF Duplicated, Reject, Outcomes
  <2> QED
    BY <1>5, <2>1, EndType DEF Duplicated, Reject
<1>6. ASSUME NEW p \in Postings, UpdateAccount(p) PROVE LedgerTypeOK'
  <2>1. CASE account.version = draft[p].account.version
    <3>1. draft[p].account \in Accounts
      BY <1>0 DEF Drafts
    <3>2. Mirror(p) \in Accounts
      BY <3>1, MirrorType, LedgerAssumption
    <3>3. [draft[p] EXCEPT !.account = Mirror(p)] \in Drafts
      BY <1>0, <3>2, DraftExcept
    <3>4. draft' \in [Postings -> Drafts]
      BY <1>6, <2>1, <3>3, DraftsExcept DEF UpdateAccount
    <3> QED
      BY <1>6, <2>1, <3>4 DEF UpdateAccount, Stages
  <2>2. CASE account.version # draft[p].account.version
    BY <1>6, <2>2, EndType DEF UpdateAccount, Outcomes
  <2> QED
    BY <2>1, <2>2
<1>7. ASSUME NEW p \in Postings, Publish(p) PROVE LedgerTypeOK'
  <2> DEFINE s == IF p \in Announcing THEN {KeyOf[p]} ELSE {}
  <2>1. s \subseteq Keys
    BY LedgerAssumption DEF LedgerAssumption
  <2>2. [draft[p] EXCEPT !.events = s] \in Drafts
    BY <1>0, <2>1, DraftExcept
  <2>3. draft' \in [Postings -> Drafts]
    BY <1>7, <2>2, DraftsExcept DEF Publish
  <2> QED
    BY <1>7, <2>3 DEF Publish, Stages
<1>8. ASSUME NEW p \in Postings, Commit(p) PROVE LedgerTypeOK'
  <2>1. PICK r \in Outcomes : End(p, r)
    BY <1>8 DEF Commit, Outcomes
  <2>2. account' \in Accounts /\ book' \in Seq(Entries) /\ events' \subseteq Keys
    BY <1>0, <1>8 DEF Commit, Drafts
  <2>3. faults' \in 0..MaxFaults
    BY <1>8, LedgerAssumption DEF Commit, LedgerAssumption
  <2> QED
    BY <1>8, <2>1, <2>2, <2>3, EndType DEF Commit
<1>9. ASSUME NEW p \in Postings, Rollback(p) PROVE LedgerTypeOK'
  <2>1. faults' \in 0..MaxFaults
    BY <1>9, LedgerAssumption DEF Rollback, LedgerAssumption
  <2> QED
    BY <1>9, <2>1, EndType DEF Rollback, Outcomes
<1>10. CASE UNCHANGED ledgerVars
  BY <1>10 DEF ledgerVars
<1> QED
  BY <1>1, <1>2, <1>3, <1>4, <1>5, <1>6, <1>7, <1>8, <1>9, <1>10 DEF Next, Step

-----------------------------------------------------------------------------
(* The lock and what its holder has drafted *)

\* Where a step takes the stage of its posting, and the lock with it.
LEMMA LockStep ==
    ASSUME LedgerAssumption, LedgerTypeOK, LockInv, [Next]_ledgerVars
    PROVE  LockInv'
<1> USE DEF LedgerTypeOK, LockInv, Held, Goto, LedgerAssumption
<1>1. ASSUME NEW p \in Postings, CallWallet(p) PROVE LockInv'
  BY <1>1 DEF CallWallet
<1>2. ASSUME NEW p \in Postings, LoadType(p) PROVE LockInv'
  BY <1>2 DEF LoadType
<1>3. ASSUME NEW p \in Postings, LockAccount(p) PROVE LockInv'
  BY <1>3, LedgerAssumption DEF LockAccount
<1>4. ASSUME NEW p \in Postings, InsertEntry(p) PROVE LockInv'
  BY <1>4 DEF InsertEntry
<1>5. ASSUME NEW p \in Postings, NEW r, End(p, r) PROVE LockInv'
  BY <1>5, LedgerAssumption DEF End
<1>6. ASSUME NEW p \in Postings, UpdateAccount(p) PROVE LockInv'
  BY <1>5, <1>6 DEF UpdateAccount
<1>7. ASSUME NEW p \in Postings, Publish(p) PROVE LockInv'
  BY <1>7 DEF Publish
<1>8. ASSUME NEW p \in Postings, Duplicated(p) \/ Reject(p) \/ Commit(p) \/ Rollback(p)
      PROVE  LockInv'
  BY <1>5, <1>8 DEF Duplicated, Reject, Commit, Rollback
<1>9. CASE UNCHANGED ledgerVars
  BY <1>9 DEF ledgerVars
<1> QED
  BY <1>1, <1>2, <1>3, <1>4, <1>6, <1>7, <1>8, <1>9 DEF Next, Step

\* A draft stands as long as neither it nor the tables change.
LEMMA DraftFrame ==
    ASSUME LedgerTypeOK, NEW q \in Postings, Drafted(q),
           stage'[q] = stage[q], draft'[q] = draft[q], quote'[q] = quote[q],
           UNCHANGED <<account, book>>
    PROVE  Drafted(q)'
<1>1. EventsDrafted(q)'
  BY DEF Drafted, EventsDrafted
<1>2. \A e : Follows(q, e)' <=> Follows(q, e)
  BY DEF Follows, Booked
<1>3. After(q)' = After(q)
  BY DEF After, Computed
<1>4. EntryDrafted(q) => EntryDrafted(q)'
  BY <1>2, <1>3 DEF EntryDrafted
<1> QED
  BY <1>1, <1>4 DEF Drafted

\* The step of p leaves the drafts of the others standing.
LEMMA OthersDraft ==
    ASSUME LedgerTypeOK, DraftInv, NEW p \in Postings,
           NEW q \in Postings, q # p, stage'[q] \in Held,
           stage' = [stage EXCEPT ![p] = stage'[p]],
           draft' = [draft EXCEPT ![p] = draft'[p]],
           quote' = [quote EXCEPT ![p] = quote'[p]],
           UNCHANGED <<account, book>>
    PROVE  Drafted(q)'
BY DraftFrame DEF LedgerTypeOK, DraftInv

\* The draft after the entry is inserted.
LEMMA InsertDraft ==
    ASSUME LedgerAssumption, LInv, NEW p \in Postings, InsertEntry(p)
    PROVE  Drafted(p)'
<1> USE DEF LInv
<1>1. /\ stage[p] = "insert" /\ draft[p].account = account /\ draft[p].events = {}
  BY DEF InsertEntry, DraftInv, Drafted, EventsDrafted, Held
<1>2. draft[p] \in Drafts /\ account \in Accounts /\ quote[p] \in Nat
  BY DEF LedgerTypeOK
<1>3. /\ draft'[p] = [draft[p] EXCEPT !.entries = <<Entry(p)>>]
      /\ stage'[p] = IF KeyOf[p] \in Unsettled THEN "commit" ELSE "update"
      /\ UNCHANGED <<account, book, quote>>
  BY DEF InsertEntry, Goto, LedgerTypeOK, walletVars, tableVars
<1>4. /\ draft'[p].entries = <<Entry(p)>> /\ draft'[p].account = account'
      /\ draft'[p].events = {}
  BY <1>1, <1>2, <1>3 DEF Drafts
<1>5. EventsDrafted(p)'
  BY <1>3, <1>4 DEF EventsDrafted
<1>6. After(p)' = After(p) /\ After(p) \in Int /\ Entry(p) \in Entries
  BY <1>1, <1>3, <1>4, EntryType DEF After, Computed
<1>7. After(p) >= 0 /\ (KeyOf[p] \in Unsettled => After(p) = account.balance)
  <2>1. account.balance >= 0
    BY DEF TablesInv, MirrorCovered
  <2>2. KeyOf[p] \notin Unsettled /\ p \notin Quoting => Computed(p) >= 0
    BY EntryType DEF InsertEntry, Insufficient
  <2> QED
    BY <1>1, <1>2, <2>1, <2>2 DEF After
<1>8. PICK e \in Entries : e = Entry(p)
  BY <1>6
<1>9. EntryDrafted(p)'
  <2>1. /\ e.key = KeyOf[p] /\ e.posting = p
        /\ e.before = account.balance /\ e.after = After(p)
    BY <1>1, <1>8 DEF Entry
  <2>2. KeyOf[p] \notin Booked'
    BY <1>3 DEF InsertEntry, Booked
  <2>3. Follows(p, e)'
    BY <1>3, <1>7, <2>1, <2>2 DEF Follows
  <2>4. /\ (stage'[p] = "update" => e.after = After(p)' /\ e.key \notin Unsettled)
        /\ ~(stage'[p] \in {"publish", "commit"} /\ e.key \notin Unsettled)
        /\ stage'[p] # "publish"
    BY <1>3, <1>6, <2>1
  <2> QED
    BY <1>4, <1>8, <2>3, <2>4 DEF EntryDrafted
<1> QED
  BY <1>3, <1>4, <1>5, <1>9 DEF Drafted

\* The draft after the mirror is moved, for which the versions never differ.
LEMMA UpdateDraft ==
    ASSUME LedgerAssumption, LInv, NEW p \in Postings, UpdateAccount(p)
    PROVE  /\ account.version = draft[p].account.version
           /\ Drafted(p)'
<1> USE DEF LInv
<1>1. /\ stage[p] = "update" /\ draft[p].account = account /\ draft[p].events = {}
      /\ EntryDrafted(p)
  BY DEF UpdateAccount, DraftInv, Drafted, EventsDrafted, Held
<1>2. draft[p] \in Drafts /\ account \in Accounts /\ Mirror(p) \in Accounts
  BY MirrorType DEF LedgerTypeOK
<1>3. /\ draft'[p] = [draft[p] EXCEPT !.account = Mirror(p)]
      /\ stage'[p] = "publish"
      /\ UNCHANGED <<account, book, quote>>
  BY <1>1 DEF UpdateAccount, Goto, LedgerTypeOK, walletVars, tableVars
<1>4. /\ draft'[p].entries = draft[p].entries /\ draft'[p].account = Mirror(p)
      /\ draft'[p].events = {}
  BY <1>1, <1>2, <1>3 DEF Drafts
<1>5. EventsDrafted(p)'
  BY <1>3, <1>4 DEF EventsDrafted
<1>6. PICK e \in Entries : /\ draft[p].entries = <<e>> /\ Follows(p, e)
                           /\ e.after = After(p) /\ e.key \notin Unsettled
  BY <1>1 DEF EntryDrafted
<1>7. Follows(p, e)'
  BY <1>3, <1>6 DEF Follows, Booked
<1>8. Mirror(p).balance = e.after /\ Mirror(p).version = account'.version + 1
  BY <1>1, <1>3, <1>6 DEF Mirror
<1>9. EntryDrafted(p)'
  BY <1>3, <1>4, <1>6, <1>7, <1>8 DEF EntryDrafted
<1>10. KeyOf[p] \notin Unsettled
  BY <1>6 DEF Follows
<1> QED
  BY <1>1, <1>3, <1>5, <1>9, <1>10 DEF Drafted

\* The draft after the event is registered.
LEMMA PublishDraft ==
    ASSUME LedgerAssumption, LInv, NEW p \in Postings, Publish(p)
    PROVE  Drafted(p)'
<1> USE DEF LInv
<1>1. stage[p] = "publish" /\ EntryDrafted(p)
  BY DEF Publish, DraftInv, Drafted, Held
<1>2. draft[p] \in Drafts
  BY DEF LedgerTypeOK
<1>3. /\ draft'[p] = [draft[p] EXCEPT !.events = IF p \in Announcing THEN {KeyOf[p]} ELSE {}]
      /\ stage'[p] = "commit"
      /\ UNCHANGED <<account, book, quote>>
  BY DEF Publish, Goto, LedgerTypeOK, walletVars, tableVars
<1>4. /\ draft'[p].entries = draft[p].entries /\ draft'[p].account = draft[p].account
      /\ draft'[p].events = IF p \in Announcing THEN {KeyOf[p]} ELSE {}
  BY <1>2, <1>3 DEF Drafts
<1>5. PICK e \in Entries : /\ draft[p].entries = <<e>> /\ Follows(p, e)
                           /\ e.key \notin Unsettled
                           /\ draft[p].account.balance = e.after
                           /\ draft[p].account.version = account.version + 1
  BY <1>1 DEF EntryDrafted
<1>6. KeyOf[p] \notin Unsettled
  BY <1>5 DEF Follows
<1>7. EventsDrafted(p)'
  BY <1>3, <1>4, <1>6 DEF EventsDrafted
<1>8. Follows(p, e)'
  BY <1>3, <1>5 DEF Follows, Booked
<1>9. EntryDrafted(p)'
  BY <1>3, <1>4, <1>5, <1>8 DEF EntryDrafted
<1> QED
  BY <1>3, <1>6, <1>7, <1>9 DEF Drafted

\* A step other than a commit leaves the tables alone, and what belongs to the
\* other postings.
LEMMA StepFrame ==
    ASSUME LedgerTypeOK, NEW p \in Postings, Step(p), ~Commit(p)
    PROVE  /\ stage' = [stage EXCEPT ![p] = stage'[p]]
           /\ draft' = [draft EXCEPT ![p] = draft'[p]]
           /\ quote' = [quote EXCEPT ![p] = quote'[p]]
           /\ UNCHANGED tableVars
<1> USE DEF LedgerTypeOK, Goto, End, walletVars, tableVars
<1>1. CASE CallWallet(p)
  BY <1>1 DEF CallWallet
<1>2. CASE LoadType(p)
  BY <1>2 DEF LoadType
<1>3. CASE LockAccount(p)
  BY <1>3 DEF LockAccount
<1>4. CASE InsertEntry(p)
  BY <1>4 DEF InsertEntry
<1>5. CASE Duplicated(p) \/ Reject(p)
  BY <1>5 DEF Duplicated, Reject
<1>6. CASE UpdateAccount(p)
  BY <1>6 DEF UpdateAccount
<1>7. CASE Publish(p)
  BY <1>7 DEF Publish
<1>8. CASE Rollback(p)
  BY <1>8 DEF Rollback
<1> QED
  BY <1>1, <1>2, <1>3, <1>4, <1>5, <1>6, <1>7, <1>8 DEF Step

\* No step but a commit changes the tables, and none changes the draft of
\* another transaction.
LEMMA DraftStep ==
    ASSUME LedgerAssumption, LInv, [Next]_ledgerVars
    PROVE  DraftInv'
<1> USE DEF LInv
<1>1. CASE UNCHANGED ledgerVars
  BY <1>1, DraftFrame DEF ledgerVars, walletVars, tableVars, DraftInv
<1>2. ASSUME NEW p \in Postings, Commit(p) PROVE DraftInv'
  <2>1. \A q \in Postings : stage'[q] \notin Held
    BY <1>2, LedgerAssumption DEF Commit, End, LockInv, LedgerTypeOK, Held
  <2> QED
    BY <2>1 DEF DraftInv
<1>3. ASSUME NEW p \in Postings, Step(p), ~Commit(p)
      PROVE  /\ stage' = [stage EXCEPT ![p] = stage'[p]]
             /\ draft' = [draft EXCEPT ![p] = draft'[p]]
             /\ quote' = [quote EXCEPT ![p] = quote'[p]]
             /\ UNCHANGED <<account, book>>
  BY <1>3, StepFrame DEF tableVars
<1>4. ASSUME NEW p \in Postings, Step(p), ~Commit(p), stage'[p] \in Held
      PROVE  Drafted(p)'
  <2>1. CASE LockAccount(p)
    <3>1. /\ stage'[p] = "insert" /\ UNCHANGED account
          /\ draft'[p] = [Nothing EXCEPT !.account = account]
      BY <2>1 DEF LockAccount, Goto, LedgerTypeOK, tableVars
    <3>2. draft'[p].account = account' /\ draft'[p].events = {}
      BY <3>1 DEF Nothing
    <3> QED
      BY <3>1, <3>2 DEF Drafted, EventsDrafted
  <2>2. CASE InsertEntry(p)
    BY <2>2, InsertDraft
  <2>3. CASE UpdateAccount(p)
    BY <2>3, UpdateDraft
  <2>4. CASE Publish(p)
    BY <2>4, PublishDraft
  <2>5. stage'[p] \in {"begin", "lock", "done"}
        \/ LockAccount(p) \/ InsertEntry(p) \/ UpdateAccount(p) \/ Publish(p)
    BY <1>4 DEF Step, CallWallet, LoadType, Duplicated, Reject, Rollback, End, Goto, LedgerTypeOK
  <2> QED
    BY <1>4, <2>1, <2>2, <2>3, <2>4, <2>5 DEF Held
<1>5. ASSUME NEW p \in Postings, Step(p), ~Commit(p) PROVE DraftInv'
  <2> SUFFICES ASSUME NEW q \in Postings, stage'[q] \in Held PROVE Drafted(q)'
    BY DEF DraftInv
  <2>1. CASE q = p
    BY <1>4, <1>5, <2>1
  <2>2. CASE q # p
    BY <1>3, <1>5, <2>2, OthersDraft
  <2> QED
    BY <2>1, <2>2
<1> QED
  BY <1>1, <1>2, <1>5 DEF Next

-----------------------------------------------------------------------------
(* The commit and the tables *)

\* What a commit adds to the book.
LEMMA CommitAdds ==
    ASSUME LedgerAssumption, LInv, NEW p \in Postings, Commit(p)
    PROVE  \E e \in Entries :
             /\ Follows(p, e)
             /\ book' = Append(book, e)
             /\ account'.balance = e.after
             /\ account'.version = account.version + IF e.key \in Unsettled THEN 0 ELSE 1
             /\ events' = events \cup IF p \in Announcing /\ e.key \notin Unsettled
                                      THEN {e.key} ELSE {}
<1> USE DEF LInv
<1>1. /\ stage[p] = "commit" /\ EventsDrafted(p) /\ EntryDrafted(p)
      /\ KeyOf[p] \in Unsettled => draft[p].account = account
  BY DEF Commit, DraftInv, Drafted, Held
<1>2. PICK e \in Entries :
         /\ draft[p].entries = <<e>> /\ Follows(p, e)
         /\ e.key \notin Unsettled =>
                /\ draft[p].account.balance = e.after
                /\ draft[p].account.version = account.version + 1
  BY <1>1 DEF EntryDrafted
<1>3. e.key = KeyOf[p] /\ (e.key \in Unsettled => e.after = account.balance)
  BY <1>2 DEF Follows
<1>4. account' = draft[p].account /\ book' = book \o <<e>> /\ events' = events \cup draft[p].events
  BY <1>2 DEF Commit
<1>5. book' = Append(book, e)
  BY <1>4 DEF LedgerTypeOK
<1>6. account.version \in Nat
  BY DEF LedgerTypeOK, Accounts
<1>7. /\ account'.balance = e.after
      /\ account'.version = account.version + IF e.key \in Unsettled THEN 0 ELSE 1
  BY <1>1, <1>2, <1>3, <1>4, <1>6
<1>8. events' = events \cup IF p \in Announcing /\ e.key \notin Unsettled THEN {e.key} ELSE {}
  BY <1>1, <1>3, <1>4 DEF EventsDrafted
<1> QED
  BY <1>2, <1>5, <1>7, <1>8

\* The book with one more entry.
LEMMA BookGrows ==
    ASSUME LedgerTypeOK, NEW e \in Entries, book' = Append(book, e)
    PROVE  /\ Len(book) \in Nat /\ DOMAIN book = 1..Len(book)
           /\ DOMAIN book' = 1..(Len(book) + 1) /\ Len(book') = Len(book) + 1
           /\ \A i \in DOMAIN book : i \in DOMAIN book' /\ book'[i] = book[i]
           /\ book'[Len(book) + 1] = e
BY DEF LedgerTypeOK

LEMMA CommitTables ==
    ASSUME LedgerAssumption, LInv, NEW p \in Postings, Commit(p)
    PROVE  TablesInv'
<1> USE DEF LInv, TablesInv
<1> DEFINE n == Len(book)
<1>1. PICK e \in Entries :
         /\ Follows(p, e)
         /\ book' = Append(book, e)
         /\ account'.balance = e.after
         /\ account'.version = account.version + IF e.key \in Unsettled THEN 0 ELSE 1
         /\ events' = events \cup IF p \in Announcing /\ e.key \notin Unsettled
                                  THEN {e.key} ELSE {}
  BY CommitAdds
<1>2. /\ e.key \notin Booked /\ e.posting = p /\ e.before = account.balance
      /\ e.after >= 0
  BY <1>1 DEF Follows
<1>3. /\ n \in Nat /\ DOMAIN book = 1..n
      /\ DOMAIN book' = 1..(n + 1) /\ Len(book') = n + 1
      /\ \A i \in DOMAIN book : i \in DOMAIN book' /\ book'[i] = book[i]
      /\ book'[n + 1] = e
  BY <1>1, BookGrows
<1> HIDE DEF n
<1>4. ChainContinuous'
  <2>1. e.before = IF n = 0 THEN 0 ELSE book[n].after
    BY <1>2, <1>3 DEF ChainContinuous, n, LedgerTypeOK
  <2>2. ASSUME NEW i \in DOMAIN book'
        PROVE  book'[i].before = IF i = 1 THEN 0 ELSE book'[i - 1].after
    <3>1. CASE i = n + 1
      BY <1>3, <2>1, <3>1
    <3>2. CASE i \in 1..n
      BY <1>3, <3>2 DEF ChainContinuous
    <3> QED
      BY <1>3, <2>2, <3>1, <3>2
  <2>3. book' # <<>> /\ book'[Len(book')] = e
    BY <1>3
  <2> QED
    BY <1>1, <2>2, <2>3 DEF ChainContinuous
<1>5. BookedOnce'
  <2>1. ASSUME NEW i \in 1..n PROVE book'[i].key = book[i].key /\ book[i].key # e.key
    BY <1>2, <1>3, <2>1 DEF Booked
  <2> QED
    BY <1>3, <2>1 DEF BookedOnce
<1>6. EventsMatchBook'
  <2>1. Announced(e) <=> p \in Announcing /\ e.key \notin Unsettled
    BY <1>2 DEF Announced
  <2>2. events = {book[i].key : i \in {j \in 1..n : Announced(book[j])}}
    BY <1>3 DEF EventsMatchBook
  <2>3. events' = {book'[i].key : i \in {j \in 1..(n + 1) : Announced(book'[j])}}
    <3>1. ASSUME NEW i \in 1..(n + 1)
          PROVE  (i \in 1..n /\ book'[i] = book[i]) \/ (i = n + 1 /\ book'[i] = e)
      <4>1. n \in Nat
        BY <1>3
      <4>2. i \in 1..n \/ i = n + 1
        BY <4>1
      <4> QED
        BY <1>3, <4>2
    <3>2. 1..n \subseteq 1..(n + 1) /\ n + 1 \in 1..(n + 1) /\ n + 1 \notin 1..n
      BY <1>3
    <3>3. events' = events \cup IF Announced(e) THEN {e.key} ELSE {}
      BY <1>1, <2>1
    <3>4. ASSUME NEW k \in events' PROVE \E i \in 1..(n + 1) : Announced(book'[i]) /\ k = book'[i].key
      <4>1. CASE k \in events
        BY <1>3, <2>2, <3>2, <4>1
      <4>2. CASE Announced(e) /\ k = e.key
        BY <1>3, <3>2, <4>2
      <4> QED
        BY <3>3, <3>4, <4>1, <4>2
    <3>5. ASSUME NEW i \in 1..(n + 1), Announced(book'[i]) PROVE book'[i].key \in events'
      <4>1. CASE i \in 1..n /\ book'[i] = book[i]
        BY <2>2, <3>3, <3>5, <4>1
      <4>2. CASE i = n + 1 /\ book'[i] = e
        BY <3>3, <3>5, <4>2
      <4> QED
        BY <3>1, <3>5, <4>1, <4>2
    <3> QED
      BY <3>4, <3>5
  <2> QED
    BY <1>3, <2>3 DEF EventsMatchBook, Announced
<1>7. MirrorCovered'
  BY <1>1, <1>2 DEF MirrorCovered
<1>8. VersionUncontested'
  <2> DEFINE S == {i \in 1..n : book[i].key \notin Unsettled}
             T == {i \in 1..(n + 1) : book'[i].key \notin Unsettled}
  <2>1. IsFiniteSet(S)
    BY <1>3, FS_Interval, FS_Subset
  <2>2. T = IF e.key \in Unsettled THEN S ELSE S \cup {n + 1}
    BY <1>3
  <2>3. Cardinality(T) = Cardinality(S) + IF e.key \in Unsettled THEN 0 ELSE 1
    <3>1. n + 1 \notin S
      BY <1>3
    <3>2. Cardinality(S) \in Nat
      BY <2>1, FS_CardinalityType
    <3>3. Cardinality(S \cup {n + 1}) = Cardinality(S) + 1
      BY <2>1, <3>1, FS_AddElement
    <3> HIDE DEF S, T
    <3> QED
      BY <2>2, <3>2, <3>3
  <2>4. account.version = Cardinality(S)
    BY <1>3 DEF VersionUncontested
  <2>5. account'.version = Cardinality(T)
    <3> HIDE DEF S, T
    <3> QED
      BY <1>1, <2>3, <2>4
  <2>6. \A q \in Postings : outcome'[q] # "conflict"
    BY DEF Commit, End, VersionUncontested, LedgerTypeOK
  <2> QED
    BY <1>3, <2>5, <2>6 DEF VersionUncontested
<1> QED
  BY <1>4, <1>5, <1>6, <1>7, <1>8

\* The other steps leave the tables as they are and never meet a version
\* conflict.
LEMMA QuietTables ==
    ASSUME LedgerAssumption, LInv, [Next]_ledgerVars, ~\E p \in Postings : Commit(p)
    PROVE  UNCHANGED tableVars /\ TablesInv'
<1> USE DEF LInv
<1>1. UNCHANGED tableVars
  BY DEF Next, Step, CallWallet, LoadType, LockAccount, InsertEntry, Duplicated, Reject,
         UpdateAccount, Publish, Rollback, ledgerVars
<1>2. \A q \in Postings : outcome'[q] # "conflict"
  <2> USE DEF TablesInv, VersionUncontested, LedgerTypeOK
  <2>1. ASSUME NEW p \in Postings, NEW r \in Outcomes \ {"conflict"}, End(p, r)
        PROVE  \A q \in Postings : outcome'[q] # "conflict"
    BY <2>1 DEF End
  <2>2. ASSUME NEW p \in Postings, UpdateAccount(p) PROVE UNCHANGED outcome
    BY <2>2, UpdateDraft DEF UpdateAccount
  <2>3. ASSUME NEW p \in Postings, Duplicated(p) \/ Reject(p) \/ Rollback(p)
        PROVE  \A q \in Postings : outcome'[q] # "conflict"
    BY <2>1, <2>3 DEF Duplicated, Reject, Rollback, Outcomes
  <2>4. ASSUME NEW p \in Postings, CallWallet(p)
        PROVE  \A q \in Postings : outcome'[q] # "conflict"
    BY <2>4 DEF CallWallet
  <2>5. ASSUME NEW p \in Postings, LoadType(p) \/ LockAccount(p) \/ InsertEntry(p) \/ Publish(p)
        PROVE  UNCHANGED outcome
    BY <2>5 DEF LoadType, LockAccount, InsertEntry, Publish
  <2>6. CASE UNCHANGED ledgerVars
    BY <2>6 DEF ledgerVars
  <2> QED
    BY <2>2, <2>3, <2>4, <2>5, <2>6 DEF Next, Step
<1> QED
  BY <1>1, <1>2 DEF TablesInv, ChainContinuous, BookedOnce, EventsMatchBook, Announced,
     MirrorCovered, VersionUncontested, tableVars

-----------------------------------------------------------------------------
(* What callers are told *)

LEMMA OverStep ==
    ASSUME LedgerAssumption, LInv, [Next]_ledgerVars
    PROVE  OverInv'
<1> USE DEF LInv, LedgerTypeOK, OverInv, Goto
<1>1. ASSUME NEW p \in Postings, stage[p] # "done", NEW s,
             stage' = [stage EXCEPT ![p] = s], UNCHANGED <<outcome, book>>
      PROVE  OverInv'
  <2>1. \A i \in DOMAIN book' : stage'[book'[i].posting] = "done"
    BY <1>1, BookEntry
  <2> QED
    BY <1>1, <2>1
<1>2. ASSUME NEW p \in Postings, NEW r, stage' = [stage EXCEPT ![p] = "done"],
             outcome' = [outcome EXCEPT ![p] = r], UNCHANGED book
      PROVE  OverInv'
  <2>1. \A i \in DOMAIN book' : stage'[book'[i].posting] = "done"
    BY <1>2, BookEntry
  <2> QED
    BY <1>2, <2>1
<1>3. ASSUME NEW p \in Postings, CallWallet(p) PROVE OverInv'
  <2>1. /\ stage[p] = "wallet" /\ UNCHANGED book
        /\ \/ stage' = [stage EXCEPT ![p] = "begin"] /\ UNCHANGED outcome
           \/ stage' = [stage EXCEPT ![p] = "done"] /\ outcome' = [outcome EXCEPT ![p] = "failed"]
    BY <1>3 DEF CallWallet, tableVars
  <2> QED
    BY <1>1, <1>2, <2>1
<1>4. ASSUME NEW p \in Postings, LoadType(p) \/ LockAccount(p) \/ InsertEntry(p) \/ Publish(p)
      PROVE  OverInv'
  <2>1. /\ stage[p] # "done" /\ UNCHANGED <<outcome, book>>
        /\ \E s : stage' = [stage EXCEPT ![p] = s]
    BY <1>4 DEF LoadType, LockAccount, InsertEntry, Publish, tableVars
  <2> QED
    BY <1>1, <2>1
<1>5. ASSUME NEW p \in Postings, UpdateAccount(p) PROVE OverInv'
  <2>1. /\ stage[p] = "update" /\ UNCHANGED <<outcome, book>>
        /\ stage' = [stage EXCEPT ![p] = "publish"]
    BY <1>5, UpdateDraft DEF UpdateAccount, tableVars
  <2> QED
    BY <1>1, <2>1
<1>6. ASSUME NEW p \in Postings, Duplicated(p) \/ Reject(p) \/ Rollback(p) PROVE OverInv'
  BY <1>2, <1>6 DEF Duplicated, Reject, Rollback, End, tableVars
<1>7. ASSUME NEW p \in Postings, Commit(p) PROVE OverInv'
  <2>1. PICK e \in Entries : Follows(p, e) /\ book' = Append(book, e)
    BY <1>7, CommitAdds
  <2>2. \A i \in DOMAIN book' :
          (i \in DOMAIN book /\ book'[i] = book[i]) \/ book'[i] = e
    BY <2>1, BookGrows
  <2>3. stage' = [stage EXCEPT ![p] = "done"] /\ e.posting = p
        /\ \A q \in Postings \ {p} : outcome'[q] = outcome[q]
    BY <1>7, <2>1 DEF Commit, End, Follows
  <2>4. \A i \in DOMAIN book' : stage'[book'[i].posting] = "done"
    BY <2>2, <2>3, BookEntry
  <2> QED
    BY <2>3, <2>4
<1>8. CASE UNCHANGED ledgerVars
  BY <1>8 DEF ledgerVars, tableVars
<1> QED
  BY <1>3, <1>4, <1>5, <1>6, <1>7, <1>8 DEF Next, Step

LEMMA AnswerStep ==
    ASSUME LedgerAssumption, LInv, [Next]_ledgerVars
    PROVE  AnswerIsBooked'
<1> USE DEF LInv, LedgerTypeOK, Goto
<1>1. ASSUME NEW p \in Postings, NEW r \in Outcomes \ {"posted", "duplicated"},
             UNCHANGED outcome \/ outcome' = [outcome EXCEPT ![p] = r],
             UNCHANGED book
      PROVE  AnswerIsBooked'
  BY <1>1 DEF AnswerIsBooked
<1>2. ASSUME NEW p \in Postings, NEW r \in Outcomes \ {"posted", "duplicated"},
             End(p, r), UNCHANGED book
      PROVE  AnswerIsBooked'
  BY <1>1, <1>2 DEF End
<1>3. ASSUME NEW p \in Postings, CallWallet(p) PROVE AnswerIsBooked'
  <2>1. UNCHANGED book
        /\ (UNCHANGED outcome \/ outcome' = [outcome EXCEPT ![p] = "failed"])
    BY <1>3 DEF CallWallet, tableVars
  <2> QED
    BY <1>1, <2>1 DEF Outcomes
<1>4. ASSUME NEW p \in Postings, LoadType(p) \/ LockAccount(p) \/ InsertEntry(p) \/ Publish(p)
      PROVE  AnswerIsBooked'
  <2>1. UNCHANGED <<outcome, book>>
    BY <1>4 DEF LoadType, LockAccount, InsertEntry, Publish, tableVars
  <2> QED
    BY <2>1 DEF AnswerIsBooked
<1>5. ASSUME NEW p \in Postings, UpdateAccount(p) PROVE AnswerIsBooked'
  BY <1>5, UpdateDraft DEF UpdateAccount, tableVars, AnswerIsBooked
<1>6. ASSUME NEW p \in Postings, Reject(p) \/ Rollback(p) PROVE AnswerIsBooked'
  BY <1>2, <1>6 DEF Reject, Rollback, tableVars, Outcomes
<1>7. ASSUME NEW p \in Postings, Duplicated(p) PROVE AnswerIsBooked'
  <2>1. PICK i \in DOMAIN book : book[i].key = KeyOf[p]
    BY <1>7 DEF Duplicated, Booked
  <2>2. book[i].posting # p
    BY <1>7 DEF Duplicated, OverInv
  <2>3. UNCHANGED book /\ \E r \in {"duplicated", "notfound"} : outcome' = [outcome EXCEPT ![p] = r]
    BY <1>7 DEF Duplicated, End, tableVars
  <2> QED
    BY <2>1, <2>2, <2>3 DEF AnswerIsBooked
<1>8. ASSUME NEW p \in Postings, Commit(p) PROVE AnswerIsBooked'
  <2>1. PICK e \in Entries : Follows(p, e) /\ book' = Append(book, e)
    BY <1>8, CommitAdds
  <2>2. /\ \A i \in DOMAIN book : i \in DOMAIN book' /\ book'[i] = book[i]
        /\ Len(book) + 1 \in DOMAIN book' /\ book'[Len(book) + 1] = e
    BY <2>1, BookGrows
  <2>3. e.key = KeyOf[p] /\ e.posting = p
    BY <2>1 DEF Follows
  <2>4. \E r \in {"posted", "failed"} : outcome' = [outcome EXCEPT ![p] = r]
    BY <1>8 DEF Commit, End
  <2> SUFFICES ASSUME NEW q \in Postings, outcome'[q] \in {"posted", "duplicated"}
               PROVE  \E i \in DOMAIN book' :
                          /\ book'[i].key = KeyOf[q]
                          /\ (outcome'[q] = "posted") <=> (book'[i].posting = q)
    BY DEF AnswerIsBooked
  <2>5. CASE q = p
    BY <2>2, <2>3, <2>4, <2>5
  <2>6. CASE q # p
    <3>1. outcome'[q] = outcome[q]
      BY <2>4, <2>6
    <3>2. PICK i \in DOMAIN book : /\ book[i].key = KeyOf[q]
                                   /\ (outcome[q] = "posted") <=> (book[i].posting = q)
      BY <3>1 DEF AnswerIsBooked
    <3> QED
      BY <2>2, <3>1, <3>2
  <2> QED
    BY <2>5, <2>6
<1>9. CASE UNCHANGED ledgerVars
  BY <1>9 DEF ledgerVars, tableVars, AnswerIsBooked
<1> QED
  BY <1>3, <1>4, <1>5, <1>6, <1>7, <1>8, <1>9 DEF Next, Step

-----------------------------------------------------------------------------
(* The theorems *)

LEMMA LInit == ASSUME LedgerAssumption, Init PROVE LInv
<1> USE DEF Init, LedgerAssumption
<1>1. LedgerTypeOK
  BY NothingType DEF LedgerTypeOK, Nothing, Accounts, Stages, Outcomes
<1>2. LockInv /\ DraftInv /\ OverInv /\ AnswerIsBooked
  BY DEF LockInv, DraftInv, OverInv, AnswerIsBooked, Held
<1>3. ChainContinuous /\ BookedOnce /\ EventsMatchBook /\ MirrorCovered
  BY DEF ChainContinuous, BookedOnce, EventsMatchBook, MirrorCovered, Nothing
<1>4. VersionUncontested
  <2>1. {i \in DOMAIN book : book[i].key \notin Unsettled} = {}
    OBVIOUS
  <2> QED
    BY <2>1, FS_EmptySet DEF VersionUncontested, Nothing
<1> QED
  BY <1>1, <1>2, <1>3, <1>4 DEF LInv, TablesInv

LEMMA LNext == ASSUME LedgerAssumption, LInv, [Next]_ledgerVars PROVE LInv'
<1>1. LedgerTypeOK'
  BY TypeStep DEF LInv
<1>2. LockInv'
  BY LockStep DEF LInv
<1>3. DraftInv' /\ OverInv' /\ AnswerIsBooked'
  BY DraftStep, OverStep, AnswerStep
<1>4. TablesInv'
  BY CommitTables, QuietTables
<1> QED
  BY <1>1, <1>2, <1>3, <1>4 DEF LInv

\* The inductive invariant of the poster, for any number of postings and keys.
THEOREM LedgerInductive == Spec => []LInv
BY LedgerAssumption, LInit, LNext, PTL DEF Spec

\* Postings and what they write have their types.
THEOREM LedgerTypes == Spec => []LedgerTypeOK
<1>1. LInv => LedgerTypeOK
  BY DEF LInv
<1> QED
  BY <1>1, LedgerAssumption, LedgerInductive, PTL

\* The balances before and after are continuous, whatever runs beside each
\* other and whatever fails.
THEOREM LedgerChains == Spec => []ChainContinuous
<1>1. LInv => ChainContinuous
  BY DEF LInv, TablesInv
<1> QED
  BY <1>1, LedgerAssumption, LedgerInductive, PTL

\* A key is booked once.
THEOREM LedgerBooksOnce == Spec => []BookedOnce
<1>1. LInv => BookedOnce
  BY DEF LInv, TablesInv
<1> QED
  BY <1>1, LedgerAssumption, LedgerInductive, PTL

\* The events are those of the entries, which a rollback takes with it.
THEOREM LedgerEvents == Spec => []EventsMatchBook
<1>1. LInv => EventsMatchBook
  BY DEF LInv, TablesInv
<1> QED
  BY <1>1, LedgerAssumption, LedgerInductive, PTL

\* A caller that was told of an entry finds it.
THEOREM LedgerAnswers == Spec => []AnswerIsBooked
<1>1. LInv => AnswerIsBooked
  BY DEF LInv
<1> QED
  BY <1>1, LedgerAssumption, LedgerInductive, PTL

\* The optimistic version never conflicts under the row lock, and counts the
\* SUCCESS entries.
THEOREM LedgerVersions == Spec => []VersionUncontested
<1>1. LInv => VersionUncontested
  BY DEF LInv, TablesInv
<1> QED
  BY <1>1, LedgerAssumption, LedgerInductive, PTL

\* The mirror never goes below zero.
THEOREM LedgerMirror == Spec => []MirrorCovered
<1>1. LInv => MirrorCovered
  BY DEF LInv, TablesInv
<1> QED
  BY <1>1, LedgerAssumption, LedgerInductive, PTL

\* Book and mirror tell one story, for any number of keys and postings.
THEOREM LedgerHangsTogether == Spec => []BookHangsTogether
<1>1. ChainContinuous /\ VersionUncontested /\ MirrorCovered => BookHangsTogether
  BY DEF BookHangsTogether
<1> QED
  BY <1>1, LedgerChains, LedgerVersions, LedgerMirror, PTL

\* The book says what callers and consumers were told.
THEOREM LedgerAsAnnounced == Spec => []BookedAsAnnounced
<1>1. BookedOnce /\ EventsMatchBook /\ AnswerIsBooked => BookedAsAnnounced
  BY DEF BookedAsAnnounced
<1> QED
  BY <1>1, LedgerBooksOnce, LedgerEvents, LedgerAnswers, PTL

-----------------------------------------------------------------------------
(* The drift *)

\* The wallet after its n-th movement: what it answered to the posting that
\* moved the money.
WalletAfter(n) == IF n = 0 THEN 0 ELSE quote[mover[moves[n]]]

\* A posting past its wallet call has its money moved and keeps its quote, and
\* each movement starts from the balance the one before it left.
WalletInv ==
    /\ \A p \in Postings : stage[p] # "wallet" => KeyOf[p] \in Unsettled \cup Moved
    /\ \A n \in DOMAIN moves :
          /\ mover[moves[n]] \in Postings /\ stage[mover[moves[n]]] # "wallet"
          /\ quote[mover[moves[n]]] = WalletAfter(n - 1) + Signed(moves[n])
    /\ wallet = WalletAfter(Len(moves))

\* The drift of an entry is what its posting was told less what it computed.
DriftKnown(p, e) ==
    /\ e.key \in Unsettled => e.drift = 0
    /\ (e.key \notin Unsettled /\ p \in Quoting) =>
           e.drift = quote[p] - (e.before + Signed(e.key))
    /\ (e.key \notin Unsettled /\ p \notin Quoting) =>
           e.after = e.before + Signed(e.key) /\ e.drift = 0
    /\ (e.key \notin Unsettled /\ p \in Quoting) => e.after = quote[p]

DriftDrafted(p) ==
    LET e == draft[p].entries[1]
    IN  /\ DriftKnown(p, e)
        /\ stage[p] # "update" /\ KeyOf[p] \notin Unsettled =>
               draft[p].account.drifts = account.drifts + IF e.drift = 0 THEN 0 ELSE 1

DriftInv == \A p \in Postings : stage[p] \in Held \ {"insert"} => DriftDrafted(p)

\* Entries are of the keys of their postings.
OwnKeys == \A i \in DOMAIN book : KeyOf[book[i].posting] = book[i].key

\* As long as the book follows the wallet, the mirror is the wallet as it was
\* after the movement booked last.
Followed ==
    InOrder =>
        /\ account.drifts = 0 /\ \A i \in DOMAIN book : book[i].drift = 0
        /\ Settled(Len(book)) <= Len(moves)
        /\ account.balance = WalletAfter(Settled(Len(book)))

OrderInv == WalletInv /\ DriftInv /\ OwnKeys /\ Followed

LEMMA SettledType ==
    ASSUME NEW i \in Nat
    PROVE  /\ IsFiniteSet({j \in 1..i : book[j].key \notin Unsettled})
           /\ Settled(i) \in Nat
<1>0. IsFiniteSet(1..i)
  BY FS_Interval
<1>1. IsFiniteSet({j \in 1..i : book[j].key \notin Unsettled})
  BY <1>0, FS_Subset
<1> QED
  BY <1>1, FS_CardinalityType DEF Settled

\* A SUCCESS entry counts itself.
LEMMA SettledCounts ==
    ASSUME LedgerTypeOK, NEW i \in DOMAIN book, book[i].key \notin Unsettled
    PROVE  Settled(i) \in Nat /\ Settled(i) >= 1
<1>1. i \in Nat /\ i \in {j \in 1..i : book[j].key \notin Unsettled}
  BY DEF LedgerTypeOK
<1>2. Settled(i) # 0
  BY <1>1, SettledType, FS_EmptySet DEF Settled
<1>3. Settled(i) \in Nat
  BY <1>1, SettledType
<1> QED
  BY <1>2, <1>3

\* The count over the book with one more entry.
LEMMA SettledGrows ==
    ASSUME LedgerTypeOK, NEW e \in Entries, book' = Append(book, e)
    PROVE  /\ \A i \in DOMAIN book \cup {Len(book)} : Settled(i)' = Settled(i)
           /\ Settled(Len(book))' =
                  Settled(Len(book)) + IF e.key \in Unsettled THEN 0 ELSE 1
<1> DEFINE n == Len(book)
<1>1. /\ n \in Nat /\ DOMAIN book = 1..n
      /\ Len(book') = n + 1
      /\ \A i \in 1..n : book'[i] = book[i]
      /\ book'[n + 1] = e
  BY BookGrows
<1> HIDE DEF n
<1>2. ASSUME NEW i \in DOMAIN book \cup {n} PROVE Settled(i)' = Settled(i)
  <2>1. i \in 0..n
    BY <1>1
  <2>2. {j \in 1..i : book'[j].key \notin Unsettled} = {j \in 1..i : book[j].key \notin Unsettled}
    BY <1>1, <2>1
  <2> QED
    BY <2>2 DEF Settled
<1>3. Cardinality({j \in 1..(n + 1) : book'[j].key \notin Unsettled}) =
          Settled(n) + IF e.key \in Unsettled THEN 0 ELSE 1
  <2> DEFINE S == {j \in 1..n : book[j].key \notin Unsettled}
             T == {j \in 1..(n + 1) : book'[j].key \notin Unsettled}
  <2>1. T = IF e.key \in Unsettled THEN S ELSE S \cup {n + 1}
    BY <1>1
  <2>2. n + 1 \notin S /\ IsFiniteSet(S) /\ Cardinality(S) \in Nat
    BY <1>1, SettledType DEF Settled
  <2>3. Cardinality(S \cup {n + 1}) = Cardinality(S) + 1
    BY <2>2, FS_AddElement
  <2>4. Settled(n) = Cardinality(S)
    BY DEF Settled
  <2> HIDE DEF S, T
  <2>5. Cardinality(T) = Settled(n) + IF e.key \in Unsettled THEN 0 ELSE 1
    BY <2>1, <2>2, <2>3, <2>4
  <2> QED
    BY <2>5 DEF T
<1>4. Settled(Len(book))' = Cardinality({j \in 1..(n + 1) : book'[j].key \notin Unsettled})
  BY <1>1 DEF Settled
<1> QED
  BY <1>2, <1>3, <1>4 DEF n

\* A wallet call changes nothing of what happened before it.
LEMMA WalletGrows ==
    ASSUME LedgerAssumption, LedgerTypeOK, WalletInv, NEW p \in Postings, CallWallet(p)
    PROVE  /\ \A n \in DOMAIN moves :
                 n \in DOMAIN moves' /\ moves'[n] = moves[n] /\ mover'[moves[n]] = mover[moves[n]]
           /\ \A n \in 0..Len(moves) : WalletAfter(n)' = WalletAfter(n)
           /\ \/ /\ moves' = Append(moves, KeyOf[p]) /\ KeyOf[p] \notin Unsettled \cup Moved
                 /\ mover' = [mover EXCEPT ![KeyOf[p]] = p]
                 /\ wallet' = wallet + Signed(KeyOf[p])
              \/ KeyOf[p] \in Unsettled \cup Moved /\ UNCHANGED <<wallet, moves, mover>>
           /\ quote' = [quote EXCEPT ![p] = wallet']
           /\ \E s \in Stages \ {"wallet"} : stage' = [stage EXCEPT ![p] = s]
<1> USE DEF LedgerTypeOK
<1>1. /\ \/ /\ moves' = Append(moves, KeyOf[p]) /\ KeyOf[p] \notin Unsettled \cup Moved
            /\ mover' = [mover EXCEPT ![KeyOf[p]] = p]
            /\ wallet' = wallet + Signed(KeyOf[p])
         \/ KeyOf[p] \in Unsettled \cup Moved /\ UNCHANGED <<wallet, moves, mover>>
      /\ quote' = [quote EXCEPT ![p] = wallet']
      /\ stage[p] = "wallet"
  BY DEF CallWallet
<1>2. \E s \in Stages \ {"wallet"} : stage' = [stage EXCEPT ![p] = s]
  <2>1. {"begin", "done"} \subseteq Stages \ {"wallet"}
    BY DEF Stages
  <2> QED
    BY <2>1 DEF CallWallet, Goto
<1>3. Len(moves) \in Nat /\ DOMAIN moves = 1..Len(moves)
  OBVIOUS
<1>4. KeyOf[p] \in Keys
  BY LedgerAssumption DEF LedgerAssumption
<1>5. ASSUME NEW n \in DOMAIN moves
      PROVE  n \in DOMAIN moves' /\ moves'[n] = moves[n] /\ mover'[moves[n]] = mover[moves[n]]
  <2>1. moves[n] \in Moved /\ moves[n] \in Keys
    BY DEF Moved
  <2> QED
    BY <1>1, <1>3, <1>4, <2>1
<1>6. ASSUME NEW n \in 0..Len(moves) PROVE WalletAfter(n)' = WalletAfter(n)
  <2>1. CASE n = 0
    BY <2>1 DEF WalletAfter
  <2>2. CASE n # 0
    <3>1. n \in DOMAIN moves
      BY <1>3, <2>2
    <3>2. mover[moves[n]] \in Postings /\ mover[moves[n]] # p
      BY <1>1, <3>1 DEF WalletInv
    <3>3. quote'[mover[moves[n]]] = quote[mover[moves[n]]]
      BY <1>1, <3>2
    <3> QED
      BY <1>5, <2>2, <3>1, <3>3 DEF WalletAfter
  <2> QED
    BY <2>1, <2>2
<1> QED
  BY <1>1, <1>2, <1>5, <1>6

\* No other step moves money.
LEMMA WalletRests ==
    ASSUME LedgerTypeOK, [Next]_ledgerVars, ~\E p \in Postings : CallWallet(p)
    PROVE  /\ UNCHANGED walletVars
           /\ \A p \in Postings : stage[p] = "wallet" <=> stage'[p] = "wallet"
<1> USE DEF LedgerTypeOK, Goto, End
<1>1. CASE UNCHANGED ledgerVars
  BY <1>1 DEF ledgerVars
<1>2. ASSUME NEW p \in Postings, Step(p)
      PROVE  UNCHANGED walletVars /\ stage[p] # "wallet"
             /\ \E s \in {"lock", "insert", "update", "publish", "commit", "done"} :
                    stage' = [stage EXCEPT ![p] = s]
  <2>1. CASE LoadType(p) \/ LockAccount(p) \/ InsertEntry(p)
    BY <2>1 DEF LoadType, LockAccount, InsertEntry
  <2>2. CASE Duplicated(p) \/ Reject(p) \/ Publish(p) \/ Rollback(p)
    BY <2>2 DEF Duplicated, Reject, Publish, Rollback
  <2>3. CASE UpdateAccount(p) \/ Commit(p)
    BY <2>3 DEF UpdateAccount, Commit
  <2> QED
    BY <1>2, <2>1, <2>2, <2>3 DEF Step
<1>3. ASSUME NEW p \in Postings, Step(p)
      PROVE  \A q \in Postings : stage[q] = "wallet" <=> stage'[q] = "wallet"
  BY <1>2, <1>3
<1> QED
  BY <1>1, <1>2, <1>3 DEF Next, ledgerVars

LEMMA WalletStep ==
    ASSUME LedgerAssumption, LedgerTypeOK, WalletInv, [Next]_ledgerVars
    PROVE  WalletInv'
<1> USE DEF LedgerTypeOK
<1>1. ASSUME NEW p \in Postings, CallWallet(p) PROVE WalletInv'
  <2> DEFINE k == KeyOf[p]
  <2>0. PICK n \in Nat : n = Len(moves)
    OBVIOUS
  <2>1. k \in Keys /\ n \in Nat /\ DOMAIN moves = 1..n
    BY <2>0, LedgerAssumption DEF LedgerAssumption
  <2>2. PICK s \in Stages \ {"wallet"} : stage' = [stage EXCEPT ![p] = s]
    BY <1>1, WalletGrows
  <2>3. /\ \A m \in 1..n :
             m \in DOMAIN moves' /\ moves'[m] = moves[m] /\ mover'[moves[m]] = mover[moves[m]]
        /\ \A m \in 0..n : WalletAfter(m)' = WalletAfter(m)
        /\ quote' = [quote EXCEPT ![p] = wallet']
    <3>1. /\ \A m \in DOMAIN moves :
               m \in DOMAIN moves' /\ moves'[m] = moves[m] /\ mover'[moves[m]] = mover[moves[m]]
          /\ quote' = [quote EXCEPT ![p] = wallet']
      BY <1>1, WalletGrows
    <3>2. \A m \in 0..n : WalletAfter(m)' = WalletAfter(m)
      BY <1>1, <2>0, WalletGrows
    <3> QED
      BY <2>1, <3>1, <3>2
  <2>4. \/ /\ moves' = Append(moves, k) /\ k \notin Unsettled \cup Moved
           /\ mover' = [mover EXCEPT ![k] = p]
           /\ wallet' = wallet + Signed(k)
        \/ k \in Unsettled \cup Moved /\ UNCHANGED <<wallet, moves, mover>>
    BY <1>1, WalletGrows
  <2>5. Moved' = Moved \cup IF k \in Unsettled \cup Moved THEN {} ELSE {k}
    <3>1. CASE moves' = Append(moves, k) /\ k \notin Unsettled \cup Moved
      <4>1. DOMAIN moves' = 1..(n + 1) /\ moves'[n + 1] = k
        BY <2>0, <3>1
      <4>2. \A m \in 1..(n + 1) : m \in 1..n \/ m = n + 1
        BY <2>1
      <4>3. n + 1 \in 1..(n + 1) /\ 1..n \subseteq 1..(n + 1)
        BY <2>1
      <4> HIDE DEF k
      <4> QED
        BY <2>1, <2>3, <3>1, <4>1, <4>2, <4>3 DEF Moved
    <3>2. CASE k \in Unsettled \cup Moved /\ UNCHANGED moves
      BY <3>2 DEF Moved
    <3> QED
      BY <2>4, <3>1, <3>2
  <2>6. \A q \in Postings : stage'[q] # "wallet" => KeyOf[q] \in Unsettled \cup Moved'
    BY <2>2, <2>5 DEF WalletInv
  <2>7. ASSUME NEW m \in 1..n
        PROVE  /\ mover'[moves'[m]] \in Postings /\ stage'[mover'[moves'[m]]] # "wallet"
               /\ quote'[mover'[moves'[m]]] = WalletAfter(m - 1)' + Signed(moves'[m])
    <3>1. /\ mover[moves[m]] \in Postings /\ stage[mover[moves[m]]] # "wallet"
          /\ quote[mover[moves[m]]] = WalletAfter(m - 1) + Signed(moves[m])
      BY <2>1 DEF WalletInv
    <3>2. mover'[moves'[m]] = mover[moves[m]] /\ moves'[m] = moves[m]
      BY <2>3
    <3>3. stage'[mover[moves[m]]] # "wallet"
      BY <2>2, <3>1
    <3>4. quote'[mover[moves[m]]] = quote[mover[moves[m]]]
      <4>1. stage[p] = "wallet"
        BY <1>1 DEF CallWallet
      <4> QED
        BY <2>3, <3>1, <4>1
    <3>5. WalletAfter(m - 1)' = WalletAfter(m - 1)
      <4>1. m - 1 \in 0..n
        BY <2>1
      <4> QED
        BY <2>3, <4>1
    <3> QED
      BY <3>1, <3>2, <3>3, <3>4, <3>5
  <2>8. CASE moves' = Append(moves, k) /\ k \notin Unsettled \cup Moved
    <3>0. mover' = [mover EXCEPT ![k] = p] /\ wallet' = wallet + Signed(k)
      <4>1. ~(k \in Unsettled \cup Moved)
        BY <2>8
      <4> HIDE DEF k
      <4> QED
        BY <2>4, <4>1
    <3>1. /\ DOMAIN moves' = 1..(n + 1) /\ Len(moves') = n + 1
          /\ moves'[n + 1] = k /\ mover'[k] = p
          /\ wallet' = wallet + Signed(k)
      BY <2>0, <2>1, <2>8, <3>0
    <3>2. quote'[p] = wallet' /\ stage'[p] # "wallet"
      BY <2>2, <2>3
    <3>3. WalletAfter(n)' = wallet
      <4>1. n \in 0..n
        BY <2>1
      <4>2. WalletAfter(n)' = WalletAfter(n)
        BY <2>3, <4>1
      <4> QED
        BY <2>0, <4>2 DEF WalletInv
    <3>4. wallet' = WalletAfter(Len(moves))'
      <4>1. Len(moves') # 0 /\ moves'[Len(moves')] = k
        BY <2>1, <3>1
      <4> QED
        BY <3>1, <3>2, <4>1 DEF WalletAfter
    <3>5. \A m \in 1..(n + 1) : m \in 1..n \/ m = n + 1
      BY <2>1
    <3>6. (n + 1) - 1 = n
      BY <2>1
    <3> HIDE DEF k
    <3> QED
      BY <2>6, <2>7, <3>1, <3>2, <3>3, <3>4, <3>5, <3>6 DEF WalletInv
  <2>9. CASE UNCHANGED <<wallet, moves, mover>>
    <3>0. n \in 0..n
      BY <2>1
    <3>1. WalletAfter(n)' = WalletAfter(n)
      BY <2>3, <3>0
    <3> QED
      BY <2>0, <2>1, <2>6, <2>7, <2>9, <3>1 DEF WalletInv
  <2> QED
    BY <2>4, <2>8, <2>9
<1>2. CASE ~\E p \in Postings : CallWallet(p)
  <2>1. /\ UNCHANGED walletVars
        /\ \A p \in Postings : stage[p] = "wallet" <=> stage'[p] = "wallet"
    BY <1>2, WalletRests
  <2> QED
    BY <2>1 DEF WalletInv, WalletAfter, Moved, walletVars
<1> QED
  BY <1>1, <1>2


\* What a transaction has drafted when its step is over.
LEMMA OwnDrift ==
    ASSUME LedgerAssumption, LInv, DriftInv, NEW p \in Postings,
           InsertEntry(p) \/ UpdateAccount(p) \/ Publish(p)
    PROVE  DriftDrafted(p)'
<1> USE DEF LInv
<1>1. draft[p] \in Drafts /\ account \in Accounts /\ quote[p] \in Nat
  BY DEF LedgerTypeOK
<1>2. Signed(KeyOf[p]) \in Int /\ Computed(p) \in Int /\ Entry(p) \in Entries
  BY EntryType
<1>3. CASE InsertEntry(p)
  <2>1. /\ draft' = [draft EXCEPT ![p].entries = <<Entry(p)>>]
        /\ stage' = [stage EXCEPT ![p] = IF KeyOf[p] \in Unsettled THEN "commit" ELSE "update"]
        /\ UNCHANGED quote
    BY <1>3 DEF InsertEntry, Goto, walletVars
  <2>2. draft'[p].entries = <<Entry(p)>>
    BY <1>1, <2>1 DEF LedgerTypeOK, Drafts
  <2>3. PICK e \in Entries : e = Entry(p)
    BY <1>2
  <2>4. draft'[p].entries[1] = e
    BY <2>2, <2>3
  <2>5. /\ e.key = KeyOf[p] /\ e.before = draft[p].account.balance
        /\ e.after = After(p) /\ e.drift = Drift(p)
    BY <2>3 DEF Entry
  <2>6. DriftKnown(p, e)'
    BY <1>1, <1>2, <2>1, <2>5 DEF DriftKnown, After, Drift, Computed
  <2>7. stage'[p] = "update" \/ KeyOf[p] \in Unsettled
    BY <2>1 DEF LedgerTypeOK
  <2> QED
    BY <2>4, <2>6, <2>7 DEF DriftDrafted
<1>4. CASE UpdateAccount(p)
  <2>1. /\ stage[p] = "update" /\ draft[p].account = account
        /\ EntryDrafted(p) /\ DriftDrafted(p)
    BY <1>4 DEF UpdateAccount, DraftInv, Drafted, DriftInv, Held
  <2>2. PICK e \in Entries : draft[p].entries = <<e>> /\ Follows(p, e) /\ e.key \notin Unsettled
    BY <2>1 DEF EntryDrafted
  <2>3. draft[p].entries[1] = e
    BY <2>2
  <2>4. DriftKnown(p, e)
    BY <2>1, <2>3 DEF DriftDrafted
  <2>5. /\ draft' = [draft EXCEPT ![p].account = Mirror(p)]
        /\ UNCHANGED <<account, quote>>
    BY <1>4, UpdateDraft DEF UpdateAccount, walletVars, tableVars
  <2>6. draft'[p].entries[1] = e /\ draft'[p].account = Mirror(p)
    BY <1>1, <2>3, <2>5 DEF LedgerTypeOK, Drafts
  <2>7. /\ e.key = KeyOf[p] /\ e.before = draft[p].account.balance
        /\ e.before \in Int /\ e.drift \in Int
    BY <2>1, <2>2 DEF Follows, Entries
  <2>8. Drift(p) = e.drift
    BY <1>1, <1>2, <2>2, <2>4, <2>7 DEF Drift, After, Computed, DriftKnown
  <2>9. Mirror(p).drifts = account.drifts + IF e.drift = 0 THEN 0 ELSE 1
    BY <2>1, <2>8 DEF Mirror
  <2>10. DriftKnown(p, e)'
    BY <2>4, <2>5 DEF DriftKnown
  <2> QED
    BY <2>5, <2>6, <2>9, <2>10 DEF DriftDrafted
<1>5. CASE Publish(p)
  <2>1. stage[p] = "publish" /\ DriftDrafted(p)
    BY <1>5 DEF Publish, DriftInv, Held
  <2>2. /\ draft' = [draft EXCEPT ![p].events = IF p \in Announcing THEN {KeyOf[p]} ELSE {}]
        /\ UNCHANGED <<account, quote>>
    BY <1>5 DEF Publish, walletVars, tableVars
  <2>3. draft'[p].entries = draft[p].entries /\ draft'[p].account = draft[p].account
    BY <1>1, <2>2 DEF LedgerTypeOK, Drafts
  <2>4. DriftKnown(p, draft[p].entries[1]) => DriftKnown(p, draft[p].entries[1])'
    BY <2>2, <2>3 DEF DriftKnown
  <2> QED
    BY <2>1, <2>2, <2>3, <2>4 DEF DriftDrafted
<1> QED
  BY <1>3, <1>4, <1>5

LEMMA DriftFrame ==
    ASSUME NEW q \in Postings, DriftDrafted(q),
           stage'[q] = stage[q], draft'[q] = draft[q], quote'[q] = quote[q],
           UNCHANGED account
    PROVE  DriftDrafted(q)'
BY DEF DriftDrafted, DriftKnown

LEMMA DriftStep ==
    ASSUME LedgerAssumption, LInv, DriftInv, [Next]_ledgerVars
    PROVE  DriftInv'
<1> USE DEF LInv
<1>1. CASE UNCHANGED ledgerVars
  BY <1>1, DriftFrame DEF ledgerVars, walletVars, tableVars, DriftInv
<1>2. ASSUME NEW p \in Postings, Commit(p) PROVE DriftInv'
  <2>1. \A q \in Postings : stage'[q] \notin Held
    BY <1>2, LedgerAssumption DEF Commit, End, LockInv, LedgerTypeOK, Held
  <2> QED
    BY <2>1 DEF DriftInv
<1>3. ASSUME NEW p \in Postings, Step(p), ~Commit(p) PROVE DriftInv'
  <2> SUFFICES ASSUME NEW q \in Postings, stage'[q] \in Held \ {"insert"}
               PROVE  DriftDrafted(q)'
    BY DEF DriftInv
  <2>1. CASE q # p
    <3>1. /\ stage'[q] = stage[q] /\ draft'[q] = draft[q] /\ quote'[q] = quote[q]
          /\ UNCHANGED account
      BY <1>3, <2>1, StepFrame DEF LedgerTypeOK, tableVars
    <3>2. DriftDrafted(q)
      BY <3>1 DEF DriftInv
    <3> QED
      BY <3>1, <3>2, DriftFrame
  <2>2. CASE q = p
    <3>1. InsertEntry(p) \/ UpdateAccount(p) \/ Publish(p)
      BY <1>3, <2>2 DEF Step, CallWallet, LoadType, LockAccount, Duplicated, Reject, Rollback,
         End, Goto, LedgerTypeOK, Held
    <3> QED
      BY <2>2, <3>1, OwnDrift
  <2> QED
    BY <2>1, <2>2
<1> QED
  BY <1>1, <1>2, <1>3 DEF Next

\* What a commit adds to the book, and to the drifts the mirror counts.
LEMMA CommitDrifts ==
    ASSUME LedgerAssumption, LInv, DriftInv, NEW p \in Postings, Commit(p)
    PROVE  \E e \in Entries :
             /\ Follows(p, e) /\ DriftKnown(p, e)
             /\ book' = Append(book, e)
             /\ account'.balance = e.after
             /\ account'.drifts = account.drifts + IF e.drift = 0 THEN 0 ELSE 1
<1> USE DEF LInv
<1>1. PICK e \in Entries : Follows(p, e) /\ book' = Append(book, e) /\ account'.balance = e.after
  BY CommitAdds
<1>2. /\ stage[p] = "commit" /\ DriftDrafted(p) /\ EntryDrafted(p)
      /\ KeyOf[p] \in Unsettled => draft[p].account = account
  BY DEF Commit, DriftInv, DraftInv, Drafted, Held
<1>3. PICK d \in Entries : draft[p].entries = <<d>>
  BY <1>2 DEF EntryDrafted
<1>4. draft[p].entries[1] = e
  <2>1. book' = Append(book, d)
    BY <1>3 DEF Commit, LedgerTypeOK
  <2>2. d = e
    BY <1>1, <2>1, BookGrows
  <2> QED
    BY <1>3, <2>2
<1>5. DriftKnown(p, e)
  BY <1>2, <1>4 DEF DriftDrafted
<1>6. account' = draft[p].account /\ account.drifts \in Nat /\ e.key = KeyOf[p]
  BY <1>1 DEF Commit, LedgerTypeOK, Accounts, Follows
<1>7. account'.drifts = account.drifts + IF e.drift = 0 THEN 0 ELSE 1
  <2>1. CASE KeyOf[p] \in Unsettled
    BY <1>2, <1>5, <1>6, <2>1 DEF DriftKnown
  <2>2. CASE KeyOf[p] \notin Unsettled
    BY <1>2, <1>4, <1>6, <2>2 DEF DriftDrafted
  <2> QED
    BY <2>1, <2>2
<1> QED
  BY <1>1, <1>5, <1>7

LEMMA OwnKeysStep ==
    ASSUME LedgerAssumption, LInv, OwnKeys, [Next]_ledgerVars
    PROVE  OwnKeys'
<1> USE DEF LInv
<1>1. ASSUME NEW p \in Postings, Commit(p) PROVE OwnKeys'
  <2>1. PICK e \in Entries : Follows(p, e) /\ book' = Append(book, e)
    BY <1>1, CommitAdds
  <2>2. \A i \in DOMAIN book' : (i \in DOMAIN book /\ book'[i] = book[i]) \/ book'[i] = e
    BY <2>1, BookGrows
  <2> QED
    BY <2>1, <2>2 DEF OwnKeys, Follows
<1>2. CASE ~\E p \in Postings : Commit(p)
  BY <1>2, QuietTables DEF OwnKeys, tableVars
<1> QED
  BY <1>1, <1>2

\* The money of every SUCCESS entry has moved.
LEMMA BookMoved ==
    ASSUME LInv, WalletInv, OwnKeys, NEW i \in DOMAIN book, book[i].key \notin Unsettled
    PROVE  book[i].key \in Moved
<1>1. book[i].posting \in Postings
  BY BookEntry DEF LInv
<1>2. stage[book[i].posting] = "done" /\ KeyOf[book[i].posting] = book[i].key
  BY DEF LInv, OverInv, OwnKeys
<1> QED
  BY <1>1, <1>2 DEF WalletInv

\* A wallet call puts no book in order: what it adds is not booked yet.
LEMMA OrderBefore ==
    ASSUME LedgerAssumption, LInv, WalletInv, OwnKeys,
           NEW p \in Postings, CallWallet(p), InOrder'
    PROVE  InOrder
<1> USE DEF LInv, LedgerTypeOK
<1> SUFFICES ASSUME NEW i \in DOMAIN book, book[i].key \notin Unsettled
             PROVE  /\ Settled(i) <= Len(moves)
                    /\ moves[Settled(i)] = book[i].key
                    /\ mover[book[i].key] = book[i].posting
  BY DEF InOrder
<1>0. PICK s \in Nat : s = Settled(i) /\ s >= 1
  BY SettledCounts
<1>1. UNCHANGED book
  BY DEF CallWallet, tableVars
<1>2. Settled(i)' = s
  BY <1>0, <1>1 DEF Settled
<1>3. /\ s <= Len(moves') /\ moves'[s] = book[i].key
      /\ mover'[book[i].key] = book[i].posting
  BY <1>1, <1>2 DEF InOrder
<1>4. Len(moves) \in Nat /\ DOMAIN moves = 1..Len(moves)
  OBVIOUS
<1>5. s <= Len(moves)
  <2>1. CASE UNCHANGED moves
    BY <1>3, <2>1
  <2>2. CASE moves' = Append(moves, KeyOf[p]) /\ KeyOf[p] \notin Moved
    <3>1. KeyOf[p] \in Keys
      BY LedgerAssumption DEF LedgerAssumption
    <3>2. Len(moves') = Len(moves) + 1 /\ moves'[Len(moves) + 1] = KeyOf[p]
      BY <2>2, <3>1
    <3>3. book[i].key # KeyOf[p]
      BY <2>2, BookMoved
    <3> QED
      BY <1>3, <1>4, <3>2, <3>3
  <2> QED
    BY <2>1, <2>2, WalletGrows
<1>6. s \in DOMAIN moves
  BY <1>0, <1>4, <1>5
<1>7. moves'[s] = moves[s] /\ mover'[moves[s]] = mover[moves[s]]
  BY <1>6, WalletGrows
<1> QED
  BY <1>0, <1>3, <1>5, <1>7

\* A wallet call leaves what is booked where it is.
LEMMA FollowedCall ==
    ASSUME LedgerAssumption, LInv, WalletInv, OwnKeys, Followed,
           NEW p \in Postings, CallWallet(p)
    PROVE  Followed'
<1> SUFFICES ASSUME InOrder'
             PROVE  /\ account'.drifts = 0 /\ \A i \in DOMAIN book' : book'[i].drift = 0
                    /\ Settled(Len(book))' <= Len(moves')
                    /\ account'.balance = WalletAfter(Settled(Len(book)))'
  BY DEF Followed
<1>1. /\ account.drifts = 0 /\ \A i \in DOMAIN book : book[i].drift = 0
      /\ Settled(Len(book)) <= Len(moves)
      /\ account.balance = WalletAfter(Settled(Len(book)))
  BY OrderBefore DEF Followed
<1>2. UNCHANGED <<account, book>>
  BY DEF CallWallet, tableVars
<1>3. PICK s \in Nat : s = Settled(Len(book))
  <2>1. Len(book) \in Nat
    BY DEF LInv, LedgerTypeOK
  <2> QED
    BY <2>1, SettledType
<1>4. Settled(Len(book))' = s
  BY <1>2, <1>3 DEF Settled
<1>5. Len(moves') >= Len(moves) /\ Len(moves) \in Nat
  <2>1. KeyOf[p] \in Keys /\ moves \in Seq(Keys)
    BY LedgerAssumption DEF LedgerAssumption, LInv, LedgerTypeOK
  <2>2. moves' = Append(moves, KeyOf[p]) \/ moves' = moves
    BY WalletGrows DEF LInv
  <2> QED
    BY <2>1, <2>2
<1>6. WalletAfter(s)' = WalletAfter(s)
  <2>1. s \in 0..Len(moves)
    BY <1>1, <1>3, <1>5
  <2> QED
    BY <2>1, WalletGrows DEF LInv
<1>7. Len(moves') \in Nat
  BY WalletGrows, LedgerAssumption DEF LInv, LedgerTypeOK, LedgerAssumption
<1> QED
  BY <1>1, <1>2, <1>3, <1>4, <1>5, <1>6, <1>7

\* A SUCCESS entry in its turn starts where the wallet was and ends where the
\* wallet's answer says; an entry of another status changes nothing.
LEMMA FollowedCommit ==
    ASSUME LedgerAssumption, LInv, WalletInv, DriftInv, Followed,
           NEW p \in Postings, Commit(p)
    PROVE  Followed'
<1> USE DEF LInv
<1>1. PICK e \in Entries :
         /\ Follows(p, e) /\ DriftKnown(p, e)
         /\ book' = Append(book, e)
         /\ account'.balance = e.after
         /\ account'.drifts = account.drifts + IF e.drift = 0 THEN 0 ELSE 1
  BY CommitDrifts
<1>2. PICK n \in Nat : n = Len(book)
  BY DEF LedgerTypeOK
<1>3. /\ DOMAIN book = 1..n /\ DOMAIN book' = 1..(n + 1)
      /\ Len(book') = n + 1
      /\ \A i \in 1..n : book'[i] = book[i]
      /\ book'[n + 1] = e
  BY <1>1, <1>2, BookGrows
<1>4. UNCHANGED walletVars
  BY DEF Commit
<1>5. PICK s \in Nat : s = Settled(n)
  BY SettledType
<1>6. /\ \A i \in DOMAIN book : Settled(i)' = Settled(i)
      /\ Settled(Len(book))' = s + IF e.key \in Unsettled THEN 0 ELSE 1
  BY <1>1, <1>2, <1>5, SettledGrows
<1>7. Settled(n + 1)' = Settled(Len(book))'
  BY <1>3
<1>8. SUFFICES ASSUME InOrder'
               PROVE  /\ account'.drifts = 0 /\ \A i \in DOMAIN book' : book'[i].drift = 0
                      /\ Settled(Len(book))' <= Len(moves')
                      /\ account'.balance = WalletAfter(Settled(Len(book)))'
  BY DEF Followed
<1>9. InOrder
  <2>1. ASSUME NEW i \in DOMAIN book, book[i].key \notin Unsettled
        PROVE  /\ Settled(i) <= Len(moves)
               /\ moves[Settled(i)] = book[i].key
               /\ mover[book[i].key] = book[i].posting
    <3>1. i \in DOMAIN book' /\ book'[i] = book[i]
      BY <1>2, <1>3
    <3>2. /\ Settled(i)' <= Len(moves')
          /\ moves'[Settled(i)'] = book[i].key
          /\ mover'[book[i].key] = book[i].posting
      BY <1>8, <2>1, <3>1 DEF InOrder
    <3> QED
      BY <1>4, <1>6, <3>2 DEF walletVars
  <2> QED
    BY <2>1 DEF InOrder
<1>10. /\ account.drifts = 0 /\ \A i \in DOMAIN book : book[i].drift = 0
       /\ s <= Len(moves) /\ account.balance = WalletAfter(s)
  BY <1>2, <1>5, <1>9 DEF Followed
<1>11. \A m \in Nat : WalletAfter(m)' = WalletAfter(m)
  BY <1>4 DEF WalletAfter, walletVars
<1>12. e.key = KeyOf[p] /\ e.posting = p /\ e.before = account.balance
       /\ (e.key \in Unsettled => e.after = account.balance)
  BY <1>1 DEF Follows
<1>13. CASE e.key \in Unsettled
  <2>1. e.drift = 0
    BY <1>1, <1>13 DEF DriftKnown
  <2>2. Settled(Len(book))' = s
    BY <1>6, <1>13
  <2>3. account'.balance = WalletAfter(s)'
    BY <1>1, <1>10, <1>11, <1>12, <1>13
  <2>4. \A i \in DOMAIN book' : book'[i].drift = 0
    <3>1. \A i \in 1..(n + 1) : i \in 1..n \/ i = n + 1
      OBVIOUS
    <3> QED
      BY <1>3, <1>10, <2>1, <3>1
  <2>5. account'.drifts = 0 /\ s <= Len(moves')
    BY <1>1, <1>4, <1>10, <2>1 DEF walletVars
  <2>6. WalletAfter(Settled(Len(book)))' = WalletAfter(s)'
    BY <2>2 DEF WalletAfter
  <2> QED
    BY <2>2, <2>3, <2>4, <2>5, <2>6
<1>14. CASE e.key \notin Unsettled
  <2>1. Settled(Len(book))' = s + 1 /\ Settled(n + 1)' = s + 1
    BY <1>6, <1>7, <1>14
  <2>2. s + 1 <= Len(moves) /\ moves[s + 1] = e.key /\ mover[e.key] = p
    <3>1. n + 1 \in DOMAIN book' /\ book'[n + 1].key \notin Unsettled
      BY <1>3, <1>14
    <3>2. /\ Settled(n + 1)' <= Len(moves')
          /\ moves'[Settled(n + 1)'] = book'[n + 1].key
          /\ mover'[book'[n + 1].key] = book'[n + 1].posting
      BY <1>8, <3>1 DEF InOrder
    <3> QED
      BY <1>3, <1>4, <1>12, <2>1, <3>2 DEF walletVars
  <2>3. s + 1 \in DOMAIN moves
    BY <2>2 DEF LedgerTypeOK
  <2>4. quote[p] = account.balance + Signed(e.key)
    <3>1. (s + 1) - 1 = s
      OBVIOUS
    <3>2. quote[p] = WalletAfter(s) + Signed(e.key)
      BY <2>2, <2>3, <3>1 DEF WalletInv
    <3> QED
      BY <1>10, <3>2
  <2>5. quote[p] \in Nat /\ account.balance \in Int /\ Signed(e.key) \in Int
    BY <1>12, EntryType DEF LedgerTypeOK, Accounts
  <2>6. e.drift = 0 /\ e.after = quote[p]
    BY <1>1, <1>12, <1>14, <2>4, <2>5 DEF DriftKnown
  <2>7. WalletAfter(s + 1)' = quote[p]
    <3>1. WalletAfter(s + 1) = quote[p]
      BY <2>2 DEF WalletAfter
    <3> QED
      BY <1>11, <3>1
  <2>8. WalletAfter(Settled(Len(book)))' = WalletAfter(s + 1)'
    BY <2>1 DEF WalletAfter
  <2>9. \A i \in DOMAIN book' : book'[i].drift = 0
    <3>1. \A i \in 1..(n + 1) : i \in 1..n \/ i = n + 1
      OBVIOUS
    <3> QED
      BY <1>3, <1>10, <2>6, <3>1
  <2>10. account'.drifts = 0 /\ s + 1 <= Len(moves')
    BY <1>1, <1>4, <1>10, <2>2, <2>6 DEF walletVars
  <2> QED
    BY <1>1, <2>1, <2>6, <2>7, <2>8, <2>9, <2>10
<1> QED
  BY <1>13, <1>14

LEMMA FollowedStep ==
    ASSUME LedgerAssumption, LInv, OrderInv, [Next]_ledgerVars
    PROVE  Followed'
<1> USE DEF OrderInv
<1>1. CASE \E p \in Postings : CallWallet(p)
  BY <1>1, FollowedCall
<1>2. CASE \E p \in Postings : Commit(p)
  BY <1>2, FollowedCommit
<1>3. CASE ~(\E p \in Postings : CallWallet(p)) /\ ~(\E p \in Postings : Commit(p))
  <2>1. UNCHANGED <<walletVars, tableVars>>
    BY <1>3, WalletRests, QuietTables DEF LInv
  <2> QED
    BY <2>1 DEF Followed, InOrder, Settled, WalletAfter, walletVars, tableVars
<1> QED
  BY <1>1, <1>2, <1>3

LEMMA OrderInit == ASSUME LedgerAssumption, Init PROVE OrderInv
<1> USE DEF Init, LedgerAssumption
<1>1. WalletInv /\ DriftInv /\ OwnKeys
  BY DEF WalletInv, WalletAfter, DriftInv, OwnKeys, Held
<1>2. Followed
  <2>1. {j \in 1..Len(book) : book[j].key \notin Unsettled} = {}
    OBVIOUS
  <2>2. Settled(Len(book)) = 0
    BY <2>1, FS_EmptySet DEF Settled
  <2> QED
    BY <2>2 DEF Followed, WalletAfter, Nothing
<1> QED
  BY <1>1, <1>2 DEF OrderInv

LEMMA OrderNext ==
    ASSUME LedgerAssumption, LInv, OrderInv, [Next]_ledgerVars
    PROVE  OrderInv'
<1>1. WalletInv'
  BY WalletStep DEF LInv, OrderInv
<1>2. DriftInv' /\ OwnKeys'
  BY DriftStep, OwnKeysStep DEF OrderInv
<1>3. Followed'
  BY FollowedStep
<1> QED
  BY <1>1, <1>2, <1>3 DEF OrderInv

LEMMA OrderInvariant == Spec => []OrderInv
<1>1. Spec => []LInv
  BY LedgerInductive
<1>2. Init => OrderInv
  BY LedgerAssumption, OrderInit
<1>3. LInv /\ OrderInv /\ [Next]_ledgerVars => OrderInv'
  BY LedgerAssumption, OrderNext
<1> QED
  BY <1>1, <1>2, <1>3, PTL DEF Spec

\* A ledger that books the wallet's movements in their order never drifts,
\* whatever the postings, the amounts, the movements and the failures.
THEOREM LedgerInOrder == Spec => []InOrderNoDrift
<1>1. OrderInv => InOrderNoDrift
  BY DEF OrderInv, Followed, InOrderNoDrift
<1> QED
  BY <1>1, OrderInvariant, PTL

=============================================================================
