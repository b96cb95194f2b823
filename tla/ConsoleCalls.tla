---------------------------- MODULE ConsoleCalls ----------------------------
(***************************************************************************)
(* One page of an admin console at work: a list (or a form) that is loaded *)
(* from the admin service, its filters, its dialog, and the writes its     *)
(* buttons send.  A page is a record of what its code does at each of      *)
(* these points: ConsoleViews and LegacyPanels give the pages.             *)
(*                                                                         *)
(* A call is on its way until its answer is handled; the others, and the   *)
(* user, go on meanwhile, and answers come in any order.  The service is   *)
(* external: a counter that every write raises stands for its tables.      *)
(*                                                                         *)
(* A page of the new console ends with its session (AdminShell).  The old  *)
(* console hides its panels behind the login and shows them to whoever     *)
(* signs in next, with what is in them and on its way.                     *)
(***************************************************************************)
EXTENDS Naturals, Sequences, SequencesExt

CONSTANTS
    Page,       \* the pages: from a name to its record
    Queries,    \* bound: settings of a page's filters, page number, merchant
    NoQuery,    \* no merchant chosen
    Slots,      \* bound: calls on their way at once
    NoSlot,
    MaxWrites,  \* bound: writes the service carries out
    MaxSignIns  \* bound: sessions after the first

ASSUME ConsoleAssumption ==
    /\ NoQuery \notin Queries /\ Queries # {}
    /\ NoSlot \notin Slots /\ Slots # {}
    /\ {MaxWrites, MaxSignIns} \subseteq Nat

Roles == {"admin", "operator", "viewer"}

\* The points at which pages differ.  A page of this kind loads when it is
\* opened, shows a spinner, and is left empty by a load that fails.
PlainList ==
    [roles  |-> Roles,      \* meta.roles of the route
     opens  |-> "load",     \* onMounted: "load", "after" another call, that
                            \* "call" only, "no"
     fields |-> {},         \* controls: "instant" ones load, "typed" ones do not
     needs  |-> "nothing",  \* load without a merchant: "skip", "blank"
     failed |-> "blank",    \* a failed load: "blank" or "keep"
     clears |-> FALSE,      \* load empties the list first
     button |-> TRUE,       \* there is a button that loads
     waits  |-> FALSE,      \* it is disabled meanwhile
     spins  |-> TRUE,       \* loads turn the spinner on and off
     selects |-> FALSE,     \* MerchantSelect chooses the only merchant
     stages |-> 1,          \* calls of one load, one after the other
     whole  |-> FALSE,      \* nothing is shown before the second's answer
     keeps  |-> FALSE,      \* the second's answer is kept until a refresh
     form   |-> FALSE,      \* what is loaded is what is saved
     stays  |-> FALSE,      \* a panel of the old console
     quiet  |-> FALSE,      \* its load that fails never leads to the login
     writes |-> {}]

\* A button that writes: for whom it is rendered, whether it submits the
\* dialog, whether it asks for the merchant, whether a load follows, whether
\* the page shows what it changes, whether it is disabled meanwhile, whether it
\* is rendered with its row and not hidden later, whether a 401 leads to the
\* login.
Write(name, guard) ==
    [name |-> name, guard |-> guard, dialog |-> FALSE, merchant |-> TRUE, reload |-> TRUE,
     shown |-> TRUE, once |-> FALSE, row |-> FALSE, leaves |-> FALSE]
Submit(name, guard) == [Write(name, guard) EXCEPT !.dialog = TRUE]

\* ExcelActions: the upload is disabled while it imports.
Upload(name, guard) == [Write(name, guard) EXCEPT !.once = TRUE]

VARIABLES
    page,           \* chosen once
    token,          \* the role of the stored token, or "none"
    role,           \* whose buttons the page has
    view,           \* "main", the "login", or "other": another panel
    signIns,        \* bound: how many there were
    field,          \* what the controls show
    table,          \* what is shown: its query and revision, and the role its
                    \* rows were rendered for; or Blank
    extra, kept,    \* the answer of the second stage; it need not be asked for
    loading,        \* the spinner
    dialog,         \* the dialog is open
    calls,          \* the calls on their way
    stored,         \* the revision of the service's data
    asked,          \* history: the query of the last load
    newest,         \* history: the last load: its slot, the stages answered
    late, failed,   \* history: since it began, an older answer was handled
                    \* after its own; a call failed
    mixed,          \* history: a form was saved under a merchant it was not
                    \* loaded for, with nothing on its way and nothing failed
    refused         \* history: writes the service refused to the role

session == <<token, role, view, signIns>>
shown   == <<field, table, extra, kept, loading, dialog>>
history == <<asked, newest, late, failed, mixed, refused>>
consoleVars == <<page, session, shown, calls, stored, history>>

P == Page[page]

Blank   == [query |-> NoQuery, rev |-> 0, by |-> "none"]
Free    == [kind |-> "free", query |-> NoQuery, stage |-> 0, list |-> 0, rev |-> 0,
            done |-> FALSE, by |-> "none"]
Newest0 == [slot |-> NoSlot, stages |-> 0]

\* Type invariant.
ConsoleTypeOK ==
    /\ page \in DOMAIN Page /\ role \in Roles /\ token \in Roles \cup {"none"}
    /\ P.stays \/ (token = role /\ role \in P.roles)
    /\ view \in {"main", "login", "other"} /\ signIns \in 0..MaxSignIns
    /\ field \in Queries \cup {NoQuery}
    /\ table \in [query : Queries \cup {NoQuery}, rev : 0..MaxWrites,
                  by : Roles \cup {"none"}]
    /\ extra \in 0..MaxWrites /\ kept \in BOOLEAN
    /\ loading \in BOOLEAN /\ dialog \in BOOLEAN
    /\ calls \in [Slots -> [kind : {"free", "prelude", "load", "bind"}
                                      \cup {w.name : w \in P.writes},
                            query : Queries \cup {NoQuery}, stage : 0..2,
                            list : 0..MaxWrites, rev : 0..MaxWrites, done : BOOLEAN,
                            by : Roles \cup {"none"}]]
    /\ stored \in 0..MaxWrites
    /\ asked \in Queries \cup {NoQuery}
    /\ newest \in [slot : Slots \cup {NoSlot}, stages : 0..2]
    /\ late \in BOOLEAN /\ failed \in BOOLEAN /\ mixed \in BOOLEAN
    /\ refused \subseteq {w.name : w \in P.writes}

\* A call takes the token that is stored when it is sent.
Call(kind, q, stage, by) ==
    [Free EXCEPT !.kind = kind, !.query = q, !.stage = stage, !.by = by]

OnScreen == view = "main"

Loads == {s \in Slots : calls[s].kind = "load"}

-----------------------------------------------------------------------------
(* load *)

\* What load does when it sends a call, in slot s.
Issue(s, board) ==
    /\ board[s] = Free
    /\ calls' = [board EXCEPT ![s] = Call("load", field', 1, token')]
    /\ loading' = P.spins
    /\ table' = IF P.clears THEN Blank ELSE table
    /\ asked' = field'
    /\ newest' = [slot |-> s, stages |-> 0]
    /\ late' = FALSE /\ failed' = FALSE

\* load(), called with the calls of `board` on their way.
Load(board) ==
    IF field' = NoQuery /\ P.needs # "nothing"
    THEN /\ calls' = board
         /\ UNCHANGED loading
         /\ IF P.needs = "blank"
            THEN /\ table' = Blank /\ asked' = NoQuery
                 /\ newest' = [slot |-> NoSlot, stages |-> P.stages]
                 /\ late' = FALSE /\ failed' = FALSE
            ELSE UNCHANGED <<table, asked, newest, late, failed>>
    ELSE \E s \in Slots : Issue(s, board)

\* Mutant of Admitted: the guard does not look at the roles.
AdmittedAll(r) == r \in Roles

\* The guard of the router turns a role away that meta.roles does not name.
Admitted(r) == r \in P.roles

\* boot of the old console, where somebody is signed in; the new one's is the
\* shell's.
Boot == token = role /\ view = "main" /\ signIns = 0

\* The page is opened.
Init ==
    /\ page \in DOMAIN Page /\ role \in {r \in Roles : Admitted(r)}
    /\ Boot
    /\ field \in IF P.needs = "nothing" THEN Queries ELSE {NoQuery}
    /\ table = Blank /\ extra = 0 /\ kept = FALSE
    /\ dialog = FALSE /\ stored = 0
    /\ \E s \in Slots :
          /\ calls = [x \in Slots |->
                        IF x = s /\ P.opens = "load" THEN Call("load", field, 1, role)
                        ELSE IF x = s /\ P.opens \in {"after", "call"}
                             THEN Call("prelude", NoQuery, 1, role)
                        ELSE Free]
          /\ newest = IF P.opens = "load" THEN [slot |-> s, stages |-> 0] ELSE Newest0
    /\ loading = (P.opens = "load" /\ P.spins)
    /\ asked = IF P.opens = "load" THEN field ELSE NoQuery
    /\ late = FALSE /\ failed = FALSE /\ mixed = FALSE /\ refused = {}

\* The refresh, search and query buttons.
ClickLoad ==
    /\ OnScreen /\ P.button /\ ~(P.waits /\ loading)
    /\ kept' \in {kept, FALSE}      \* a refresh; opening the panel again
    /\ UNCHANGED <<page, session, field>>
    /\ Load(calls)
    /\ UNCHANGED <<extra, dialog, stored, mixed, refused>>

\* A select or the pagination: its change loads.
ChangeInstant ==
    /\ OnScreen /\ "instant" \in P.fields
    /\ field' \in (Queries \cup IF P.needs = "nothing" THEN {} ELSE {NoQuery}) \ {field}
    /\ UNCHANGED <<page, session>>
    /\ Load(calls)
    /\ UNCHANGED <<extra, kept, dialog, stored, mixed, refused>>

\* A text field: nothing is loaded until a button is clicked.
ChangeTyped ==
    /\ OnScreen /\ "typed" \in P.fields /\ field # NoQuery
    /\ field' \in Queries \ {field}
    /\ UNCHANGED <<page, session, table, extra, kept, loading, dialog, calls, stored, history>>

\* MerchantSelect has got the merchants: the only one is chosen.
MerchantSelected ==
    /\ P.selects /\ field = NoQuery
    /\ field' \in Queries
    /\ UNCHANGED <<page, session>>
    /\ Load(calls)
    /\ UNCHANGED <<extra, kept, dialog, stored, mixed, refused>>

\* The service reads its tables for a call of load.
ServeLoad(s) ==
    /\ calls[s].kind = "load" /\ ~calls[s].done /\ calls[s].by # "none"
    /\ calls' = [calls EXCEPT ![s].rev = stored, ![s].done = TRUE]
    /\ UNCHANGED <<page, session, shown, stored, history>>

\* The answer of load number `newest` has been handled up to this stage, or that
\* load has ended.
Overtaken(s, stage) ==
    /\ s # newest.slot
    /\ stage <= newest.stages \/ (newest.slot = NoSlot /\ newest.stages >= 1)

\* Mutant of EndLoad: no finally block.
EndLoadSpinning(s) ==
    /\ calls' = [calls EXCEPT ![s] = Free]
    /\ UNCHANGED loading

\* The end of a load.
EndLoad(s) ==
    /\ calls' = [calls EXCEPT ![s] = Free]
    /\ loading' = FALSE

\* getRole: the old console takes an admin when no role is stored.
StoredRole == IF token = "none" THEN "admin" ELSE token

\* The role that rows with buttons of their own are rendered for.
RowRole == IF \E w \in P.writes : w.row THEN StoredRole ELSE "none"

\* handleAuthError, where it is called.
LeadTo(leads) == view' = IF leads THEN "login" ELSE view

\* request of the old console: a 401 ends the session of now, whichever one the
\* call was sent in.
Fails(s, leads) ==
    \/ /\ calls[s].by # "none"
       /\ UNCHANGED <<token, view>>
    \/ /\ P.stays
       /\ token' = "none"
       /\ LeadTo(leads)

\* The call that follows the answer to the first, with the list it was of.
Second(c) ==
    [Call("load", c.query, 2, token) EXCEPT !.list = IF P.whole THEN c.rev ELSE 0]

\* An answer of stage 1 or 2; with ok FALSE withRequest has returned null.  Rows
\* that wait for the second stage are shown if it fails, too.
Answer(s, ok) ==
    LET c == calls[s]
        Got(rev) == [query |-> c.query, rev |-> rev, by |-> RowRole]
        more == c.stage < P.stages /\ ~kept
    IN  /\ c.kind = "load" /\ (ok => c.done)
        /\ IF ok THEN UNCHANGED <<token, view>> ELSE Fails(s, c.stage = 1 /\ ~P.quiet)
        /\ role' \in IF ok \/ (P.whole /\ c.stage = 2)
                    THEN {role, StoredRole'} ELSE {role}        \* applyRoleUI
        /\ IF c.stage = 1
           THEN /\ table' = IF ok THEN IF P.whole /\ more THEN table ELSE Got(c.rev)
                            ELSE IF P.failed = "blank" THEN Blank ELSE table
                /\ UNCHANGED <<extra, kept>>
           ELSE /\ table' = IF P.whole THEN Got(c.list) ELSE table
                /\ extra' = IF ok THEN c.rev ELSE 0
                /\ kept' = P.keeps
        /\ IF more
           THEN /\ calls' = [calls EXCEPT ![s] = Second(c)]
                /\ UNCHANGED loading
           ELSE EndLoad(s)
        /\ late' = (late \/ Overtaken(s, c.stage))
        /\ failed' = (failed \/ ~ok)
        /\ newest' = IF s # newest.slot THEN newest
                     ELSE [slot |-> IF more THEN s ELSE NoSlot, stages |-> c.stage]
        /\ UNCHANGED <<page, signIns, field, dialog, stored, asked, mixed, refused>>

\* The call before the first load is answered: load, or wait for the button.
\* Where it fails the new console loads all the same, the old one shows the error.
PreludeDone(s) ==
    /\ calls[s].kind = "prelude"
    /\ calls[s].by # "none" \/ ~P.stays
    /\ UNCHANGED <<page, session, field>>
    /\ IF P.opens = "after"
       THEN Load([calls EXCEPT ![s] = Free])
       ELSE /\ calls' = [calls EXCEPT ![s] = Free]
            /\ UNCHANGED <<table, loading, asked, newest, late, failed>>
    /\ UNCHANGED <<extra, kept, dialog, stored, mixed, refused>>

PreludeFailed(s) ==
    /\ P.stays /\ calls[s].kind = "prelude"
    /\ Fails(s, TRUE)
    /\ calls' = [calls EXCEPT ![s] = Free]
    /\ table' = Blank /\ failed' = TRUE
    /\ UNCHANGED <<page, role, signIns, field, extra, kept, loading, dialog, stored, asked,
                   newest, late, mixed, refused>>

-----------------------------------------------------------------------------
(* The dialog and the writes *)

\* canWrite and isAdmin.
CanWrite(r) == r # "viewer"
IsAdmin(r) == r = "admin"

Rendered(w) ==
    LET r == IF w.row THEN table.by ELSE role
    IN  CASE w.guard = "write" -> CanWrite(r)
          [] w.guard = "admin" -> IsAdmin(r)
          [] w.guard = "none"  -> TRUE

\* Open the dialog for a new row or for one of the list; cancel it.  The old
\* console has its dialogs above the login too.
ToggleDialog ==
    /\ OnScreen \/ dialog
    /\ \E w \in P.writes : w.dialog /\ Rendered(w)
    /\ dialog' = ~dialog
    /\ UNCHANGED <<page, session, field, table, extra, kept, loading, calls, stored, history>>

\* A form was loaded for the merchant it is saved under.
SavedAsLoaded == P.form => table.query = field

\* A button that writes is clicked.
ClickWrite(w) ==
    /\ w \in P.writes /\ Rendered(w)
    /\ IF w.dialog THEN dialog ELSE OnScreen
    /\ w.row => table # Blank
    /\ P.needs # "nothing" /\ w.merchant => field # NoQuery
    /\ w.once => \A s \in Slots : calls[s].kind # w.name
    /\ \E s \in Slots :
          /\ calls[s] = Free
          /\ calls' = [calls EXCEPT ![s] = Call(w.name, field, 0, token)]
    /\ mixed' = (mixed \/ (~SavedAsLoaded /\ Loads = {} /\ ~late /\ ~failed))
    /\ UNCHANGED <<page, session, shown, stored, asked, newest, late, failed, refused>>

\* The calls that write: method, and path by its segments.
Post(path) == [method |-> "post", path |-> path]
Put(path) == [method |-> "put", path |-> path]
Delete(path) == [method |-> "delete", path |-> path]

Endpoint ==
    [createMerchant |-> Post(<<"merchants">>), updateMerchant |-> Put(<<"merchants", "id">>),
     rotateMerchantKey |-> Post(<<"merchants", "id", "rotate-key">>),
     saveAllowedIPs |-> Put(<<"merchants", "id", "allowed-ips">>),
     addBlacklist |-> Post(<<"risk-blacklist">>),
     deleteBlacklist |-> Delete(<<"risk-blacklist", "id">>),
     saveConfig |-> Post(<<"game-configs">>), deleteConfig |-> Delete(<<"game-configs", "id">>),
     sync |-> Post(<<"reports", "daily-settlements", "sync">>),
     confirm |-> Post(<<"reports", "daily-settlements", "id", "confirm">>),
     rollup |-> Post(<<"reports", "settlement-periods", "id", "rollup">>),
     ackAlert |-> Post(<<"risk-alerts", "id", "ack">>),
     resetBreaker |-> Post(<<"wallet", "breaker", "reset">>),
     createUser |-> Post(<<"users">>), updateUser |-> Put(<<"users", "id">>),
     toggleUser |-> Put(<<"users", "id">>),
     createPlatformGame |-> Post(<<"platform", "games">>),
     updatePlatformGame |-> Put(<<"platform", "games", "id">>),
     createMerchantGame |-> Post(<<"merchant-games">>),
     updateMerchantGame |-> Put(<<"merchant-games", "id">>),
     saveGameTier |-> Put(<<"merchant-games", "id">>),
     deleteMerchantGame |-> Delete(<<"merchant-games", "id">>),
     importMerchantGames |-> Post(<<"import", "merchant-games">>),
     importPlatformGames |-> Post(<<"import", "platform-games">>)]

Within(inner, path) ==
    \E i \in 0..(Len(path) - Len(inner)) : IsPrefix(inner, SubSeq(path, i + 1, Len(path)))

\* adminOnlyPrefixes, of a resource that the path goes on from; and
\* adminOnlyMutations, which are all POSTs.
AdminOnly(e) ==
    \/ \E i \in 1..(Len(e.path) - 1) : e.path[i] \in {"users", "roles"}
    \/ /\ e.method = "post"
       /\ \/ Within(<<"merchants">>, e.path) \/ Within(<<"rotate-key">>, e.path)
          \/ Within(<<"platform", "games">>, e.path)

\* pkg/auth CanAccess, of the role in the token the call was sent with.  Every
\* role of a page may read what it loads.
Permitted(name, by) ==
    \/ by = "admin"
    \/ by = "operator" /\ ~AdminOnly(Endpoint[name])

\* The service carries out a write.
ServeWrite(w, s) ==
    /\ w \in P.writes /\ calls[s].kind = w.name /\ ~calls[s].done
    /\ Permitted(w.name, calls[s].by) /\ stored < MaxWrites
    /\ stored' = IF w.shown THEN stored + 1 ELSE stored
    /\ calls' = [calls EXCEPT ![s].done = TRUE]
    /\ UNCHANGED <<page, session, shown, history>>

\* Its answer: the dialog closes, whichever row it was opened for, and the
\* list is loaded again.
WriteDone(w, s) ==
    /\ w \in P.writes /\ calls[s].kind = w.name /\ calls[s].done
    /\ dialog' = (dialog /\ ~w.dialog)
    /\ UNCHANGED <<page, session, field>>
    /\ IF w.reload
       THEN Load([calls EXCEPT ![s] = Free])
       ELSE /\ calls' = [calls EXCEPT ![s] = Free]
            /\ UNCHANGED <<table, loading, asked, newest, late, failed>>
    /\ UNCHANGED <<extra, kept, stored, mixed, refused>>

\* withRequest returns null: the service refused, or the call failed before
\* or after the service carried it out.
WriteFailed(w, s) ==
    /\ w \in P.writes /\ calls[s].kind = w.name
    /\ Fails(s, w.leaves)
    /\ calls' = [calls EXCEPT ![s] = Free]
    /\ failed' = TRUE
    /\ refused' = IF calls[s].by = "none" \/ Permitted(w.name, calls[s].by) THEN refused
                  ELSE refused \cup {w.name}
    /\ UNCHANGED <<page, role, signIns, shown, stored, asked, newest, late, mixed>>

-----------------------------------------------------------------------------
(* The session of the old console *)

\* persistAuth of an answer with a token, and applyRoleUI.
PersistAuth(r) == token' = r /\ role' = r

\* The logout button; nothing is loaded or emptied.
SignOut ==
    /\ P.stays /\ OnScreen
    /\ token' = "none" /\ view' = "login"
    /\ UNCHANGED <<page, role, signIns, shown, calls, stored, history>>

\* Mutant of SignIn: the buttons stay as they were.
SignInUnapplied(r) ==
    /\ P.stays /\ view = "login" /\ ~dialog
    /\ r \in Roles /\ signIns < MaxSignIns /\ signIns' = signIns + 1
    /\ token' = r /\ view' = "main"
    /\ UNCHANGED <<page, role, shown, calls, stored, history>>

\* The answer to a login: the blacklist is opened, unless a second factor is to
\* be bound first: then the panel of the former session shows again.  An open
\* dialog keeps the login from being used.
SignIn(r) ==
    /\ P.stays /\ view = "login" /\ ~dialog
    /\ r \in Roles /\ signIns < MaxSignIns /\ signIns' = signIns + 1
    /\ PersistAuth(r)
    /\ UNCHANGED <<page, field>>
    /\ \/ /\ view' = "main"
          /\ UNCHANGED <<calls, loading, table, asked, newest, late, failed>>
       \/ /\ page # "blacklistPanel" /\ view' = "other"
          /\ UNCHANGED <<calls, loading, table, asked, newest, late, failed>>
       \/ /\ page = "blacklistPanel" /\ view' = "main"
          /\ Load(calls)
    /\ UNCHANGED <<extra, kept, dialog, stored, mixed, refused>>

\* switchTab, to a panel that was not on the screen; what its first call
\* fetched is there already.
OpenTab ==
    /\ view = "other" /\ Admitted(role)
    /\ view' = "main"
    /\ UNCHANGED <<page, token, role, signIns, field>>
    /\ IF P.opens \in {"no", "call"}
       THEN UNCHANGED <<calls, loading, table, asked, newest, late, failed>>
       ELSE Load(calls)
    /\ UNCHANGED <<extra, kept, dialog, stored, mixed, refused>>

\* The code of a second factor is sent: its dialog can be opened at any time.
ClickBind ==
    /\ P.stays /\ OnScreen
    /\ \A s \in Slots : calls[s].kind # "bind"
    /\ \E s \in Slots :
          /\ calls[s] = Free
          /\ calls' = [calls EXCEPT ![s] = Call("bind", NoQuery, 0, token)]
    /\ UNCHANGED <<page, session, shown, stored, history>>

\* persistAuth of its answer: a new token, of the user of the old one, whoever
\* has signed in or out meanwhile.  It loads nothing, and shows no other view.
BindDone(s) ==
    /\ calls[s].kind = "bind" /\ calls[s].by # "none"
    /\ PersistAuth(calls[s].by)
    /\ calls' = [calls EXCEPT ![s] = Free]
    /\ UNCHANGED <<page, view, signIns, shown, stored, history>>

BindFailed(s) ==
    /\ calls[s].kind = "bind"
    /\ Fails(s, FALSE)
    /\ calls' = [calls EXCEPT ![s] = Free]
    /\ UNCHANGED <<page, role, signIns, shown, stored, history>>

-----------------------------------------------------------------------------

Next ==
    \/ ClickLoad \/ ChangeInstant \/ ChangeTyped \/ MerchantSelected \/ ToggleDialog
    \/ \E w \in P.writes : ClickWrite(w)
    \/ SignOut \/ OpenTab \/ ClickBind \/ \E r \in Roles : SignIn(r)
    \/ \E s \in Slots :
          \/ ServeLoad(s) \/ Answer(s, TRUE) \/ Answer(s, FALSE) \/ PreludeDone(s)
          \/ PreludeFailed(s) \/ BindDone(s) \/ BindFailed(s)
          \/ \E w \in P.writes : ServeWrite(w, s) \/ WriteDone(w, s) \/ WriteFailed(w, s)

Spec == Init /\ [][Next]_consoleVars

-----------------------------------------------------------------------------

\* The spinner never outlives the loads: every path out of load, the early
\* return behind its call included, passes the finally block.
SpinnerHasLoad == loading => Loads # {}

\* With nothing on its way, the page shows the answer to what was asked last,
\* and that answer has seen every write of the page; unless a call failed, an
\* older answer was handled after the newer one, or the page was left without
\* the merchant its loads need.  The breakers of the old console are not
\* loaded again by a reset, nor its counts of addresses before a refresh.
ShownIsAsked ==
    \/ \E s \in Slots : calls[s] # Free
    \/ late \/ failed \/ newest.stages = 0 \/ P.form \/ page = "breakerPanel"
    \/ P.needs = "skip" /\ field = NoQuery
    \/ /\ table.query = asked /\ (asked # NoQuery => table.rev = stored)
       /\ P.stages = 2 /\ ~P.keeps => extra = stored

\* What was loaded for one merchant, or one game, is saved under another only
\* while a load is on its way, or after one failed or was overtaken: the page
\* does not look which of them its text is of.
MixedOnlyByLateAnswer == ~mixed

\* The pages offer a role what pkg/auth lets it do, after another user has signed
\* in too.  The import of merchant games is offered to everybody; and the rows
\* of the old settlements keep the buttons they were rendered with.
RefusedIsTheImport ==
    refused \subseteq IF page = "merchantGames" THEN {"importMerchantGames"}
                      ELSE IF page = "settlementPanel" /\ signIns > 0 THEN {"confirm"}
                      ELSE {}

=============================================================================
