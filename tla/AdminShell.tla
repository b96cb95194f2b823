----------------------------- MODULE AdminShell -----------------------------
(***************************************************************************)
(* The console around its pages, in one tab of a browser: the login, the   *)
(* session in cookies and local storage, the guard of the router, the 401  *)
(* interceptor, the binding of a second factor, and the bar of tags.       *)
(*                                                                         *)
(* Cookies and local storage are shared with the other tabs of the         *)
(* browser.  A push of the router is decided by the guard at once, and     *)
(* arrives later: the code of the page is loaded first.  Calls are on      *)
(* their way meanwhile and are answered in any order.  The service is      *)
(* external: it answers 401 to a token that is not live.                   *)
(***************************************************************************)
EXTENDS TagBar, FiniteSets

CONSTANTS Users, Admins,    \* who may log in; whose role is admin
          AdminPages,       \* pages with meta.roles = ["admin"]
          NoUser,
          Slots,            \* bound: calls on their way
          MaxSessions,      \* bound: tokens issued
          MaxMishaps        \* bound: expiries, reloads, acts of another tab

VARIABLES
    browser,    \* the token cookie, the multiple-tabs cookie, user-info
    named,      \* the user store of this tab has a name
    menus,      \* wholeMenus has been filled
    route,      \* the page on the screen
    going,      \* where the last push leads, or NoTag
    signing,    \* the user whose login is on its way, Pushing, or NoUser
    calls,      \* the other calls on their way
    totp,       \* the dialog of the second factor: "closed", asking for the
                \* "code", or showing the recovery "codes"
    who, live,  \* the service: whose token each is; the tokens it accepts
    foreign,    \* history: another tab changed the session since the last push
    mishaps,    \* how many there were
    overtaken   \* history: a second factor was bound in a session that was
                \* no longer that of the browser

tagVars   == <<tags, menu, select>>
service   == <<who, live>>
work      == <<signing, calls, totp>>
history   == <<mishaps, overtaken>>
shellVars == <<browser, named, menus, route, going, work, service, foreign, history,
               tagVars>>

\* Of user-info only the roles matter: those of a user, or none (Blank).
Blank      == "blank"
LoggedOut  == [token |-> 0, multi |-> FALSE, info |-> NoUser]
Pushing    == "pushing"
NoCall     == [kind |-> "none", token |-> 0]
Fullscreen == {"login", "denied"}
Routes     == Pages \cup Fullscreen \cup {"notFound"}

ASSUME ShellAssumption ==
    /\ (Pages \cup {Home}) \cap (Fullscreen \cup {"notFound", NoTag}) = {}
    /\ Admins \subseteq Users /\ AdminPages \subseteq Pages \ {Top}
    /\ NoUser # Blank /\ Users \cap {NoUser, Blank, Pushing} = {}
    /\ {MaxSessions, MaxMishaps} \subseteq Nat

\* Type invariant.
ShellTypeOK ==
    /\ browser \in [token : 0..MaxSessions, multi : BOOLEAN, info : Users \cup {NoUser, Blank}]
    /\ named \in BOOLEAN /\ menus \in BOOLEAN
    /\ route \in Routes /\ going \in Routes \cup {NoTag}
    /\ signing \in Users \cup {NoUser, Pushing}
    /\ calls \in [Slots -> [kind : {"none", "page", "setup", "confirm", "orphan"},
                            token : 0..MaxSessions]]
    /\ totp \in {"closed", "code", "codes"}
    /\ who \in Seq(Users) /\ Len(who) <= MaxSessions /\ live \subseteq DOMAIN who
    /\ browser.token <= Len(who)
    /\ foreign \in BOOLEAN /\ overtaken \in BOOLEAN /\ mishaps \in 0..MaxMishaps
    /\ ToSet(tags) \subseteq Pages \cup {Home, "notFound"}
    /\ menu \in [hidden : SUBSET Commands, disabled : SUBSET Commands]
    /\ select \in Pages \cup {Home, NoTag, "notFound"}

-----------------------------------------------------------------------------
(* The guard *)

\* resolveCurrentRoles: those of user-info, or the one in the token.
RoleHolder(b) ==
    IF b.info # Blank THEN b.info ELSE IF b.token = 0 THEN NoUser ELSE who[b.token]

LoggedIn(b) == b.multi /\ b.info # NoUser

\* Mutant of Guard: no route for the paths there are no pages of.
GuardNoCatchAll(b, path) ==
    IF ~LoggedIn(b) THEN "login"
    ELSE IF path \in AdminPages /\ RoleHolder(b) \notin Admins THEN "denied"
    ELSE IF path = "login" THEN route
    ELSE path

\* router.beforeEach: where a push to `path` leads.
Guard(b, path) ==
    IF ~LoggedIn(b) THEN "login"
    ELSE IF path \in AdminPages /\ RoleHolder(b) \notin Admins THEN "denied"
    ELSE IF path = "login" THEN route
    ELSE IF path = Home THEN "notFound"
    ELSE path

\* The guard clears what is left of a session that has ended.
Kept(b, path) == IF LoggedIn(b) \/ path = "login" THEN b ELSE LoggedOut

\* A push with the storage b.
Go(b, path) ==
    LET to == Guard(b, path)
    IN  /\ browser' = Kept(b, path)
        /\ going' = IF to = route THEN NoTag ELSE to
        /\ foreign' = FALSE

\* menuSelect: the sidebar tells the bar of the page; it does not when it has only
\* now been put up, of the page for a path there is none of, or with no menus.
Told(page) == page \in Pages /\ route \notin Fullscreen /\ menus

\* The page gets its tag.
Listed(page) == IF Told(page) THEN Push(tags, page) ELSE tags

\* A page on the whole screen takes the layout away, and the dialog with it: what
\* was asked for it is still answered.
Left(c) ==
    CASE c.kind = "setup"   -> [c EXCEPT !.kind = "page"]
      [] c.kind = "confirm" -> [c EXCEPT !.kind = "orphan"]
      [] OTHER              -> c

\* The push has arrived.
Arrive ==
    /\ going # NoTag
    /\ route' = going /\ going' = NoTag
    /\ signing' = IF signing = Pushing THEN NoUser ELSE signing
    /\ calls' = IF going \in Fullscreen THEN [s \in Slots |-> Left(calls[s])] ELSE calls
    /\ totp' = IF going \in Fullscreen THEN "closed" ELSE totp
    /\ tags' = Listed(going)
    /\ menu' = IF going \in Fullscreen THEN NoMenu
               ELSE IF route \in Fullscreen THEN MenuFor(tags', going)
               ELSE IF Told(going) THEN ShowMenu(tags', going)
               ELSE menu
    /\ select' = IF {route, going} \cap Fullscreen = {} THEN select ELSE NoTag
    /\ UNCHANGED <<browser, named, menus, service, foreign, history>>

\* Another push ends that of a login.
Released == signing' = IF signing = Pushing THEN NoUser ELSE signing

\* A link of the menu or the logo, an address, the button of an error page.
Visit(page) ==
    /\ page \in Pages
    /\ Go(browser, page)
    /\ select' = NoTag /\ Released
    /\ UNCHANGED <<named, menus, route, calls, totp, service, history, tags, menu>>

-----------------------------------------------------------------------------
(* The session *)

Init ==
    /\ browser = LoggedOut /\ named = FALSE /\ menus = TRUE
    /\ route = "login" /\ going = NoTag
    /\ signing = NoUser /\ calls = [s \in Slots |-> NoCall] /\ totp = "closed"
    /\ who = <<>> /\ live = {}
    /\ foreign = FALSE /\ mishaps = 0 /\ overtaken = FALSE
    /\ tags = <<Home>> /\ menu = NoMenu /\ select = NoTag

\* The button of the login, or Enter: it is disabled while an earlier one is on
\* its way, and until the push that follows has ended.
ClickLogin(u) ==
    /\ route = "login" /\ signing = NoUser
    /\ u \in Users
    /\ signing' = u
    /\ UNCHANGED <<browser, named, menus, route, going, calls, totp, service,
                   foreign, history, tagVars>>

\* A call takes the token of the browser.
Send(s, kind) ==
    /\ calls[s] = NoCall
    /\ calls' = [calls EXCEPT ![s] = [kind |-> kind, token |-> browser.token]]

\* A call of a page.
ClickCall(s) ==
    /\ route \notin Fullscreen
    /\ Send(s, "page")
    /\ UNCHANGED <<browser, named, menus, route, going, signing, totp, service,
                   foreign, history, tagVars>>

\* A token for u.
IssueTo(u) ==
    /\ Len(who) < MaxSessions
    /\ who' = Append(who, u)
    /\ live' = live \cup {Len(who) + 1}

\* Mutant of SetToken: what user-info has is kept.
SetTokenKept(roles) ==
    [token |-> Len(who'), multi |-> TRUE,
     info  |-> IF browser.info = NoUser THEN roles ELSE browser.info]

\* setToken with the newest token.
SetToken(roles) == [token |-> Len(who'), multi |-> TRUE, info |-> roles]

\* handleAsyncRoutes, which also leaves the fixed tag only.
FillMenus(list) == menus' = TRUE /\ tags' = list

\* getTopMenu(true): the first page of the menu gets its tag.
WithTop(list) == Push(list, Top)

\* The login is answered: initRouter fills the menus and resets the tags.
LoginDone ==
    /\ signing \in Users
    /\ IssueTo(signing)
    /\ Go(SetToken(signing), Top)
    /\ named' = TRUE
    /\ FillMenus(WithTop(<<Home>>))
    /\ signing' = IF going' = NoTag THEN NoUser ELSE Pushing
    /\ UNCHANGED <<route, calls, totp, history, menu, select>>

LoginFails ==
    /\ signing \in Users
    /\ signing' = NoUser
    /\ UNCHANGED <<browser, named, menus, route, going, calls, totp, service,
                   foreign, history, tagVars>>

\* resetRouter, beside the reset of the tags.
ResetRouter == menus' = FALSE /\ tags' = <<Home>> /\ select' = NoTag

\* logOut.
LogOut ==
    /\ named' = FALSE
    /\ ResetRouter
    /\ Go(LoggedOut, "login")

\* The layout is on the screen, and no dialog over it.
AtHand == route \notin Fullscreen /\ totp = "closed"

ClickLogout ==
    /\ AtHand
    /\ LogOut
    /\ UNCHANGED <<route, work, service, history, menu>>

\* onReset: the store keeps its user.
ClickReset ==
    /\ AtHand
    /\ Go(LoggedOut, "login")
    /\ ResetRouter
    /\ UNCHANGED <<named, route, work, service, history, menu>>

\* An answer with the data, or an error that is not 401.
AnswerQuietly(s) ==
    /\ calls[s] # NoCall
    /\ calls' = [calls EXCEPT ![s] = NoCall]
    /\ UNCHANGED <<browser, named, menus, route, going, signing, totp, service,
                   foreign, history, tagVars>>

\* The interceptor: whichever session the call was of.
Answer401(s) ==
    /\ calls[s] # NoCall /\ calls[s].token \notin live
    /\ LogOut
    /\ calls' = [calls EXCEPT ![s] = NoCall]
    /\ Released
    /\ UNCHANGED <<route, totp, service, history, menu>>

-----------------------------------------------------------------------------
(* The second factor: a dialog of the layout.  Nobody is made to bind it:   *)
(* TOTP_ENFORCE is false.                                                   *)

totpUnchanged == UNCHANGED <<named, menus, route, signing, history, tags, menu>>

Stay == UNCHANGED <<browser, going, foreign>>

\* The button in the bar at the top: the secret is asked for.
ClickTotp(s) ==
    /\ AtHand
    /\ Send(s, "setup")
    /\ select' = NoTag
    /\ UNCHANGED <<totp, service>> /\ Stay /\ totpUnchanged

\* The dialog opens with it, on whatever page is on the screen now.
SetupDone(s) ==
    /\ calls[s].kind = "setup" /\ calls[s].token \in live
    /\ calls' = [calls EXCEPT ![s] = NoCall]
    /\ totp' = "code"
    /\ UNCHANGED <<service, select>> /\ Stay /\ totpUnchanged

\* It is cancelled, or closed: also with a code on its way.
CloseTotp ==
    /\ totp # "closed"
    /\ totp' = "closed" /\ select' = NoTag
    /\ UNCHANGED <<calls, service>> /\ Stay /\ totpUnchanged

\* onConfirm: the code is sent.
ClickConfirm(s) ==
    /\ totp = "code"
    /\ Send(s, "confirm")
    /\ select' = NoTag
    /\ UNCHANGED <<totp, service>> /\ Stay /\ totpUnchanged

\* Its answer: a new token for the user of the old one, with recovery codes to
\* show if the dialog is still open.  A store that has been emptied leaves
\* user-info, and takes it.
TotpDone(s) ==
    LET u     == who[calls[s].token]
        roles == IF named THEN u
                 ELSE IF browser.info = NoUser THEN Blank ELSE browser.info
    IN  /\ calls[s].kind \in {"confirm", "orphan"} /\ calls[s].token \in live
        /\ IssueTo(u)
        /\ browser' = SetToken(roles)
        /\ named' = (named \/ browser.info \in Users)
        /\ overtaken' = (overtaken \/ browser.info # u)
        /\ calls' = [calls EXCEPT ![s] = NoCall]
        /\ totp' = IF totp = "closed" \/ calls[s].kind = "orphan" THEN totp ELSE "codes"
        /\ UNCHANGED <<menus, route, going, signing, foreign, mishaps, tagVars>>

-----------------------------------------------------------------------------
(* What happens around the tab *)

Mishap == mishaps < MaxMishaps /\ mishaps' = mishaps + 1

\* The token's time is over, for the service and for the cookie.
ServerExpires(n) ==
    /\ n \in live
    /\ live' = live \ {n}
    /\ Mishap
    /\ UNCHANGED <<browser, named, menus, route, going, work, who,
                   foreign, overtaken, tagVars>>

CookieExpires ==
    /\ browser.token # 0
    /\ browser' = [browser EXCEPT !.token = 0]
    /\ Mishap
    /\ UNCHANGED <<named, menus, route, going, work, service,
                   foreign, overtaken, tagVars>>

\* Another tab logs in, or out.
OtherTabLogin(u) ==
    /\ u \in Users
    /\ IssueTo(u)
    /\ browser' = SetToken(u)
    /\ foreign' = TRUE
    /\ Mishap
    /\ UNCHANGED <<named, menus, route, going, work, overtaken, tagVars>>

OtherTabLogout ==
    /\ LoggedIn(browser)
    /\ browser' = LoggedOut
    /\ foreign' = TRUE
    /\ Mishap
    /\ UNCHANGED <<named, menus, route, going, work, service, overtaken,
                   tagVars>>

\* initRouter completes user-info from the token.
Completed(b) ==
    [b EXCEPT !.info = IF @ = Blank /\ browser.token # 0 THEN who[browser.token] ELSE @]

\* The tab is loaded again, or the browser is closed, which ends its session
\* cookie: the guard fills the menus, and main.ts does once more, which resets
\* the tags last.
Reload ==
    \E multi \in {browser.multi, FALSE} :
        LET b  == [browser EXCEPT !.multi = multi]
            to == Guard(b, IF route = "login" THEN Top ELSE route)
        IN  /\ browser' = Completed(Kept(b, route))
            /\ named' = (browser.info \in Users)
            /\ FillMenus(<<Home>>)
            /\ route' = to /\ going' = NoTag
            /\ signing' = NoUser /\ calls' = [s \in Slots |-> NoCall] /\ totp' = "closed"
            /\ foreign' = FALSE
            /\ select' = NoTag
            /\ menu' = (IF to \in Fullscreen THEN NoMenu ELSE MenuFor(<<Home>>, to))
            /\ Mishap
            /\ UNCHANGED <<service, overtaken>>

-----------------------------------------------------------------------------
(* The tags *)

tagsUnchanged == UNCHANGED <<named, menus, route, work, service, history>>

\* A tag is clicked; the home tag names a route there is none of.
ClickTag(t) ==
    /\ AtHand
    /\ HasTag(tags, t) /\ t \in Pages \cup {"notFound"}
    /\ Go(browser, t)
    /\ select' = NoTag
    /\ UNCHANGED <<tags, menu>> /\ tagsUnchanged

\* deleteDynamicTag for `path`.
Close(path, how) ==
    LET list == Remaining(tags, path, how)
        to   == Leads(list, path, how, route)
    IN  /\ tags' = list
        /\ IF to = NoTag THEN Stay ELSE Go(browser, to)

\* The cross on a tag, which the first one has not.
ClickCross(t) ==
    /\ AtHand
    /\ IndexOf(tags, t) > 0
    /\ Close(t, CloseThis)
    /\ select' = NoTag
    /\ UNCHANGED menu /\ tagsUnchanged

\* onClickDrop, for a tag or for the page on the screen.
Command(key, path) ==
    /\ key \notin menu.disabled
    /\ CASE key = Refresh ->
              /\ UNCHANGED tags
              /\ browser' = Kept(browser, route)
              /\ going' = Guard(browser, route)
              /\ foreign' = FALSE
         [] key = CloseAll ->
              /\ tags' = Splice(tags, 1, Len(tags))
              /\ IF menus THEN Go(browser, Top) ELSE Stay
         [] OTHER -> Close(path, key)
    /\ menu' = IF key \notin {Refresh, CloseAll} /\ tags' = <<>> /\ path = route
               THEN menu ELSE ShowMenu(tags', route)
    /\ select' = NoTag
    /\ tagsUnchanged

\* The context menu of a tag is opened; one of its commands is chosen.
OpenMenu(t) ==
    /\ AtHand /\ HasTag(tags, t)
    /\ menu' = ContextMenu(t, route)
    /\ select' = t
    /\ UNCHANGED tags /\ Stay /\ tagsUnchanged

SelectCommand(key) ==
    totp = "closed" /\ select # NoTag /\ key \notin menu.hidden /\ Command(key, select)

\* The drop-down at the right end, for the page on the screen.
DropCommand(key) == AtHand /\ Command(key, route)

Next ==
    \/ Arrive \/ \E p \in Pages : Visit(p)
    \/ \E s \in Slots :
          \/ ClickCall(s) \/ AnswerQuietly(s) \/ Answer401(s)
          \/ ClickTotp(s) \/ SetupDone(s) \/ ClickConfirm(s) \/ TotpDone(s)
    \/ CloseTotp
    \/ LoginDone \/ LoginFails \/ ClickLogout \/ ClickReset
    \/ CookieExpires \/ OtherTabLogout \/ Reload
    \/ \E n \in live : ServerExpires(n)
    \/ \E u \in Users : ClickLogin(u) \/ OtherTabLogin(u)
    \/ \E t \in ToSet(tags) : ClickTag(t) \/ ClickCross(t) \/ OpenMenu(t)
    \/ \E key \in Commands : SelectCommand(key) \/ DropCommand(key)

Spec == Init /\ [][Next]_shellVars

-----------------------------------------------------------------------------

\* The roles that the pages and the guard go by are those of the token that
\* calls are sent with, unless a second factor was bound in a session that
\* had been replaced in the browser.
RolesMatchToken ==
    browser.token # 0 /\ browser.info \in Users /\ ~overtaken =>
        who[browser.token] = browser.info

\* A page is on the screen only in a session whose role may see it, until
\* another tab changes the session; every way a session ends in this tab, an
\* answer to an old call included, leads away from the page.
PageNeedsSession ==
    route \in Pages /\ going = NoTag /\ ~foreign /\ ~overtaken =>
        /\ LoggedIn(browser)
        /\ route \in AdminPages => browser.info \in Admins

\* The session on the screen: the right roles, and none without a session.
SessionGuarded == RolesMatchToken /\ PageNeedsSession

\* No page has two tags, whichever of the tags are closed and whatever
\* arrives meanwhile.  The home tag can be doubled: its context menu, open
\* when a page arrives, offers "close the others" with the page's commands.
TagsDistinct ==
    \A i, j \in DOMAIN tags : tags[i] = tags[j] /\ tags[i] # Home => i = j

\* The home tag goes only in a command on a page, or by the context menu of a
\* tag, that is no longer in the bar, as the index -1 that stands for it counts
\* from the end of the array; or by its own context menu, if it is open when
\* a page arrives whose commands it takes.
HomeTagKept ==
    [][HasTag(tags, Home) /\ ~HasTag(tags', Home) =>
         \/ ~HasTag(tags, route)
         \/ select # NoTag /\ (select = Home \/ ~HasTag(tags, select))]_shellVars

=============================================================================
