-------------------------- MODULE AdminShell_proofs --------------------------
(***************************************************************************)
(* That a page is on the screen only in a session that may see it, for any *)
(* pages, users, calls on their way and sessions.  The invariant follows   *)
(* every push from the guard, which decides, to the arrival of the page:   *)
(* what is in between must leave the session of the guard in place, or     *)
(* push again.  Then the bar of tags: no page twice, and the home tag      *)
(* first, for what splice leaves of a bar of any length.                   *)
(***************************************************************************)
EXTENDS AdminShell, SequenceTheorems, WellFoundedInduction, TLAPS

Storage  == [token : Nat, multi : BOOLEAN, info : Users \cup {NoUser, Blank}]
TagPaths == Pages \cup {Home, "notFound"}

ShellTypes ==
    /\ browser \in Storage /\ named \in BOOLEAN
    /\ signing \in Users \cup {NoUser, Pushing}
    /\ who \in Seq(Users) /\ browser.token <= Len(who) /\ live \subseteq 1..Len(who)
    /\ route \in Routes /\ going \in Routes \cup {NoTag}
    /\ tags \in Seq(TagPaths) /\ select \in TagPaths \cup {NoTag}

\* Only the new token of a second factor leaves roles that are nobody's.
BlankIsOvertaken == browser.info = Blank => overtaken

\* The context menu is open beside the layout only.
MenuIsInLayout == select # NoTag => route \notin Fullscreen

Fits(page) == LoggedIn(browser) /\ (page \in AdminPages => browser.info \in Admins)

\* The page that is on its way, or there, is one the guard would let through.
PagesFit ==
    ~foreign /\ ~overtaken =>
        /\ going \in Pages => Fits(going)
        /\ going = NoTag /\ route \in Pages => Fits(route)

SInv == ShellTypes /\ BlankIsOvertaken /\ MenuIsInLayout /\ PagesFit /\ RolesMatchToken

-----------------------------------------------------------------------------
(* Tags *)

Less == {pair \in Nat \X Nat : pair[1] < pair[2]}

LEMMA LessWellFounded == IsWellFoundedOn(Less, Nat)
<1>1. OpToRel(<, Nat) = Less
  BY Zenon DEF OpToRel, Less
<1> QED
  BY <1>1, NatLessThanWellFounded, Zenon

LEMMA MinIsLeast ==
    ASSUME NEW S \in SUBSET Nat, S # {}
    PROVE  Min(S) \in S
<1>1. PICK x \in S : \A y \in S : ~ (<<y, x>> \in Less)
  BY WFMin, LessWellFounded
<1>2. \A y \in Nat : y < x => <<y, x>> \in Less
  BY DEF Less
<1>3. ASSUME NEW y \in S
      PROVE  x <= y
  <2>1. x \in Nat /\ y \in Nat
    OBVIOUS
  <2>2. ~ (y < x)
    BY <1>1, <1>2, <2>1, Zenon
  <2> QED
    BY <2>1, <2>2
<1> QED
  BY <1>3 DEF Min

LEMMA IndexType ==
    ASSUME NEW T, NEW list \in Seq(T), NEW path
    PROVE  IndexOf(list, path) \in Int
<1> DEFINE I == {i \in 1..Len(list) : list[i] = path}
<1>1. CASE HasTag(list, path)
  <2>1. SelectInSeq(list, LAMBDA t : t = path) = IF I # {} THEN Min(I) ELSE 0
    BY DEF SelectInSeq
  <2>2. I # {} => Min(I) \in I
    <3>1. Len(list) \in Nat
      BY LenProperties
    <3>2. I \in SUBSET Nat
      BY <3>1
    <3> QED
      BY <3>2, MinIsLeast
  <2>3. SelectInSeq(list, LAMBDA t : t = path) \in Int
    BY <2>1, <2>2, LenProperties
  <2> QED
    BY <1>1, <2>3 DEF IndexOf
<1>2. CASE ~HasTag(list, path)
  BY <1>2 DEF IndexOf
<1> QED
  BY <1>1, <1>2

LEMMA SpliceType ==
    ASSUME NEW T, NEW list \in Seq(T), NEW start \in Int, NEW length \in Int
    PROVE  Splice(list, start, length) \in Seq(T)
<1> DEFINE from == IF start < 0 THEN IF start + Len(list) < 0 THEN 0 ELSE start + Len(list)
                   ELSE IF start > Len(list) THEN Len(list) ELSE start
           past == IF length < 0 THEN from
                   ELSE IF from + length > Len(list) THEN Len(list) ELSE from + length
<1>1. Len(list) \in Nat /\ list \in [1..Len(list) -> T]
  BY LenProperties
<1>2. from \in 0..Len(list)
  BY <1>1
<1>3. past \in 0..Len(list)
  <2> HIDE DEF from
  <2> QED
    BY <1>1, <1>2
<1>4. Splice(list, start, length) = SubSeq(list, 1, from) \o SubSeq(list, past + 1, Len(list))
  BY DEF Splice
<1> HIDE DEF from, past
<1>5. SubSeq(list, 1, from) \in Seq(T)
  BY <1>1, <1>2, SubSeqProperties
<1>6. SubSeq(list, past + 1, Len(list)) \in Seq(T)
  BY <1>1, <1>3, SubSeqProperties
<1> QED
  BY <1>4, <1>5, <1>6, ConcatProperties

\* Whatever is closed, the tags are still tags, and lead to one of them.
LEMMA RemainingType ==
    ASSUME NEW list \in Seq(TagPaths), NEW path \in TagPaths,
           NEW how \in {CloseThis, CloseLeft, CloseRight, CloseOther}
    PROVE  Remaining(list, path, how) \in Seq(TagPaths)
<1>1. IndexOf(list, path) \in Int /\ Len(list) \in Int
  BY IndexType, LenProperties
<1> DEFINE i == IndexOf(list, path)
<1>2. /\ Splice(list, i, 1) \in Seq(TagPaths)
      /\ Splice(list, 1, i - 1) \in Seq(TagPaths)
      /\ Splice(list, i + 1, Len(list)) \in Seq(TagPaths)
  <2> HIDE DEF i
  <2>1. i \in Int
    BY <1>1 DEF i
  <2> QED
    BY <1>1, <2>1, SpliceType
<1>3. <<Home, path>> \in Seq(TagPaths)
  BY DEF TagPaths
<1> QED
  BY <1>2, <1>3 DEF Remaining, CloseThis, CloseLeft, CloseRight, CloseOther

LEMMA LeadsType ==
    ASSUME NEW list \in Seq(TagPaths), NEW path, NEW how, NEW page
    PROVE  Leads(list, path, how, page) \in TagPaths \cup {NoTag}
<1>1. list # <<>> => Last(list) \in TagPaths
  BY LenProperties, EmptySeq, ElementOfSeq DEF Last
<1> QED
  BY <1>1 DEF Leads

LEMMA PushType ==
    ASSUME NEW list \in Seq(TagPaths), NEW path \in TagPaths
    PROVE  Push(list, path) \in Seq(TagPaths)
BY AppendProperties DEF Push

-----------------------------------------------------------------------------
(* The guard *)

LEMMA RoutesApart ==
    ASSUME ShellAssumption, TagBarAssumption
    PROVE  /\ Top \in Pages /\ Top \notin AdminPages /\ AdminPages \subseteq Pages
           /\ Routes \cap (Pages \cup {Home, "notFound"}) \subseteq TagPaths
           /\ NoTag \notin Pages /\ NoTag \notin Routes /\ Home # "login" /\ Home # NoTag
           /\ "login" \notin Pages /\ "denied" \notin Pages /\ "notFound" \notin Pages
           /\ "login" \notin TagPaths /\ NoTag \notin TagPaths /\ TagPaths \cap Fullscreen = {}
           /\ Routes \ Fullscreen \subseteq TagPaths
           /\ Blank \notin Users /\ NoUser \notin Users /\ NoUser # Blank
           /\ Pushing \notin Users /\ LoggedOut \in Storage
BY DEF ShellAssumption, TagBarAssumption, Routes, TagPaths, Fullscreen, NoTag, LoggedOut, Storage

\* What the guard lets through is a page of the session, and a session that has
\* ended leads to the login.
LEMMA GuardFits ==
    ASSUME ShellAssumption, TagBarAssumption, NEW b \in Storage, NEW path \in Routes \cup {Home},
           route \in Routes, b.info # Blank,
           path = "login" => ~LoggedIn(b)
    PROVE  /\ Guard(b, path) \in Routes
           /\ Guard(b, path) \in Pages =>
                 LoggedIn(b) /\ (Guard(b, path) \in AdminPages => b.info \in Admins)
BY RoutesApart DEF Guard, RoleHolder, Routes, Fullscreen

LEMMA GuardRoutes ==
    ASSUME ShellAssumption, TagBarAssumption, NEW b, NEW path \in Routes \cup {Home},
           route \in Routes
    PROVE  Guard(b, path) \in Routes
BY RoutesApart DEF Guard, Routes, Fullscreen

\* A push, from the page on the screen and with the storage b.
LEMMA GoFits ==
    ASSUME ShellAssumption, TagBarAssumption, NEW b \in Storage, NEW path \in Routes \cup {Home},
           route \in Routes, route' = route, overtaken' = overtaken,
           b.info = Blank => overtaken,
           path = "login" => ~LoggedIn(b),
           Go(b, path)
    PROVE  /\ browser' \in {b, LoggedOut} /\ browser' \in Storage
           /\ going' \in Routes \cup {NoTag}
           /\ PagesFit'
<1>1. browser' \in {b, LoggedOut} /\ browser' \in Storage
  BY RoutesApart DEF Go, Kept
<1>2. going' \in Routes \cup {NoTag}
  BY GuardRoutes DEF Go
<1>3. ASSUME ~overtaken'
      PROVE  PagesFit'
  <2>1. b.info # Blank
    BY <1>3
  <2> DEFINE to == Guard(b, path)
  <2>2. to \in Pages => LoggedIn(b) /\ (to \in AdminPages => b.info \in Admins)
    BY <2>1, GuardFits
  <2>3. LoggedIn(b) => browser' = b
    BY DEF Go, Kept
  <2>4. going' = IF to = route THEN NoTag ELSE to
    BY DEF Go
  <2> HIDE DEF to
  <2> QED
    <3>1. ASSUME NEW page \in Pages, to = page
          PROVE  Fits(page)'
      BY <2>2, <2>3, <3>1 DEF Fits, LoggedIn
    <3>2. going' \in Pages => to = going'
      BY <2>4, RoutesApart
    <3>3. going' = NoTag /\ route' \in Pages => to = route' \/ to = NoTag
      BY <2>4
    <3>4. to # NoTag
      BY GuardRoutes, RoutesApart DEF to
    <3> QED
      BY <3>1, <3>2, <3>3, <3>4 DEF PagesFit
<1> QED
  BY <1>1, <1>2, <1>3 DEF PagesFit

-----------------------------------------------------------------------------

\* A step that leaves the session, the route and the tags alone.
LEMMA QuietStep ==
    ASSUME SInv, UNCHANGED <<browser, named, route, going, foreign, overtaken, tags>>,
           signing' \in Users \cup {NoUser, Pushing}, who' = who, live' \subseteq live,
           select' \in {select, NoTag}
    PROVE  SInv'
BY DEF SInv, ShellTypes, BlankIsOvertaken, MenuIsInLayout, PagesFit, Fits, LoggedIn, RolesMatchToken

\* A step of this tab that pushes, with the storage b.
LEMMA PushStep ==
    ASSUME ShellAssumption, TagBarAssumption, SInv,
           NEW b \in Storage, NEW path \in Routes \cup {Home},
           b.token = 0 \/ b = browser, path = "login" => ~LoggedIn(b), b.info = Blank => overtaken,
           Go(b, path), UNCHANGED <<route, overtaken, who, live>>,
           named' \in BOOLEAN, signing' \in Users \cup {NoUser, Pushing},
           tags' \in Seq(TagPaths), select' \in {select, NoTag}
    PROVE  SInv'
<1>1. /\ browser' \in {b, LoggedOut} /\ browser' \in Storage
      /\ going' \in Routes \cup {NoTag} /\ PagesFit'
  BY GoFits DEF SInv, ShellTypes
<1>2. Len(who) \in Nat
  BY LenProperties DEF SInv, ShellTypes
<1>3. ShellTypes'
  BY <1>1, <1>2 DEF SInv, ShellTypes, LoggedOut, Storage
<1>4. BlankIsOvertaken' /\ MenuIsInLayout' /\ RolesMatchToken'
  BY <1>1, RoutesApart DEF SInv, BlankIsOvertaken, MenuIsInLayout, RolesMatchToken, LoggedOut
<1> QED
  BY <1>1, <1>3, <1>4 DEF SInv

LEMMA LogOutStep ==
    ASSUME ShellAssumption, TagBarAssumption, SInv, Go(LoggedOut, "login"), ResetRouter,
           named' \in BOOLEAN, signing' \in Users \cup {NoUser, Pushing},
           UNCHANGED <<route, overtaken, who, live>>
    PROVE  SInv'
<1>1. <<Home>> \in Seq(TagPaths)
  BY DEF TagPaths
<1> QED
  BY <1>1, PushStep, RoutesApart DEF ResetRouter, LoggedOut, LoggedIn, Routes, Fullscreen

\* A new token, for the user whose roles are then stored.
LEMMA IssueStep ==
    ASSUME SInv, NEW u \in Users, IssueTo(u)
    PROVE  /\ who' \in Seq(Users) /\ Len(who') = Len(who) + 1 /\ Len(who) \in Nat
           /\ live' \subseteq 1..Len(who')
           /\ who'[Len(who')] = u
           /\ \A n \in 1..Len(who) : who'[n] = who[n]
<1>1. who \in Seq(Users) /\ live \subseteq 1..Len(who)
  BY DEF SInv, ShellTypes
<1>2. who' = Append(who, u) /\ live' = live \cup {Len(who) + 1}
  BY DEF IssueTo
<1>3. /\ Append(who, u) \in Seq(Users) /\ Len(Append(who, u)) = Len(who) + 1
      /\ \A n \in 1..Len(who) : Append(who, u)[n] = who[n]
      /\ Append(who, u)[Len(who) + 1] = u
  BY <1>1, AppendProperties
<1>4. Len(who) \in Nat
  BY <1>1, LenProperties
<1>5. who' \in Seq(Users) /\ Len(who') = Len(who) + 1
  BY <1>2, <1>3
<1>6. live' \subseteq 1..Len(who')
  <2> DEFINE m == Len(who)
  <2>1. m \in Nat /\ live \subseteq 1..m /\ live' = live \cup {m + 1} /\ Len(who') = m + 1
    BY <1>1, <1>2, <1>4, <1>5
  <2> HIDE DEF m
  <2> QED
    BY <2>1
<1>7. who'[Len(who')] = u
  BY <1>2, <1>3, <1>5
<1>8. \A n \in 1..Len(who) : who'[n] = who[n]
  BY <1>2, <1>3
<1> QED
  BY <1>4, <1>5, <1>6, <1>7, <1>8

LEMMA LoginStep ==
    ASSUME ShellAssumption, TagBarAssumption, SInv, LoginDone
    PROVE  SInv'
<1>1. PICK u \in Users : u = signing
  BY DEF LoginDone
<1>2. /\ IssueTo(u) /\ Go(SetToken(u), Top) /\ UNCHANGED <<route, overtaken, select>>
      /\ named' \in BOOLEAN /\ tags' = WithTop(<<Home>>)
      /\ signing' \in {NoUser, Pushing}
  BY <1>1 DEF LoginDone, FillMenus, history
<1>3. /\ who' \in Seq(Users) /\ Len(who') \in Nat /\ live' \subseteq 1..Len(who')
      /\ who'[Len(who')] = u
  BY <1>2, IssueStep
<1> DEFINE b == SetToken(u)
<1>4. b \in Storage /\ b.info = u /\ b.token = Len(who') /\ LoggedIn(b)
  BY <1>3, RoutesApart DEF SetToken, Storage, LoggedIn
<1>5. Go(b, Top)
  BY <1>2
<1>6. Top \in Routes \cup {Home} /\ route \in Routes /\ Top # "login" /\ u # Blank
  BY RoutesApart DEF SInv, ShellTypes, Routes
<1> HIDE DEF b
<1>7. /\ browser' \in {b, LoggedOut} /\ browser' \in Storage
      /\ going' \in Routes \cup {NoTag} /\ PagesFit'
  BY <1>2, <1>4, <1>5, <1>6, GoFits
<1>8. <<Home>> \in Seq(TagPaths) /\ Top \in TagPaths
  BY RoutesApart DEF TagPaths
<1>9. tags' \in Seq(TagPaths)
  BY <1>2, <1>8, PushType DEF WithTop
<1>10. ShellTypes'
  BY <1>2, <1>3, <1>4, <1>6, <1>7, <1>9, RoutesApart DEF SInv, ShellTypes, LoggedOut
<1>11. BlankIsOvertaken' /\ MenuIsInLayout' /\ RolesMatchToken'
  BY <1>2, <1>3, <1>4, <1>6, <1>7, RoutesApart
  DEF SInv, BlankIsOvertaken, MenuIsInLayout, RolesMatchToken, LoggedOut
<1> QED
  BY <1>7, <1>10, <1>11 DEF SInv

LEMMA ArriveStep ==
    ASSUME ShellAssumption, TagBarAssumption, SInv, Arrive
    PROVE  SInv'
<1>1. going \in Routes /\ route' = going /\ going' = NoTag
  BY DEF Arrive, SInv, ShellTypes
<1>2. tags' \in Seq(TagPaths)
  BY <1>1, PushType DEF Arrive, Listed, Told, TagPaths, SInv, ShellTypes
<1>3. select' \in {select, NoTag} /\ (select' # NoTag => going \notin Fullscreen)
  BY DEF Arrive
<1>4. ShellTypes'
  BY <1>1, <1>2, <1>3 DEF Arrive, SInv, ShellTypes, service, history
<1>5. PagesFit'
  BY <1>1, RoutesApart DEF Arrive, SInv, PagesFit, Fits, LoggedIn, history
<1>6. BlankIsOvertaken' /\ MenuIsInLayout' /\ RolesMatchToken'
  BY <1>1, <1>3
  DEF Arrive, SInv, BlankIsOvertaken, MenuIsInLayout, RolesMatchToken, service, history
<1> QED
  BY <1>4, <1>5, <1>6 DEF SInv

LEMMA TotpStep ==
    ASSUME ShellAssumption, TagBarAssumption, SInv, NEW s \in Slots, TotpDone(s)
    PROVE  SInv'
<1> DEFINE u == who[calls[s].token]
<1>1. u \in Users
  BY LenProperties, ElementOfSeq DEF TotpDone, SInv, ShellTypes
<1>2. PICK roles \in Users \cup {NoUser, Blank} :
        /\ browser' = SetToken(roles)
        /\ browser.info = u => roles = u
        /\ roles = Blank => browser.info # u
  <2>1. browser.info \in Users \cup {NoUser, Blank} /\ named \in BOOLEAN
    BY DEF SInv, ShellTypes, Storage
  <2> DEFINE r == IF named THEN u ELSE IF browser.info = NoUser THEN Blank ELSE browser.info
  <2>2. /\ r \in Users \cup {NoUser, Blank}
        /\ (browser.info = u => r = u) /\ (r = Blank => browser.info # u)
    <3> HIDE DEF u
    <3> QED
      BY <1>1, <2>1, RoutesApart
  <2>3. browser' = SetToken(r)
    BY DEF TotpDone
  <2> HIDE DEF r
  <2> QED
    BY <2>2, <2>3
<1>3. IssueTo(u) /\ overtaken' = (overtaken \/ browser.info # u)
  BY DEF TotpDone
<1>4. /\ named' \in BOOLEAN
      /\ UNCHANGED <<route, going, signing, foreign, tags, select>>
  BY DEF TotpDone, tagVars, SInv, ShellTypes
<1> HIDE DEF u
<1>5. /\ who' \in Seq(Users) /\ Len(who') \in Nat /\ live' \subseteq 1..Len(who')
      /\ who'[Len(who')] = u
  BY <1>1, <1>3, IssueStep
<1>6. browser' \in Storage /\ browser'.info = roles /\ browser'.token = Len(who') /\ browser'.multi
  BY <1>2, <1>5 DEF SetToken, Storage
<1>7. ShellTypes'
  BY <1>4, <1>5, <1>6 DEF SInv, ShellTypes
<1>8. BlankIsOvertaken' /\ MenuIsInLayout' /\ RolesMatchToken'
  BY <1>2, <1>3, <1>4, <1>5, <1>6 DEF SInv, BlankIsOvertaken, MenuIsInLayout, RolesMatchToken
<1>9. ASSUME ~overtaken' PROVE browser'.info = browser.info /\ ~overtaken
  BY <1>2, <1>3, <1>6, <1>9
<1>10. PagesFit'
  BY <1>4, <1>6, <1>9 DEF SInv, PagesFit, Fits, LoggedIn
<1> QED
  BY <1>7, <1>8, <1>10 DEF SInv

LEMMA OtherTabStep ==
    ASSUME ShellAssumption, TagBarAssumption, SInv,
           OtherTabLogout \/ \E u \in Users : OtherTabLogin(u)
    PROVE  SInv'
<1>1. CASE OtherTabLogout
  <2>1. browser' = LoggedOut /\ foreign' /\ Len(who) \in Nat
    BY <1>1, LenProperties DEF OtherTabLogout, SInv, ShellTypes
  <2> QED
    BY <1>1, <2>1, RoutesApart
    DEF OtherTabLogout, LoggedOut, Mishap, service, work, tagVars, SInv, ShellTypes,
        BlankIsOvertaken, MenuIsInLayout, PagesFit, RolesMatchToken
<1>2. ASSUME NEW u \in Users, OtherTabLogin(u)
      PROVE  SInv'
  <2>1. /\ who' \in Seq(Users) /\ Len(who') \in Nat /\ live' \subseteq 1..Len(who')
        /\ who'[Len(who')] = u
    BY <1>2, IssueStep DEF OtherTabLogin
  <2>2. browser' \in Storage /\ browser'.info = u /\ browser'.token = Len(who')
    BY <1>2, <2>1 DEF OtherTabLogin, SetToken, Storage
  <2> QED
    BY <1>2, <2>1, <2>2, RoutesApart
    DEF OtherTabLogin, work, tagVars, SInv, ShellTypes, BlankIsOvertaken, MenuIsInLayout,
        PagesFit, RolesMatchToken
<1> QED
  BY <1>1, <1>2

LEMMA CookieStep ==
    ASSUME SInv, CookieExpires
    PROVE  SInv'
<1>1. /\ browser' \in Storage /\ browser'.token = 0
      /\ browser'.info = browser.info /\ browser'.multi = browser.multi
  BY DEF CookieExpires, SInv, ShellTypes, Storage
<1>2. Len(who) \in Nat
  BY LenProperties DEF SInv, ShellTypes
<1>3. UNCHANGED <<named, route, going, signing, who, live, foreign, overtaken, tags, select>>
  BY DEF CookieExpires, work, service, tagVars
<1> QED
  BY <1>1, <1>2, <1>3
  DEF SInv, ShellTypes, BlankIsOvertaken, MenuIsInLayout, PagesFit, Fits, LoggedIn, RolesMatchToken

\* The guard of a new tab works on what the storage holds.
LEMMA ReloadStep ==
    ASSUME ShellAssumption, TagBarAssumption, SInv, Reload
    PROVE  SInv'
<1>1. PICK multi \in BOOLEAN :
        LET b  == [browser EXCEPT !.multi = multi]
            to == Guard(b, IF route = "login" THEN Top ELSE route)
        IN  browser' = Completed(Kept(b, route)) /\ route' = to
  <2>1. browser.multi \in BOOLEAN
    BY DEF SInv, ShellTypes, Storage
  <2> QED
    BY <2>1 DEF Reload
<1> DEFINE b    == [browser EXCEPT !.multi = multi]
           path == IF route = "login" THEN Top ELSE route
           kept == Kept(b, route)
<1>2. b \in Storage /\ b.token = browser.token /\ b.info = browser.info
  BY DEF SInv, ShellTypes, Storage
<1>3. browser' = Completed(kept) /\ route' = Guard(b, path)
  BY <1>1
<1>4. /\ going' = NoTag /\ signing' = NoUser /\ foreign' = FALSE /\ select' = NoTag
      /\ tags' = <<Home>> /\ named' \in BOOLEAN /\ UNCHANGED <<who, live, overtaken>>
  BY DEF Reload, FillMenus, service
<1>5. kept \in {b, LoggedOut} /\ (LoggedIn(b) => kept = b)
  BY DEF Kept
<1>6. route \in Routes /\ path \in Routes \cup {Home} /\ path # "login"
  BY RoutesApart DEF SInv, ShellTypes, Routes
<1> HIDE DEF b, path
<1>7. route' \in Routes
  BY <1>3, <1>6, GuardRoutes
<1>8. kept \in Storage /\ (kept.token = 0 \/ kept.token = browser.token)
  <2>1. LoggedOut \in Storage
    BY RoutesApart
  <2>2. LoggedOut.token = 0
    BY DEF LoggedOut
  <2> QED
    BY <1>2, <1>5, <2>1, <2>2
<1>9. kept.info # Blank \/ overtaken
  BY <1>2, <1>5, RoutesApart DEF LoggedOut, SInv, BlankIsOvertaken
<1>10. kept.token # 0 => kept = b
  BY <1>5 DEF LoggedOut
<1> HIDE DEF kept
<1>11. /\ browser' \in Storage /\ browser'.token = kept.token
       /\ kept.info # Blank => browser' = kept
  <2>1. browser.token # 0 => who[browser.token] \in Users
    BY ElementOfSeq, LenProperties DEF SInv, ShellTypes, Storage
  <2> QED
    BY <1>3, <1>8, <2>1 DEF Completed, Storage
<1>12. ShellTypes'
  <2>1. <<Home>> \in Seq(TagPaths) /\ Len(who) \in Nat
    BY LenProperties DEF TagPaths, SInv, ShellTypes
  <2> QED
    BY <1>4, <1>7, <1>8, <1>11, <2>1 DEF SInv, ShellTypes
<1>13. BlankIsOvertaken' /\ MenuIsInLayout'
  BY <1>4, <1>9, <1>11 DEF BlankIsOvertaken, MenuIsInLayout
<1>14. RolesMatchToken'
  BY <1>2, <1>4, <1>9, <1>10, <1>11 DEF SInv, RolesMatchToken
<1>15. PagesFit'
  <2> SUFFICES ASSUME ~overtaken, route' \in Pages
               PROVE  Fits(route)'
    BY <1>4, RoutesApart DEF PagesFit
  <2>1. b.info # Blank
    BY <1>2 DEF SInv, BlankIsOvertaken
  <2>2. LoggedIn(b) /\ (route' \in AdminPages => b.info \in Admins)
    BY <1>2, <1>3, <1>6, <2>1, GuardFits
  <2>3. browser' = b
    BY <1>5, <1>9, <1>11, <2>2
  <2> QED
    BY <2>2, <2>3 DEF Fits, LoggedIn
<1> QED
  BY <1>12, <1>13, <1>14, <1>15 DEF SInv

-----------------------------------------------------------------------------
(* The commands of the tags *)

LEMMA CloseStep ==
    ASSUME ShellAssumption, TagBarAssumption, SInv, NEW path \in TagPaths,
           NEW how \in {CloseThis, CloseLeft, CloseRight, CloseOther}, Close(path, how),
           select' \in {select, NoTag}, tagsUnchanged
    PROVE  SInv'
<1> DEFINE list == Remaining(tags, path, how)
           to   == Leads(list, path, how, route)
<1>1. tags \in Seq(TagPaths)
  BY DEF SInv, ShellTypes
<1>2. list \in Seq(TagPaths)
  BY <1>1, RemainingType
<1>3. to \in TagPaths \cup {NoTag}
  BY <1>2, LeadsType
<1>4. tags' = list /\ (IF to = NoTag THEN Stay ELSE Go(browser, to))
  BY DEF Close
<1> HIDE DEF list, to
<1>5. UNCHANGED <<named, route, signing, who, live, overtaken>>
  BY DEF tagsUnchanged, work, service, history
<1>6. CASE to = NoTag
  BY <1>2, <1>4, <1>5, <1>6
  DEF Stay, SInv, ShellTypes, BlankIsOvertaken, MenuIsInLayout, PagesFit, Fits, LoggedIn,
      RolesMatchToken
<1>7. CASE to # NoTag
  <2>1. to \in Routes \cup {Home} /\ to # "login"
    BY <1>3, <1>7, RoutesApart DEF TagPaths, Routes
  <2>2. /\ browser \in Storage /\ (browser.info = Blank => overtaken)
        /\ named' \in BOOLEAN /\ signing' \in Users \cup {NoUser, Pushing}
    BY <1>5 DEF SInv, ShellTypes, BlankIsOvertaken
  <2>3. Go(browser, to) /\ tags' \in Seq(TagPaths)
    BY <1>2, <1>4, <1>7
  <2> QED
    BY <1>5, <2>1, <2>2, <2>3, PushStep
<1> QED
  BY <1>6, <1>7

LEMMA CommandStep ==
    ASSUME ShellAssumption, TagBarAssumption, SInv, NEW key \in Commands, NEW path \in TagPaths,
           route \notin Fullscreen, Command(key, path)
    PROVE  SInv'
<1>1. select' = NoTag /\ tagsUnchanged
  BY Zenon DEF Command
<1>2. UNCHANGED <<named, route, signing, who, live, overtaken>>
  BY <1>1 DEF tagsUnchanged, work, service, history
<1>3. /\ browser \in Storage /\ (browser.info = Blank => overtaken)
      /\ named' \in BOOLEAN /\ signing' \in Users \cup {NoUser, Pushing}
      /\ route \in Routes /\ tags \in Seq(TagPaths)
  BY <1>2 DEF SInv, ShellTypes, BlankIsOvertaken
<1>4. CASE key = Refresh
  <2>0. key # CloseAll
    BY <1>4 DEF Refresh, CloseAll
  <2>1. /\ tags' = tags /\ browser' = Kept(browser, route)
        /\ going' = Guard(browser, route) /\ foreign' = FALSE
    BY <1>4, <2>0, Zenon DEF Command
  <2>2. going' \in Routes
    BY <1>3, <2>1, GuardRoutes
  <2>3. browser' \in {browser, LoggedOut} /\ (LoggedIn(browser) => browser' = browser)
    BY <2>1 DEF Kept
  <2>4. PagesFit'
    <3> SUFFICES ASSUME ~overtaken, going' \in Pages
                 PROVE  Fits(going)'
      BY <1>2, <2>2, RoutesApart DEF PagesFit
    <3>1. browser.info # Blank /\ route # "login"
      BY <1>3 DEF Fullscreen
    <3>2. LoggedIn(browser) /\ (going' \in AdminPages => browser.info \in Admins)
      BY <1>3, <2>1, <3>1, GuardFits
    <3> QED
      BY <2>3, <3>2 DEF Fits, LoggedIn
  <2>5. ShellTypes'
    <3>1. Len(who) \in Nat
      BY LenProperties DEF SInv, ShellTypes
    <3>2. browser' \in Storage /\ browser'.token <= Len(who)
      <4>1. LoggedOut \in Storage
        BY RoutesApart
      <4>2. LoggedOut.token = 0
        BY DEF LoggedOut
      <4> QED
        BY <2>3, <3>1, <4>1, <4>2 DEF SInv, ShellTypes
    <3> QED
      BY <1>1, <1>2, <1>3, <2>1, <2>2, <3>2 DEF SInv, ShellTypes
  <2>6. BlankIsOvertaken' /\ MenuIsInLayout' /\ RolesMatchToken'
    BY <1>1, <1>2, <1>3, <2>3, RoutesApart
    DEF SInv, BlankIsOvertaken, MenuIsInLayout, RolesMatchToken, LoggedOut
  <2> QED
    BY <2>4, <2>5, <2>6 DEF SInv
<1>5. CASE key = CloseAll
  <2>0. key # Refresh
    BY <1>5 DEF Refresh, CloseAll
  <2>1. /\ tags' = Splice(tags, 1, Len(tags))
        /\ IF menus THEN Go(browser, Top) ELSE Stay
    BY <1>5, <2>0, Zenon DEF Command
  <2>2. tags' \in Seq(TagPaths)
    BY <1>3, <2>1, SpliceType, LenProperties
  <2>3. CASE menus
    <3>1. Go(browser, Top) /\ Top \in Routes \cup {Home} /\ Top # "login"
      BY <2>1, <2>3, RoutesApart DEF Routes
    <3> QED
      BY <1>1, <1>2, <1>3, <2>2, <3>1, PushStep
  <2>4. CASE ~menus
    BY <1>1, <1>2, <1>3, <2>1, <2>2, <2>4
    DEF Stay, SInv, ShellTypes, BlankIsOvertaken, MenuIsInLayout, PagesFit, Fits, LoggedIn,
        RolesMatchToken
  <2> QED
    BY <2>3, <2>4
<1>6. CASE key \notin {Refresh, CloseAll}
  <2>1. Close(path, key)
    BY <1>6, Zenon DEF Command
  <2>2. key \in {CloseThis, CloseLeft, CloseRight, CloseOther}
    BY <1>6 DEF Commands, Refresh, CloseThis, CloseLeft, CloseRight, CloseOther, CloseAll
  <2> QED
    BY <1>1, <2>1, <2>2, CloseStep
<1> QED
  BY <1>4, <1>5, <1>6

-----------------------------------------------------------------------------
(* All steps *)

\* Where a call is sent or answered, or the dialog used, beside the session.
LEMMA CallStep ==
    ASSUME ShellAssumption, SInv, NEW s \in Slots,
           ClickCall(s) \/ AnswerQuietly(s) \/ ClickTotp(s) \/ SetupDone(s) \/ ClickConfirm(s)
    PROVE  SInv'
<1>1. signing \in Users \cup {NoUser, Pushing}
  BY DEF SInv, ShellTypes
<1> QED
  BY <1>1, QuietStep
  DEF ClickCall, AnswerQuietly, ClickTotp, SetupDone, ClickConfirm, Stay, totpUnchanged,
      service, history, tagVars

LEMMA OtherQuietStep ==
    ASSUME ShellAssumption, SInv,
           \/ CloseTotp \/ LoginFails \/ (\E u \in Users : ClickLogin(u))
           \/ (\E n \in live : ServerExpires(n))
    PROVE  SInv'
<1>1. signing \in Users \cup {NoUser, Pushing}
  BY DEF SInv, ShellTypes
<1> QED
  BY <1>1, QuietStep
  DEF CloseTotp, LoginFails, ClickLogin, ServerExpires, Stay, totpUnchanged, Mishap,
      service, work, history, tagVars

LEMMA EndStep ==
    ASSUME ShellAssumption, TagBarAssumption, SInv,
           ClickLogout \/ ClickReset \/ \E s \in Slots : Answer401(s)
    PROVE  SInv'
<1>1. signing \in Users \cup {NoUser, Pushing} /\ named \in BOOLEAN
  BY DEF SInv, ShellTypes
<1>2. Go(LoggedOut, "login") /\ ResetRouter /\ named' \in BOOLEAN
  BY <1>1 DEF ClickLogout, ClickReset, Answer401, LogOut
<1>3. /\ signing' \in Users \cup {NoUser, Pushing}
      /\ UNCHANGED <<route, overtaken, who, live>>
  BY <1>1 DEF ClickLogout, ClickReset, Answer401, Released, work, service, history
<1> QED
  BY <1>2, <1>3, LogOutStep

LEMMA VisitStep ==
    ASSUME ShellAssumption, TagBarAssumption, SInv,
           (\E p \in Pages : Visit(p)) \/ (\E t \in ToSet(tags) : ClickTag(t))
    PROVE  SInv'
<1>1. PICK p \in Pages \cup {"notFound"} : Go(browser, p)
  BY DEF Visit, ClickTag
<1>2. /\ browser \in Storage /\ (browser.info = Blank => overtaken)
      /\ signing \in Users \cup {NoUser, Pushing} /\ named \in BOOLEAN /\ tags \in Seq(TagPaths)
  BY DEF SInv, ShellTypes, BlankIsOvertaken
<1>3. /\ UNCHANGED <<named, route, overtaken, who, live, tags>> /\ select' = NoTag
      /\ signing' \in {signing, NoUser}
  BY DEF Visit, ClickTag, Released, tagsUnchanged, service, work, history
<1>4. p \in Routes \cup {Home} /\ p # "login"
  BY RoutesApart DEF Routes
<1> QED
  BY <1>1, <1>2, <1>3, <1>4, PushStep

LEMMA TagStep ==
    ASSUME ShellAssumption, TagBarAssumption, SInv,
           \/ \E t \in ToSet(tags) : ClickCross(t) \/ OpenMenu(t)
           \/ \E key \in Commands : SelectCommand(key) \/ DropCommand(key)
    PROVE  SInv'
<1>1. tags \in Seq(TagPaths) /\ route \in Routes /\ select \in TagPaths \cup {NoTag}
  BY DEF SInv, ShellTypes
<1>2. ToSet(tags) \subseteq TagPaths
  BY <1>1, ElementOfSeq, LenProperties DEF ToSet
<1>3. ASSUME NEW t \in ToSet(tags), ClickCross(t)
      PROVE  SInv'
  BY <1>2, <1>3, CloseStep DEF ClickCross
<1>4. ASSUME NEW t \in ToSet(tags), OpenMenu(t)
      PROVE  SInv'
  BY <1>2, <1>4
  DEF OpenMenu, AtHand, Stay, tagsUnchanged, service, work, history, SInv, ShellTypes,
      BlankIsOvertaken, MenuIsInLayout, PagesFit, Fits, LoggedIn, RolesMatchToken
<1>5. ASSUME NEW key \in Commands, SelectCommand(key)
      PROVE  SInv'
  <2>1. select \in TagPaths /\ route \notin Fullscreen
    BY <1>1, <1>5 DEF SelectCommand, SInv, MenuIsInLayout
  <2> QED
    BY <1>5, <2>1, CommandStep DEF SelectCommand
<1>6. ASSUME NEW key \in Commands, DropCommand(key)
      PROVE  SInv'
  <2>1. route \in TagPaths /\ route \notin Fullscreen
    BY <1>1, <1>6, RoutesApart DEF DropCommand, AtHand
  <2> QED
    BY <1>6, <2>1, CommandStep DEF DropCommand
<1> QED
  BY <1>3, <1>4, <1>5, <1>6

LEMMA ShellInit ==
    ASSUME ShellAssumption, TagBarAssumption, Init
    PROVE  SInv
<1>1. <<Home>> \in Seq(TagPaths) /\ <<>> \in Seq(Users) /\ Len(<<>>) = 0
  BY DEF TagPaths
<1>2. browser.token = 0 /\ browser.info = NoUser /\ browser \in Storage
  BY RoutesApart DEF Init, LoggedOut
<1>3. ShellTypes
  <2>1. who \in Seq(Users) /\ browser.token <= Len(who) /\ live \subseteq 1..Len(who)
    BY <1>1, <1>2 DEF Init
  <2>2. tags \in Seq(TagPaths) /\ select \in TagPaths \cup {NoTag}
    BY <1>1 DEF Init
  <2>3. route \in Routes /\ going \in Routes \cup {NoTag}
    BY DEF Init, Routes, Fullscreen
  <2> QED
    BY <1>2, <2>1, <2>2, <2>3 DEF Init, ShellTypes
<1>4. BlankIsOvertaken /\ MenuIsInLayout /\ PagesFit /\ RolesMatchToken
  BY <1>2, RoutesApart
  DEF Init, BlankIsOvertaken, MenuIsInLayout, PagesFit, RolesMatchToken, Fullscreen
<1> QED
  BY <1>3, <1>4 DEF SInv

LEMMA ShellStep ==
    ASSUME ShellAssumption, TagBarAssumption, SInv, [Next]_shellVars
    PROVE  SInv'
<1>1. CASE Arrive
  BY <1>1, ArriveStep
<1>2. CASE (\E p \in Pages : Visit(p)) \/ (\E t \in ToSet(tags) : ClickTag(t))
  BY <1>2, VisitStep
<1>3. ASSUME NEW s \in Slots,
             ClickCall(s) \/ AnswerQuietly(s) \/ ClickTotp(s) \/ SetupDone(s) \/ ClickConfirm(s)
      PROVE  SInv'
  BY <1>3, CallStep
<1>4. CASE \/ CloseTotp \/ LoginFails \/ (\E u \in Users : ClickLogin(u))
           \/ (\E n \in live : ServerExpires(n))
  BY <1>4, OtherQuietStep
<1>5. CASE ClickLogout \/ ClickReset \/ \E s \in Slots : Answer401(s)
  BY <1>5, EndStep
<1>6. ASSUME NEW s \in Slots, TotpDone(s)
      PROVE  SInv'
  BY <1>6, TotpStep
<1>7. CASE LoginDone
  BY <1>7, LoginStep
<1>8. CASE CookieExpires
  BY <1>8, CookieStep
<1>9. CASE Reload
  BY <1>9, ReloadStep
<1>10. CASE OtherTabLogout \/ \E u \in Users : OtherTabLogin(u)
  BY <1>10, OtherTabStep
<1>11. CASE \/ \E t \in ToSet(tags) : ClickCross(t) \/ OpenMenu(t)
            \/ \E key \in Commands : SelectCommand(key) \/ DropCommand(key)
  BY <1>11, TagStep
<1>12. CASE UNCHANGED shellVars
  BY <1>12
  DEF shellVars, work, service, history, tagVars, SInv, ShellTypes, BlankIsOvertaken,
      MenuIsInLayout, PagesFit, Fits, LoggedIn, RolesMatchToken
<1> QED
  BY <1>1, <1>2, <1>3, <1>4, <1>5, <1>6, <1>7, <1>8, <1>9, <1>10, <1>11, <1>12 DEF Next

-----------------------------------------------------------------------------

\* The page that is on its way, or there, is one that the guard lets through,
\* in every state that a tab of the console gets into.
THEOREM ShellInvariant == Spec => []SInv
<1>1. Init => SInv
  BY ShellInit, ShellAssumption, TagBarAssumption
<1>2. SInv /\ [Next]_shellVars => SInv'
  BY ShellStep, ShellAssumption, TagBarAssumption
<1> QED
  BY <1>1, <1>2, PTL DEF Spec

\* The roles in user-info are those of the token, and a page is on the screen
\* only in a session whose role may see it: the router's guard, the 401
\* interceptor, the logouts and the reload together keep it so.
THEOREM SessionsGuarded == Spec => []SessionGuarded
<1>1. SInv => SessionGuarded
  BY RoutesApart, ShellAssumption, TagBarAssumption
  DEF SInv, PagesFit, Fits, SessionGuarded, PageNeedsSession
<1> QED
  BY <1>1, ShellInvariant, PTL

-----------------------------------------------------------------------------
(* Which tags a step leaves *)

Closing == {CloseThis, CloseLeft, CloseRight, CloseOther}

\* Every tag but the home tag is there once, and the home tags come first.
Orderly(list) ==
    /\ \A i, j \in DOMAIN list : list[i] = list[j] /\ list[i] # Home => i = j
    /\ \A i, j \in DOMAIN list : list[j] = Home /\ i <= j => list[i] = Home

\* `rest` is `list` without the tags after the first `from` of it, up to `past`.
Without(rest, list, from, past) ==
    /\ from \in 0..Len(list) /\ past \in from..Len(list)
    /\ Len(rest) = from + Len(list) - past
    /\ \A i \in 1..Len(rest) : rest[i] = list[IF i <= from THEN i ELSE i + past - from]

LEMMA HasTagIndex ==
    ASSUME NEW T, NEW list \in Seq(T), NEW path
    PROVE  HasTag(list, path) <=> \E i \in 1..Len(list) : list[i] = path
BY LenProperties DEF HasTag, ToSet

\* The index of the code, from 0, or -1.
LEMMA IndexOfTag ==
    ASSUME NEW T, NEW list \in Seq(T), NEW path
    PROVE  /\ HasTag(list, path) =>
                 IndexOf(list, path) + 1 \in 1..Len(list) /\ list[IndexOf(list, path) + 1] = path
           /\ ~HasTag(list, path) => IndexOf(list, path) = -1
<1> DEFINE I == {i \in 1..Len(list) : list[i] = path}
<1>1. SelectInSeq(list, LAMBDA t : t = path) = IF I # {} THEN Min(I) ELSE 0
  BY DEF SelectInSeq
<1>2. HasTag(list, path) => I # {}
  BY HasTagIndex
<1>3. I # {} => Min(I) \in I
  <2>1. Len(list) \in Nat
    BY LenProperties
  <2>2. I \in SUBSET Nat
    BY <2>1
  <2> QED
    BY <2>2, MinIsLeast
<1>4. ASSUME HasTag(list, path)
      PROVE  IndexOf(list, path) + 1 \in I
  <2> DEFINE m == Min(I)
  <2>1. m \in I /\ IndexOf(list, path) = m - 1
    BY <1>1, <1>2, <1>3, <1>4 DEF IndexOf
  <2>2. m \in Int
    BY <2>1, LenProperties
  <2>3. IndexOf(list, path) + 1 = m
    <3> HIDE DEF m
    <3> QED
      BY <2>1, <2>2
  <2> QED
    BY <2>1, <2>3
<1> QED
  BY <1>4 DEF IndexOf

\* Array.prototype.splice takes one stretch out; with a start that counts from
\* the left of a tag that is there, what is before it stays.
LEMMA SpliceTags ==
    ASSUME NEW T, NEW list \in Seq(T), NEW start \in Int, NEW length \in Int
    PROVE  \E from, past \in Int :
              /\ Without(Splice(list, start, length), list, from, past)
              /\ start >= 1 /\ Len(list) > 0 => from >= 1
<1> DEFINE from == IF start < 0 THEN IF start + Len(list) < 0 THEN 0 ELSE start + Len(list)
                   ELSE IF start > Len(list) THEN Len(list) ELSE start
           past == IF length < 0 THEN from
                   ELSE IF from + length > Len(list) THEN Len(list) ELSE from + length
           left == SubSeq(list, 1, from)
           right == SubSeq(list, past + 1, Len(list))
<1>1. Len(list) \in Nat /\ list \in [1..Len(list) -> T]
  BY LenProperties
<1>2. from \in 0..Len(list) /\ (start >= 1 /\ Len(list) > 0 => from >= 1)
  BY <1>1
<1>3. past \in 0..Len(list) /\ from <= past
  <2> HIDE DEF from
  <2> QED
    BY <1>1, <1>2
<1>4. Splice(list, start, length) = left \o right
  BY DEF Splice
<1> HIDE DEF from, past
<1>5. /\ left \in Seq(T) /\ Len(left) = from
      /\ \A i \in 1..from : left[i] = list[i]
  <2>1. \A i \in 1..from : list[i] \in T
    BY <1>1, <1>2
  <2>2. left \in Seq(T) /\ Len(left) = (IF 1 <= from THEN from - 1 + 1 ELSE 0)
        /\ \A i \in 1..(from - 1 + 1) : left[i] = list[1 + i - 1]
    BY <1>2, <2>1, SubSeqProperties
  <2> QED
    BY <1>1, <1>2, <2>2
<1>6. /\ right \in Seq(T) /\ Len(right) = Len(list) - past
      /\ \A i \in 1..(Len(list) - past) : right[i] = list[past + i]
  <2>1. \A i \in (past + 1)..Len(list) : list[i] \in T
    BY <1>1, <1>3
  <2>2. /\ right \in Seq(T)
        /\ Len(right) = IF past + 1 <= Len(list) THEN Len(list) - (past + 1) + 1 ELSE 0
        /\ \A i \in 1..(Len(list) - (past + 1) + 1) : right[i] = list[past + 1 + i - 1]
    BY <1>1, <1>3, <2>1, SubSeqProperties
  <2> DEFINE n == Len(list)
  <2> HIDE DEF left, right
  <2>3. /\ n - (past + 1) + 1 = n - past
        /\ past + 1 <= n \/ n - past = 0
        /\ \A i \in 1..(n - past) : past + 1 + i - 1 = past + i
    <3>1. n \in Nat /\ past \in 0..n
      BY <1>1, <1>3
    <3> HIDE DEF n
    <3> QED
      BY <3>1
  <2>4. Len(right) = Len(list) - past
    BY <2>2, <2>3
  <2>5. \A i \in 1..(Len(list) - past) : right[i] = list[past + i]
    BY <2>2, <2>3, Zenon
  <2> QED
    BY <2>2, <2>4, <2>5
<1> HIDE DEF left, right
<1>7. /\ Len(left \o right) = from + (Len(list) - past)
      /\ \A i \in 1..(from + (Len(list) - past)) :
            (left \o right)[i] = IF i <= from THEN left[i] ELSE right[i - from]
  <2>1. /\ Len(left \o right) = Len(left) + Len(right)
        /\ \A i \in 1..(Len(left) + Len(right)) :
              (left \o right)[i] = IF i <= Len(left) THEN left[i] ELSE right[i - Len(left)]
    BY <1>5, <1>6, ConcatProperties, Zenon
  <2> QED
    BY <1>5, <1>6, <2>1, Zenon
<1>8. from + (Len(list) - past) = from + Len(list) - past
  BY <1>1, <1>2, <1>3
<1>9. ASSUME NEW i \in 1..(from + Len(list) - past)
      PROVE  (left \o right)[i] = list[IF i <= from THEN i ELSE i + past - from]
  <2>1. i \in 1..(from + (Len(list) - past))
    BY <1>8
  <2>2. (left \o right)[i] = IF i <= from THEN left[i] ELSE right[i - from]
    BY <1>7, <2>1, Zenon
  <2>3. CASE i <= from
    <3>1. i \in 1..from
      BY <1>2, <2>1, <2>3
    <3> QED
      BY <1>5, <2>2, <2>3, <3>1
  <2>4. CASE ~(i <= from)
    <3>1. i - from \in 1..(Len(list) - past) /\ past + (i - from) = i + past - from
      BY <1>1, <1>2, <1>3, <2>1, <2>4
    <3>2. right[i - from] = list[i + past - from]
      BY <1>6, <3>1
    <3> QED
      BY <2>2, <2>4, <3>2
  <2> QED
    BY <2>3, <2>4
<1> DEFINE result == left \o right
<1>10. Splice(list, start, length) = result /\ Len(result) = from + Len(list) - past
  BY <1>4, <1>7, <1>8
<1>11. \A i \in 1..Len(result) : result[i] = list[IF i <= from THEN i ELSE i + past - from]
  BY <1>9, <1>10
<1> HIDE DEF result
<1>12. Without(result, list, from, past) /\ from \in Int /\ past \in Int
  BY <1>1, <1>2, <1>3, <1>10, <1>11 DEF Without
<1> QED
  BY <1>2, <1>10, <1>12, Zenon

LEMMA SpliceOrderly ==
    ASSUME NEW list \in Seq(TagPaths), NEW start \in Int, NEW length \in Int, Orderly(list)
    PROVE  Orderly(Splice(list, start, length))
<1> DEFINE rest == Splice(list, start, length)
<1>1. PICK from, past \in Int : Without(rest, list, from, past)
  BY SpliceTags, Zenon
<1>2. Len(list) \in Nat /\ DOMAIN list = 1..Len(list)
  BY LenProperties
<1>3. DOMAIN rest = 1..Len(rest)
  BY SpliceType, LenProperties
<1> HIDE DEF rest
<1> DEFINE was(i) == IF i <= from THEN i ELSE i + past - from
           n == Len(list)
<1>4. /\ n \in Nat /\ from \in 0..n /\ past \in from..n /\ DOMAIN rest = 1..(from + n - past)
      /\ \A i \in DOMAIN rest : rest[i] = list[was(i)]
  BY <1>1, <1>2, <1>3 DEF Without
<1>5. \A i \in DOMAIN rest : was(i) \in 1..n
  <2> HIDE DEF n
  <2> QED
    BY <1>4
<1>6. \A i, j \in DOMAIN rest : (was(i) = was(j) => i = j) /\ (i <= j => was(i) <= was(j))
  <2> HIDE DEF n
  <2> QED
    BY <1>4
<1> HIDE DEF was
<1>7. ASSUME NEW i \in DOMAIN rest, NEW j \in DOMAIN rest
      PROVE  /\ rest[i] = rest[j] /\ rest[i] # Home => i = j
             /\ rest[j] = Home /\ i <= j => rest[i] = Home
  <2>1. was(i) \in DOMAIN list /\ was(j) \in DOMAIN list
    BY <1>2, <1>5
  <2> QED
    BY <1>4, <1>6, <2>1, Zenon DEF Orderly
<1>8. Orderly(rest)
  BY <1>7 DEF Orderly
<1> QED
  BY <1>8 DEF rest

LEMMA SpliceKeepsFirst ==
    ASSUME NEW list \in Seq(TagPaths), NEW start \in Int, NEW length \in Int, start >= 1,
           Orderly(list), HasTag(list, Home)
    PROVE  HasTag(Splice(list, start, length), Home)
<1>1. PICK h \in 1..Len(list) : list[h] = Home
  BY HasTagIndex
<1>2. Len(list) \in Nat /\ DOMAIN list = 1..Len(list)
  BY LenProperties
<1>3. 1 \in 1..Len(list) /\ list[1] = Home
  BY <1>1, <1>2 DEF Orderly
<1> DEFINE rest == Splice(list, start, length)
<1>4. PICK from, past \in Int :
         Without(rest, list, from, past) /\ (start >= 1 /\ Len(list) > 0 => from >= 1)
  BY SpliceTags, Zenon
<1>5. rest \in Seq(TagPaths)
  BY SpliceType
<1> HIDE DEF rest
<1>6. 1 \in 1..Len(rest) /\ rest[1] = list[1]
  <2> DEFINE n == Len(list)
  <2>1. /\ n \in Nat /\ n >= 1 /\ from \in 1..n /\ past \in from..n
        /\ Len(rest) = from + n - past
        /\ \A i \in 1..Len(rest) : rest[i] = list[IF i <= from THEN i ELSE i + past - from]
    BY <1>2, <1>3, <1>4 DEF Without
  <2> HIDE DEF n
  <2>2. 1 \in 1..Len(rest) /\ 1 <= from
    BY <2>1
  <2> QED
    BY <2>1, <2>2
<1> QED
  BY <1>3, <1>5, <1>6, HasTagIndex DEF rest

LEMMA PushOrderly ==
    ASSUME NEW list \in Seq(TagPaths), NEW path \in TagPaths \ {Home}, Orderly(list)
    PROVE  Orderly(Push(list, path))
<1>1. CASE HasTag(list, path)
  BY <1>1 DEF Push
<1>2. CASE ~HasTag(list, path)
  <2>1. Push(list, path) = Append(list, path)
    BY <1>2 DEF Push
  <2>2. Len(list) \in Nat /\ DOMAIN list = 1..Len(list)
    BY LenProperties
  <2>3. /\ DOMAIN Append(list, path) = 1..(Len(list) + 1)
        /\ \A i \in 1..Len(list) : Append(list, path)[i] = list[i]
        /\ Append(list, path)[Len(list) + 1] = path
    BY <2>2, AppendProperties, LenProperties
  <2>4. \A i \in 1..Len(list) : list[i] # path
    BY <1>2, HasTagIndex
  <2>5. \A i \in DOMAIN Append(list, path) : i \in 1..Len(list) \/ i = Len(list) + 1
    BY <2>2, <2>3
  <2>6. \A i \in 1..Len(list) : ~(Len(list) + 1 <= i)
    BY <2>2
  <2> QED
    BY <2>1, <2>2, <2>3, <2>4, <2>5, <2>6 DEF Orderly
<1> QED
  BY <1>1, <1>2

LEMMA RemainingOrderly ==
    ASSUME NEW list \in Seq(TagPaths), NEW path \in TagPaths, NEW how \in Closing, Orderly(list)
    PROVE  Orderly(Remaining(list, path, how))
<1> DEFINE i == IndexOf(list, path)
<1>1. i \in Int /\ Len(list) \in Int
  BY IndexType, LenProperties
<1>2. /\ Orderly(Splice(list, i, 1))
      /\ Orderly(Splice(list, 1, i - 1))
      /\ Orderly(Splice(list, i + 1, Len(list)))
  <2> HIDE DEF i
  <2>1. i - 1 \in Int /\ i + 1 \in Int
    BY <1>1
  <2> QED
    BY <1>1, <2>1, SpliceOrderly
<1>3. Orderly(<<Home, path>>)
  BY DEF Orderly
<1> QED
  BY <1>2, <1>3 DEF Remaining, Closing, CloseThis, CloseLeft, CloseRight, CloseOther

\* The home tag goes in the closing of a tag that is not in the bar, or its own.
LEMMA RemainingKeepsHome ==
    ASSUME NEW list \in Seq(TagPaths), NEW path \in TagPaths, NEW how \in Closing, Orderly(list),
           HasTag(list, Home), HasTag(list, path), path # Home
    PROVE  HasTag(Remaining(list, path, how), Home)
<1> DEFINE i == IndexOf(list, path)
<1>1. i + 1 \in 1..Len(list) /\ list[i + 1] = path /\ i \in Int
  BY IndexOfTag, IndexType
<1>2. PICK h \in 1..Len(list) : list[h] = Home
  BY HasTagIndex
<1>3. Len(list) \in Nat /\ DOMAIN list = 1..Len(list)
  BY LenProperties
<1>4. list[1] = Home
  BY <1>2, <1>3 DEF Orderly
<1>5. i >= 1
  <2> HIDE DEF i
  <2>1. i # 0
    BY <1>1, <1>4
  <2> QED
    BY <1>1, <1>3, <2>1
<1>6. /\ HasTag(Splice(list, i, 1), Home)
      /\ HasTag(Splice(list, 1, i - 1), Home)
      /\ HasTag(Splice(list, i + 1, Len(list)), Home)
  <2> HIDE DEF i
  <2>1. i - 1 \in Int /\ i + 1 \in Int /\ i + 1 >= 1
    BY <1>1, <1>5
  <2> QED
    BY <1>1, <1>3, <1>5, <2>1, SpliceKeepsFirst
<1>7. HasTag(<<Home, path>>, Home)
  BY DEF HasTag, ToSet
<1> QED
  BY <1>6, <1>7 DEF Remaining, Closing, CloseThis, CloseLeft, CloseRight, CloseOther

\* What a step makes of the tags.
TagsMove ==
    \/ tags' \in {tags, <<Home>>, WithTop(<<Home>>), Splice(tags, 1, Len(tags))}
    \/ \E page \in Pages : tags' = Push(tags, page)
    \/ \E t \in TagPaths : IndexOf(tags, t) > 0 /\ tags' = Remaining(tags, t, CloseThis)
    \/ \E path \in {route, select} \ {NoTag}, how \in Closing :
          path \in TagPaths /\ tags' = Remaining(tags, path, how)

LEMMA CommandTags ==
    ASSUME NEW key \in Commands, NEW path, Command(key, path)
    PROVE  \/ tags' \in {tags, Splice(tags, 1, Len(tags))}
           \/ \E how \in Closing : tags' = Remaining(tags, path, how)
<1>1. CASE key = Refresh
  <2>1. key # CloseAll
    BY <1>1 DEF Refresh, CloseAll
  <2> QED
    BY <1>1, <2>1, Zenon DEF Command
<1>2. CASE key = CloseAll
  <2>1. key # Refresh
    BY <1>2 DEF Refresh, CloseAll
  <2>2. tags' = Splice(tags, 1, Len(tags))
    BY <1>2, <2>1, Zenon DEF Command
  <2> QED
    BY <2>2
<1>3. CASE key \notin {Refresh, CloseAll}
  <2>1. Close(path, key)
    BY <1>3, Zenon DEF Command
  <2>2. key \in Closing
    BY <1>3
    DEF Closing, Commands, Refresh, CloseThis, CloseLeft, CloseRight, CloseOther, CloseAll
  <2>3. tags' = Remaining(tags, path, key)
    BY <2>1, Zenon DEF Close
  <2> QED
    BY <2>2, <2>3
<1> QED
  BY <1>1, <1>2, <1>3

LEMMA TagsStep ==
    ASSUME ShellAssumption, TagBarAssumption, SInv, [Next]_shellVars
    PROVE  TagsMove
<1>1. tags \in Seq(TagPaths) /\ route \in Routes /\ select \in TagPaths \cup {NoTag}
  BY DEF SInv, ShellTypes
<1>2. ToSet(tags) \subseteq TagPaths
  BY <1>1, ElementOfSeq, LenProperties DEF ToSet
<1>3. CASE Arrive
  BY <1>3 DEF Arrive, Listed, Told, TagsMove
<1>4. CASE LoginDone
  BY <1>4 DEF LoginDone, FillMenus, TagsMove
<1>5. CASE ClickLogout \/ ClickReset \/ \E s \in Slots : Answer401(s)
  BY <1>5 DEF ClickLogout, ClickReset, Answer401, LogOut, ResetRouter, TagsMove
<1>6. CASE Reload
  BY <1>6 DEF Reload, FillMenus, TagsMove
<1>7. ASSUME NEW t \in ToSet(tags), ClickCross(t)
      PROVE  TagsMove
  <2>1. IndexOf(tags, t) > 0 /\ tags' = Remaining(tags, t, CloseThis)
    BY <1>7, Zenon DEF ClickCross, Close
  <2> QED
    BY <1>2, <2>1 DEF TagsMove
<1>8. ASSUME NEW key \in Commands, SelectCommand(key)
      PROVE  TagsMove
  BY <1>1, <1>8, CommandTags DEF SelectCommand, TagsMove
<1>9. ASSUME NEW key \in Commands, DropCommand(key)
      PROVE  TagsMove
  <2>1. route \in TagPaths \ {NoTag}
    BY <1>1, <1>9, RoutesApart DEF DropCommand, AtHand
  <2> QED
    BY <1>9, <2>1, CommandTags DEF DropCommand, TagsMove
<1>10. ASSUME NEW t \in ToSet(tags), ClickTag(t) \/ OpenMenu(t)
       PROVE  TagsMove
  BY <1>10 DEF ClickTag, OpenMenu, TagsMove
<1>11. ASSUME NEW s \in Slots,
              \/ ClickCall(s) \/ AnswerQuietly(s) \/ ClickTotp(s) \/ SetupDone(s)
              \/ ClickConfirm(s) \/ TotpDone(s)
       PROVE  TagsMove
  BY <1>11
  DEF ClickCall, AnswerQuietly, ClickTotp, SetupDone, ClickConfirm, TotpDone, totpUnchanged,
      tagVars, TagsMove
<1>12. CASE \/ CloseTotp \/ LoginFails \/ (\E u \in Users : ClickLogin(u) \/ OtherTabLogin(u))
            \/ (\E n \in live : ServerExpires(n)) \/ (\E p \in Pages : Visit(p))
            \/ CookieExpires \/ OtherTabLogout \/ UNCHANGED shellVars
  BY <1>12
  DEF CloseTotp, LoginFails, ClickLogin, OtherTabLogin, ServerExpires, Visit, CookieExpires,
      OtherTabLogout, totpUnchanged, tagVars, shellVars, TagsMove
<1> QED
  BY <1>3, <1>4, <1>5, <1>6, <1>7, <1>8, <1>9, <1>10, <1>11, <1>12 DEF Next

LEMMA OrderlyStep ==
    ASSUME ShellAssumption, TagBarAssumption, tags \in Seq(TagPaths), Orderly(tags), TagsMove
    PROVE  Orderly(tags)'
<1>1. <<Home>> \in Seq(TagPaths) /\ Orderly(<<Home>>)
  BY DEF TagPaths, Orderly
<1>2. Top \in TagPaths \ {Home} /\ Pages \subseteq TagPaths \ {Home}
  BY DEF TagBarAssumption, TagPaths
<1>3. Len(tags) \in Int
  BY LenProperties
<1>4. CASE tags' \in {tags, <<Home>>, WithTop(<<Home>>), Splice(tags, 1, Len(tags))}
  <2>1. WithTop(<<Home>>) = Push(<<Home>>, Top)
    BY DEF WithTop
  <2>2. Orderly(Push(<<Home>>, Top))
    BY <1>1, <1>2, PushOrderly
  <2>3. Orderly(Splice(tags, 1, Len(tags)))
    BY <1>3, SpliceOrderly
  <2> QED
    BY <1>1, <1>4, <2>1, <2>2, <2>3
<1>5. ASSUME NEW page \in Pages, tags' = Push(tags, page)
      PROVE  Orderly(tags')
  BY <1>2, <1>5, PushOrderly
<1>6. ASSUME NEW t \in TagPaths, NEW how \in Closing, tags' = Remaining(tags, t, how)
      PROVE  Orderly(tags')
  BY <1>6, RemainingOrderly
<1> QED
  BY <1>4, <1>5, <1>6 DEF TagsMove, Closing

LEMMA HomeStep ==
    ASSUME ShellAssumption, TagBarAssumption, route \in Routes,
           tags \in Seq(TagPaths), Orderly(tags), TagsMove,
           HasTag(tags, Home), ~HasTag(tags', Home)
    PROVE  \/ ~HasTag(tags, route)
           \/ select # NoTag /\ (select = Home \/ ~HasTag(tags, select))
<1>1. HasTag(<<Home>>, Home)
  BY DEF HasTag, ToSet
<1>2. \A list \in Seq(TagPaths), page \in TagPaths :
         HasTag(list, Home) => HasTag(Push(list, page), Home)
  <2> SUFFICES ASSUME NEW list \in Seq(TagPaths), NEW page \in TagPaths, HasTag(list, Home)
               PROVE  HasTag(Push(list, page), Home)
    OBVIOUS
  <2>1. PICK i \in 1..Len(list) : list[i] = Home
    BY HasTagIndex
  <2>2. CASE HasTag(list, page)
    BY <2>2 DEF Push
  <2>3. CASE ~HasTag(list, page)
    <3>1. Append(list, page)[i] = Home /\ i \in 1..Len(Append(list, page))
      BY <2>1, AppendProperties, LenProperties
    <3> QED
      BY <2>3, <3>1, AppendProperties, HasTagIndex DEF Push
  <2> QED
    BY <2>2, <2>3
<1>3. <<Home>> \in Seq(TagPaths) /\ Top \in TagPaths /\ Pages \subseteq TagPaths
  BY RoutesApart DEF TagPaths
<1>4. Len(tags) \in Int
  BY LenProperties
<1>5. HasTag(WithTop(<<Home>>), Home) /\ HasTag(Splice(tags, 1, Len(tags)), Home)
  <2>1. WithTop(<<Home>>) = Push(<<Home>>, Top)
    BY DEF WithTop
  <2>2. HasTag(Push(<<Home>>, Top), Home)
    BY <1>1, <1>2, <1>3
  <2>3. HasTag(Splice(tags, 1, Len(tags)), Home)
    BY <1>4, SpliceKeepsFirst
  <2> QED
    BY <2>1, <2>2, <2>3
<1>6. tags' \notin {tags, <<Home>>, WithTop(<<Home>>), Splice(tags, 1, Len(tags))}
  BY <1>1, <1>5
<1>7. ~ \E page \in Pages : tags' = Push(tags, page)
  BY <1>2, <1>3
<1>8. ~ \E t \in TagPaths : IndexOf(tags, t) > 0 /\ tags' = Remaining(tags, t, CloseThis)
  <2> SUFFICES ASSUME NEW t \in TagPaths, IndexOf(tags, t) > 0,
                      tags' = Remaining(tags, t, CloseThis)
               PROVE  FALSE
    OBVIOUS
  <2>1. IndexOf(tags, t) \in Int /\ IndexOf(tags, t) >= 1
    BY IndexType
  <2>2. Remaining(tags, t, CloseThis) = Splice(tags, IndexOf(tags, t), 1)
    BY DEF Remaining, CloseThis, CloseLeft, CloseRight, CloseOther
  <2> QED
    BY <2>1, <2>2, SpliceKeepsFirst
<1>9. PICK path \in {route, select} \ {NoTag}, how \in Closing :
         path \in TagPaths /\ tags' = Remaining(tags, path, how)
  BY <1>6, <1>7, <1>8 DEF TagsMove
<1>10. ~HasTag(tags, path) \/ path = Home
  BY <1>9, RemainingKeepsHome
<1>11. route # Home
  BY DEF ShellAssumption, TagBarAssumption, Routes, Fullscreen
<1> QED
  BY <1>9, <1>10, <1>11

-----------------------------------------------------------------------------
(* The rest of the type invariant *)

CallRecords == [kind : {"none", "page", "setup", "confirm", "orphan"}, token : 0..MaxSessions]
MenuRecords == [hidden : SUBSET Commands, disabled : SUBSET Commands]

ShellBounds ==
    /\ menus \in BOOLEAN /\ foreign \in BOOLEAN /\ overtaken \in BOOLEAN
    /\ Len(who) <= MaxSessions /\ mishaps \in 0..MaxMishaps
    /\ calls \in [Slots -> CallRecords]
    /\ totp \in {"closed", "code", "codes"}
    /\ menu \in MenuRecords

LEMMA MenuForType ==
    ASSUME NEW list, NEW path
    PROVE  MenuFor(list, path) \in MenuRecords
BY DEF MenuFor, MenuRecords, Commands, Refresh, CloseThis, CloseLeft, CloseRight, CloseOther

LEMMA MenuTypes ==
    ASSUME menu \in MenuRecords
    PROVE  /\ NoMenu \in MenuRecords
           /\ \A list, path : ShowMenu(list, path) \in MenuRecords
           /\ \A tag, page : ContextMenu(tag, page) \in MenuRecords
<1>1. NoMenu \in MenuRecords
  BY DEF NoMenu, MenuRecords
<1>2. ASSUME NEW list, NEW path
      PROVE  ShowMenu(list, path) \in MenuRecords
  BY MenuForType DEF ShowMenu, MenuRecords
<1>3. ASSUME NEW tag, NEW page
      PROVE  ContextMenu(tag, page) \in MenuRecords
  <2>1. MenuFor(tags, tag) \in MenuRecords
    BY MenuForType
  <2>2. Refresh \in Commands /\ Commands \ {Refresh} \subseteq Commands
    BY DEF Commands, Refresh
  <2> QED
    BY <2>1, <2>2 DEF ContextMenu, MenuRecords
<1> QED
  BY <1>1, <1>2, <1>3

\* A step that neither issues a token nor takes a mishap nor opens anything.
LEMMA BoundsKept ==
    ASSUME ShellBounds, TagBarAssumption, UNCHANGED <<who, mishaps, overtaken>>,
           menus' \in BOOLEAN, foreign' \in BOOLEAN, calls' \in [Slots -> CallRecords],
           totp' \in {"closed", "code", "codes"}, menu' \in MenuRecords
    PROVE  ShellBounds'
BY DEF ShellBounds

LEMMA GoForeign ==
    ASSUME NEW b, NEW path, Go(b, path)
    PROVE  foreign' = FALSE
BY DEF Go

\* The slots: a call that is sent takes the token of the browser, an answer
\* frees its slot.
LEMMA SlotTypes ==
    ASSUME ShellAssumption, SInv, ShellBounds, NEW s \in Slots
    PROVE  /\ [calls EXCEPT ![s] = NoCall] \in [Slots -> CallRecords]
           /\ \A kind \in {"page", "setup", "confirm"} :
                 Send(s, kind) => calls' \in [Slots -> CallRecords]
<1>1. Len(who) \in Nat /\ Len(who) <= MaxSessions /\ MaxSessions \in Nat
  BY LenProperties DEF SInv, ShellTypes, ShellBounds, ShellAssumption
<1>2. browser.token \in 0..MaxSessions
  BY <1>1 DEF SInv, ShellTypes, Storage
<1>3. NoCall \in CallRecords
  BY <1>1 DEF NoCall, CallRecords
<1>4. calls \in [Slots -> CallRecords]
  BY DEF ShellBounds
<1>5. \A kind \in {"page", "setup", "confirm"} :
         [kind |-> kind, token |-> browser.token] \in CallRecords
  BY <1>2 DEF CallRecords
<1> QED
  BY <1>3, <1>4, <1>5 DEF Send

LEMMA BoundsInit ==
    ASSUME ShellAssumption, Init
    PROVE  ShellBounds
<1>1. NoCall \in CallRecords /\ NoMenu \in MenuRecords
  BY DEF NoCall, CallRecords, NoMenu, MenuRecords, ShellAssumption
<1>2. Len(who) <= MaxSessions /\ mishaps \in 0..MaxMishaps
  BY DEF Init, ShellAssumption
<1> QED
  BY <1>1, <1>2 DEF Init, ShellBounds

LEMMA BoundsStep ==
    ASSUME ShellAssumption, TagBarAssumption, SInv, ShellBounds, [Next]_shellVars
    PROVE  ShellBounds'
<1>1. /\ menus \in BOOLEAN /\ foreign \in BOOLEAN /\ overtaken \in BOOLEAN
      /\ Len(who) <= MaxSessions /\ mishaps \in 0..MaxMishaps /\ MaxMishaps \in Nat
      /\ calls \in [Slots -> CallRecords] /\ totp \in {"closed", "code", "codes"}
      /\ menu \in MenuRecords
  BY DEF ShellBounds, ShellAssumption
<1>2. /\ NoMenu \in MenuRecords
      /\ \A list, path : ShowMenu(list, path) \in MenuRecords
      /\ \A list, path : MenuFor(list, path) \in MenuRecords
      /\ \A tag, page : ContextMenu(tag, page) \in MenuRecords
  BY <1>1, MenuTypes, MenuForType
<1>3. \A s \in Slots : [calls EXCEPT ![s] = NoCall] \in [Slots -> CallRecords]
  BY SlotTypes
<1>4. [x \in Slots |-> NoCall] \in [Slots -> CallRecords]
  BY DEF NoCall, CallRecords, ShellAssumption
<1>5. \A n : mishaps < MaxMishaps /\ n = mishaps + 1 => n \in 0..MaxMishaps
  BY <1>1
<1>6. \A u \in Users : IssueTo(u) => Len(who') <= MaxSessions
  <2> SUFFICES ASSUME NEW u \in Users, IssueTo(u)
               PROVE  Len(who') <= MaxSessions
    OBVIOUS
  <2>1. Len(who') = Len(who) + 1 /\ Len(who) \in Nat
    BY IssueStep
  <2>2. Len(who) < MaxSessions /\ MaxSessions \in Nat
    BY DEF IssueTo, ShellAssumption
  <2> QED
    BY <2>1, <2>2
<1>7. CASE Arrive
  <2>1. calls' \in [Slots -> CallRecords]
    <3>1. \A c \in CallRecords : Left(c) \in CallRecords
      BY DEF Left, CallRecords
    <3> QED
      BY <1>1, <1>7, <3>1 DEF Arrive
  <2>2. menu' \in MenuRecords
    BY <1>1, <1>2, <1>7 DEF Arrive
  <2> QED
    BY <1>1, <1>7, <2>1, <2>2, BoundsKept DEF Arrive, service, history
<1>8. ASSUME NEW p \in Pages, Visit(p)
      PROVE  ShellBounds'
  BY <1>1, <1>8, BoundsKept, GoForeign DEF Visit, service, history
<1>9. ASSUME NEW s \in Slots, ClickCall(s) \/ ClickTotp(s) \/ ClickConfirm(s)
      PROVE  ShellBounds'
  <2>1. calls' \in [Slots -> CallRecords]
    BY <1>9, SlotTypes DEF ClickCall, ClickTotp, ClickConfirm
  <2> QED
    BY <1>1, <1>9, <2>1, BoundsKept
    DEF ClickCall, ClickTotp, ClickConfirm, Stay, totpUnchanged, tagVars, service, history
<1>10. ASSUME NEW s \in Slots, AnswerQuietly(s) \/ SetupDone(s)
       PROVE  ShellBounds'
  BY <1>1, <1>3, <1>10, BoundsKept
  DEF AnswerQuietly, SetupDone, Stay, totpUnchanged, tagVars, service, history
<1>11. CASE ClickLogout \/ ClickReset \/ \E s \in Slots : Answer401(s)
  <2>1. calls' \in [Slots -> CallRecords]
    BY <1>1, <1>3, <1>11 DEF ClickLogout, ClickReset, Answer401, work
  <2>2. menus' = FALSE /\ foreign' = FALSE
    BY <1>11, GoForeign DEF ClickLogout, ClickReset, Answer401, LogOut, ResetRouter
  <2> QED
    BY <1>1, <1>11, <2>1, <2>2, BoundsKept
    DEF ClickLogout, ClickReset, Answer401, service, history, work
<1>12. ASSUME NEW s \in Slots, TotpDone(s)
       PROVE  ShellBounds'
  <2>1. who[calls[s].token] \in Users /\ IssueTo(who[calls[s].token])
    BY <1>12, LenProperties, ElementOfSeq DEF TotpDone, SInv, ShellTypes
  <2>2. Len(who') <= MaxSessions
    BY <1>6, <2>1
  <2>3. /\ calls' = [calls EXCEPT ![s] = NoCall] /\ totp' \in {totp, "codes"}
        /\ overtaken' \in BOOLEAN /\ UNCHANGED <<menus, foreign, mishaps, menu>>
    BY <1>1, <1>12 DEF TotpDone, tagVars
  <2> QED
    BY <1>1, <1>3, <2>2, <2>3 DEF ShellBounds
<1>13. CASE LoginDone
  <2>1. PICK u \in Users : u = signing /\ IssueTo(u)
    BY <1>13 DEF LoginDone
  <2>2. Len(who') <= MaxSessions
    BY <1>6, <2>1
  <2>3. foreign' = FALSE /\ menus' = TRUE
    BY <1>13, GoForeign DEF LoginDone, FillMenus
  <2> QED
    BY <1>1, <1>13, <2>2, <2>3 DEF LoginDone, history, ShellBounds
<1>14. CASE Reload
  <2>1. menu' \in MenuRecords
    BY <1>2, <1>14 DEF Reload
  <2>2. mishaps' \in 0..MaxMishaps
    BY <1>5, <1>14 DEF Reload, Mishap
  <2> QED
    BY <1>1, <1>4, <1>14, <2>1, <2>2 DEF Reload, FillMenus, service, ShellBounds
<1>15. ASSUME NEW u \in Users, OtherTabLogin(u)
       PROVE  ShellBounds'
  <2>1. Len(who') <= MaxSessions /\ mishaps' \in 0..MaxMishaps
    BY <1>5, <1>6, <1>15 DEF OtherTabLogin, Mishap
  <2> QED
    BY <1>1, <1>15, <2>1 DEF OtherTabLogin, work, tagVars, ShellBounds
<1>16. CASE OtherTabLogout \/ CookieExpires \/ \E n \in live : ServerExpires(n)
  <2>1. mishaps' \in 0..MaxMishaps
    BY <1>5, <1>16 DEF OtherTabLogout, CookieExpires, ServerExpires, Mishap
  <2> QED
    BY <1>1, <1>16, <2>1
    DEF OtherTabLogout, CookieExpires, ServerExpires, work, service, tagVars, ShellBounds
<1>17. CASE CloseTotp \/ LoginFails \/ \E u \in Users : ClickLogin(u)
  BY <1>1, <1>17, BoundsKept
  DEF CloseTotp, LoginFails, ClickLogin, Stay, totpUnchanged, service, history, tagVars
<1>18. ASSUME NEW t \in ToSet(tags), ClickTag(t) \/ ClickCross(t) \/ OpenMenu(t)
       PROVE  ShellBounds'
  <2>1. foreign' \in BOOLEAN
    BY <1>1, <1>18, GoForeign, Zenon DEF ClickTag, ClickCross, OpenMenu, Close, Stay
  <2>2. menu' = menu \/ \E tag, page : menu' = ContextMenu(tag, page)
    BY <1>18 DEF ClickTag, ClickCross, OpenMenu
  <2>3. tagsUnchanged
    BY <1>18, Zenon DEF ClickTag, ClickCross, OpenMenu
  <2> QED
    BY <1>1, <1>2, <2>1, <2>2, <2>3, BoundsKept DEF tagsUnchanged, work, service, history
<1>19. ASSUME NEW key \in Commands, NEW path, Command(key, path)
       PROVE  ShellBounds'
  <2>1. menu' \in MenuRecords /\ tagsUnchanged
    BY <1>1, <1>2, <1>19, Zenon DEF Command
  <2>2. foreign' \in BOOLEAN
    <3>1. CASE key = Refresh
      <4>1. key # CloseAll
        BY <3>1 DEF Refresh, CloseAll
      <4> QED
        BY <1>19, <3>1, <4>1, Zenon DEF Command
    <3>2. CASE key = CloseAll
      <4>1. key # Refresh
        BY <3>2 DEF Refresh, CloseAll
      <4>2. IF menus THEN Go(browser, Top) ELSE Stay
        BY <1>19, <3>2, <4>1, Zenon DEF Command
      <4> QED
        BY <1>1, <4>2, GoForeign DEF Stay
    <3>3. CASE key \notin {Refresh, CloseAll}
      <4>1. Close(path, key)
        BY <1>19, <3>3, Zenon DEF Command
      <4> QED
        BY <1>1, <4>1, GoForeign, Zenon DEF Close, Stay
    <3> QED
      BY <3>1, <3>2, <3>3
  <2> QED
    BY <1>1, <2>1, <2>2, BoundsKept DEF tagsUnchanged, work, service, history
<1>20. CASE \E key \in Commands : SelectCommand(key) \/ DropCommand(key)
  BY <1>19, <1>20 DEF SelectCommand, DropCommand
<1>21. CASE UNCHANGED shellVars
  BY <1>1, <1>21, BoundsKept DEF shellVars, work, service, history, tagVars
<1> QED
  BY <1>7, <1>8, <1>9, <1>10, <1>11, <1>12, <1>13, <1>14, <1>15, <1>16, <1>17, <1>18, <1>20,
     <1>21 DEF Next

-----------------------------------------------------------------------------

\* Every variable of the tab stays in its type, for any number of sessions and
\* calls: the commands that are offered are commands, a call on its way holds a
\* token that was issued, and the tags lead to pages, to the home tag or to the
\* page for what is not found.
THEOREM ShellTypesHold == Spec => []ShellTypeOK
<1>1. Init => ShellBounds
  BY BoundsInit, ShellAssumption
<1>2. SInv /\ ShellBounds /\ [Next]_shellVars => ShellBounds'
  BY BoundsStep, ShellAssumption, TagBarAssumption
<1>3. ASSUME SInv, ShellBounds
      PROVE  ShellTypeOK
  <2>1. Len(who) \in Nat /\ DOMAIN who = 1..Len(who)
    BY <1>3, LenProperties DEF SInv, ShellTypes
  <2>2. browser \in [token : 0..MaxSessions, multi : BOOLEAN, info : Users \cup {NoUser, Blank}]
    BY <1>3, <2>1, ShellAssumption DEF SInv, ShellTypes, Storage, ShellBounds, ShellAssumption
  <2>3. ToSet(tags) \subseteq TagPaths
    BY <1>3, ElementOfSeq, LenProperties DEF ToSet, SInv, ShellTypes
  <2> QED
    BY <1>3, <2>1, <2>2, <2>3
    DEF ShellTypeOK, SInv, ShellTypes, ShellBounds, CallRecords, MenuRecords, TagPaths
<1> QED
  BY <1>1, <1>2, <1>3, ShellInvariant, PTL DEF Spec

\* The tags stay in order: no page twice, and the home tags before the others.
LEMMA TagsInOrder == Spec => []Orderly(tags)
<1>1. Init => Orderly(tags)
  BY DEF Init, Orderly
<1>2. SInv /\ Orderly(tags) /\ [Next]_shellVars => Orderly(tags)'
  BY TagsStep, OrderlyStep, ShellAssumption, TagBarAssumption DEF SInv, ShellTypes
<1> QED
  BY <1>1, <1>2, ShellInvariant, PTL DEF Spec

\* No page has two tags, whichever tags the commands close by their indexes,
\* -1 for a tag that is gone included, and whatever page arrives meanwhile.
THEOREM NoTagTwice == Spec => []TagsDistinct
<1>1. Orderly(tags) => TagsDistinct
  BY DEF Orderly, TagsDistinct
<1> QED
  BY <1>1, TagsInOrder, PTL

\* deleteDynamicTag removes the fixed home tag only for a path that has no tag
\* any more, whose index -1 counts from the end, or through the home tag's own
\* context menu.
THEOREM HomeTagStays == Spec => HomeTagKept
<1>1. SInv /\ Orderly(tags) /\ [Next]_shellVars =>
         [HasTag(tags, Home) /\ ~HasTag(tags', Home) =>
             \/ ~HasTag(tags, route)
             \/ select # NoTag /\ (select = Home \/ ~HasTag(tags, select))]_shellVars
  BY TagsStep, HomeStep, ShellAssumption, TagBarAssumption DEF SInv, ShellTypes
<1> QED
  BY <1>1, ShellInvariant, TagsInOrder, PTL DEF Spec, HomeTagKept

=============================================================================
