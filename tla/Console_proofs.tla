--------------------------- MODULE Console_proofs ---------------------------
(***************************************************************************)
(* What the pages of both consoles show and send, for any number of calls  *)
(* on their way, of settings, of writes and of sessions.                   *)
(*                                                                         *)
(* The pages enter by what they have in common (PageFits), which the first *)
(* section proves of every one of them.  The rest follows the last load:   *)
(* where its answer is, and whether what it read is still what is stored.  *)
(***************************************************************************)
EXTENDS LegacyPanels, SequenceTheorems, TLAPS

WriteNames == DOMAIN Endpoint

WriteRecords ==
    [name : WriteNames, guard : {"write", "admin", "none"}, dialog : BOOLEAN,
     merchant : BOOLEAN, reload : BOOLEAN, shown : BOOLEAN, once : BOOLEAN, row : BOOLEAN,
     leaves : BOOLEAN]

PageRecords ==
    [roles : SUBSET Roles, opens : {"load", "after", "call", "no"},
     fields : SUBSET {"instant", "typed"},
     needs : {"nothing", "skip", "blank"}, failed : {"blank", "keep"}, clears : BOOLEAN,
     button : BOOLEAN, waits : BOOLEAN, spins : BOOLEAN, selects : BOOLEAN, stages : {1, 2},
     whole : BOOLEAN, keeps : BOOLEAN, form : BOOLEAN, stays : BOOLEAN, quiet : BOOLEAN,
     writes : SUBSET WriteRecords]

\* Whom a button is rendered for.
GuardPasses(w, r) ==
    CASE w.guard = "write" -> CanWrite(r)
      [] w.guard = "admin" -> IsAdmin(r)
      [] w.guard = "none"  -> TRUE

\* One button for one call.
OneButton(R) == \A v, w \in R.writes : v.name = w.name => v = w

\* What the page shows of a write is loaded again.
ShownReloads(p, R) ==
    p # "breakerPanel" /\ ~R.form => \A w \in R.writes : w.shown => w.reload

\* Buttons of a row belong to the old settlements, where each 401 leads to the login.
RowsFit(p, R) ==
    \A w \in R.writes : w.row =>
       /\ p = "settlementPanel" /\ w.name = "confirm" /\ ~w.dialog
       /\ ~R.quiet /\ R.stages = 1 /\ \A v \in R.writes : v.leaves

\* A button is for roles that the service lets; but for the import.
Guarded(p, R) ==
    \A w \in R.writes, r \in Roles :
       (R.stays \/ r \in R.roles) /\ GuardPasses(w, r) =>
          Permitted(w.name, r) \/ (p = "merchantGames" /\ w.name = "importMerchantGames")

WritesFit(p, R) == OneButton(R) /\ ShownReloads(p, R) /\ RowsFit(p, R) /\ Guarded(p, R)

PageFits(p, R) ==
    /\ R \in PageRecords
    /\ R.needs = "blank" => R.stages = 1
    /\ R.form => /\ R.needs = "skip" /\ "typed" \notin R.fields
                 /\ \A w \in R.writes : w.merchant
    /\ WritesFit(p, R)

PagesFit == \A p \in DOMAIN Page : PageFits(p, Page[p])

-----------------------------------------------------------------------------
(* The pages *)

LEMMA Names ==
    WriteNames = {"createMerchant", "updateMerchant", "rotateMerchantKey", "saveAllowedIPs",
        "addBlacklist", "deleteBlacklist", "saveConfig", "deleteConfig", "sync", "confirm",
        "rollup", "ackAlert", "resetBreaker", "createUser", "updateUser", "toggleUser",
        "createPlatformGame", "updatePlatformGame", "createMerchantGame", "updateMerchantGame",
        "saveGameTier", "deleteMerchantGame", "importMerchantGames", "importPlatformGames"}
BY DEF WriteNames, Endpoint

\* The segments of the paths.
Segments ==
    {"merchants", "id", "rotate-key", "allowed-ips", "risk-blacklist", "game-configs", "reports",
     "daily-settlements", "sync", "confirm", "settlement-periods", "rollup", "risk-alerts",
     "ack", "wallet", "breaker", "reset", "users", "roles", "platform", "games",
     "merchant-games", "import", "platform-games"}

\* What a path has within it begins at one of its segments.
LEMMA WithinBegins ==
    ASSUME NEW inner \in Seq(Segments), NEW path \in Seq(Segments), Len(inner) >= 1,
           Within(inner, path)
    PROVE  \E i \in 1..Len(path) : path[i] = inner[1]
<1>1. PICK i \in 0..(Len(path) - Len(inner)) :
         IsPrefix(inner, SubSeq(path, i + 1, Len(path)))
  BY DEF Within
<1> DEFINE rest == SubSeq(path, i + 1, Len(path))
<1>2. Len(path) \in Nat /\ Len(inner) \in Nat /\ path \in [1..Len(path) -> Segments]
  BY LenProperties
<1>3. i + 1 \in 1..Len(path)
  BY <1>1, <1>2
<1>4. \A k \in (i + 1)..Len(path) : path[k] \in Segments
  BY <1>2, <1>3
<1>5. /\ rest \in Seq(Segments) /\ Len(rest) >= 1
      /\ rest[1] = path[i + 1]
  BY <1>2, <1>3, <1>4, SubSeqProperties
<1>6. SubSeq(inner, 1, Len(inner)) = SubSeq(rest, 1, Len(inner)) /\ Len(inner) <= Len(rest)
  BY <1>1 DEF IsPrefix
<1> HIDE DEF rest
<1>7. SubSeq(inner, 1, Len(inner)) = inner
  BY SubSeqFull
<1>8. SubSeq(rest, 1, Len(inner))[1] = rest[1]
  <2>1. \A k \in 1..Len(inner) : rest[k] \in Segments
    BY <1>2, <1>5, <1>6, LenProperties
  <2>2. \A k \in 1..(Len(inner) - 1 + 1) : SubSeq(rest, 1, Len(inner))[k] = rest[1 + k - 1]
    BY <1>2, <2>1, SubSeqProperties
  <2>3. 1 \in 1..(Len(inner) - 1 + 1) /\ 1 + 1 - 1 = 1
    BY <1>2
  <2> QED
    BY <2>2, <2>3
<1> QED
  BY <1>3, <1>5, <1>6, <1>7, <1>8

\* Calls whose path names neither merchants nor keys nor platform games nor users.
LEMMA NotAdminOnly ==
    ASSUME NEW path \in Seq(Segments),
           \A i \in 1..Len(path) :
              path[i] \notin {"merchants", "rotate-key", "platform", "users", "roles"}
    PROVE  ~AdminOnly(Post(path))
<1>1. Len(path) \in Nat
  BY LenProperties
<1>2. ~ \E i \in 1..(Len(path) - 1) : path[i] \in {"users", "roles"}
  BY <1>1
<1>3. ~Within(<<"merchants">>, path)
  <2>1. <<"merchants">> \in Seq(Segments) /\ Len(<<"merchants">>) >= 1
    BY DEF Segments
  <2> QED
    BY <2>1, WithinBegins
<1>4. ~Within(<<"rotate-key">>, path)
  <2>1. <<"rotate-key">> \in Seq(Segments) /\ Len(<<"rotate-key">>) >= 1
    BY DEF Segments
  <2> QED
    BY <2>1, WithinBegins
<1>5. ~Within(<<"platform", "games">>, path)
  <2>1. <<"platform", "games">> \in Seq(Segments) /\ Len(<<"platform", "games">>) >= 1
    BY DEF Segments
  <2> QED
    BY <2>1, WithinBegins
<1> QED
  BY <1>2, <1>3, <1>4, <1>5 DEF AdminOnly, Post

LEMMA NotAdminOnlyOther ==
    ASSUME NEW path, \A i \in 1..(Len(path) - 1) : path[i] \notin {"users", "roles"}
    PROVE  ~AdminOnly(Put(path)) /\ ~AdminOnly(Delete(path))
BY DEF AdminOnly, Put, Delete

Offered == {"addBlacklist", "deleteBlacklist", "ackAlert", "saveConfig", "deleteConfig",
            "updateMerchant", "resetBreaker", "rollup", "sync", "confirm", "saveAllowedIPs",
            "createMerchantGame", "updateMerchantGame", "deleteMerchantGame",
            "updatePlatformGame", "saveGameTier"}

LEMMA PostedPaths ==
    /\ ~AdminOnly(Endpoint["addBlacklist"])
    /\ ~AdminOnly(Endpoint["saveConfig"])
    /\ ~AdminOnly(Endpoint["createMerchantGame"])
    /\ ~AdminOnly(Endpoint["sync"])
    /\ ~AdminOnly(Endpoint["confirm"])
    /\ ~AdminOnly(Endpoint["rollup"])
    /\ ~AdminOnly(Endpoint["ackAlert"])
    /\ ~AdminOnly(Endpoint["resetBreaker"])
<1>1. ~AdminOnly(Endpoint["addBlacklist"])
  <2>1. Endpoint["addBlacklist"] = Post(<<"risk-blacklist">>)
    BY DEF Endpoint
  <2>2. <<"risk-blacklist">> \in Seq(Segments)
    BY DEF Segments
  <2>3. \A i \in 1..Len(<<"risk-blacklist">>) :
           <<"risk-blacklist">>[i] \notin
              {"merchants", "rotate-key", "platform", "users", "roles"}
    OBVIOUS
  <2> QED
    BY <2>1, <2>2, <2>3, NotAdminOnly
<1>2. ~AdminOnly(Endpoint["saveConfig"])
  <2>1. Endpoint["saveConfig"] = Post(<<"game-configs">>)
    BY DEF Endpoint
  <2>2. <<"game-configs">> \in Seq(Segments)
    BY DEF Segments
  <2>3. \A i \in 1..Len(<<"game-configs">>) :
           <<"game-configs">>[i] \notin
              {"merchants", "rotate-key", "platform", "users", "roles"}
    OBVIOUS
  <2> QED
    BY <2>1, <2>2, <2>3, NotAdminOnly
<1>3. ~AdminOnly(Endpoint["createMerchantGame"])
  <2>1. Endpoint["createMerchantGame"] = Post(<<"merchant-games">>)
    BY DEF Endpoint
  <2>2. <<"merchant-games">> \in Seq(Segments)
    BY DEF Segments
  <2>3. \A i \in 1..Len(<<"merchant-games">>) :
           <<"merchant-games">>[i] \notin
              {"merchants", "rotate-key", "platform", "users", "roles"}
    OBVIOUS
  <2> QED
    BY <2>1, <2>2, <2>3, NotAdminOnly
<1>4. ~AdminOnly(Endpoint["sync"])
  <2>1. Endpoint["sync"] = Post(<<"reports", "daily-settlements", "sync">>)
    BY DEF Endpoint
  <2>2. <<"reports", "daily-settlements", "sync">> \in Seq(Segments)
    BY DEF Segments
  <2>3. \A i \in 1..Len(<<"reports", "daily-settlements", "sync">>) :
           <<"reports", "daily-settlements", "sync">>[i] \notin
              {"merchants", "rotate-key", "platform", "users", "roles"}
    OBVIOUS
  <2> QED
    BY <2>1, <2>2, <2>3, NotAdminOnly
<1>5. ~AdminOnly(Endpoint["confirm"])
  <2>1. Endpoint["confirm"] = Post(<<"reports", "daily-settlements", "id", "confirm">>)
    BY DEF Endpoint
  <2>2. <<"reports", "daily-settlements", "id", "confirm">> \in Seq(Segments)
    BY DEF Segments
  <2>3. \A i \in 1..Len(<<"reports", "daily-settlements", "id", "confirm">>) :
           <<"reports", "daily-settlements", "id", "confirm">>[i] \notin
              {"merchants", "rotate-key", "platform", "users", "roles"}
    OBVIOUS
  <2> QED
    BY <2>1, <2>2, <2>3, NotAdminOnly
<1>6. ~AdminOnly(Endpoint["rollup"])
  <2>1. Endpoint["rollup"] = Post(<<"reports", "settlement-periods", "id", "rollup">>)
    BY DEF Endpoint
  <2>2. <<"reports", "settlement-periods", "id", "rollup">> \in Seq(Segments)
    BY DEF Segments
  <2>3. \A i \in 1..Len(<<"reports", "settlement-periods", "id", "rollup">>) :
           <<"reports", "settlement-periods", "id", "rollup">>[i] \notin
              {"merchants", "rotate-key", "platform", "users", "roles"}
    OBVIOUS
  <2> QED
    BY <2>1, <2>2, <2>3, NotAdminOnly
<1>7. ~AdminOnly(Endpoint["ackAlert"])
  <2>1. Endpoint["ackAlert"] = Post(<<"risk-alerts", "id", "ack">>)
    BY DEF Endpoint
  <2>2. <<"risk-alerts", "id", "ack">> \in Seq(Segments)
    BY DEF Segments
  <2>3. \A i \in 1..Len(<<"risk-alerts", "id", "ack">>) :
           <<"risk-alerts", "id", "ack">>[i] \notin
              {"merchants", "rotate-key", "platform", "users", "roles"}
    OBVIOUS
  <2> QED
    BY <2>1, <2>2, <2>3, NotAdminOnly
<1>8. ~AdminOnly(Endpoint["resetBreaker"])
  <2>1. Endpoint["resetBreaker"] = Post(<<"wallet", "breaker", "reset">>)
    BY DEF Endpoint
  <2>2. <<"wallet", "breaker", "reset">> \in Seq(Segments)
    BY DEF Segments
  <2>3. \A i \in 1..Len(<<"wallet", "breaker", "reset">>) :
           <<"wallet", "breaker", "reset">>[i] \notin
              {"merchants", "rotate-key", "platform", "users", "roles"}
    OBVIOUS
  <2> QED
    BY <2>1, <2>2, <2>3, NotAdminOnly
<1> QED
  BY <1>1, <1>2, <1>3, <1>4, <1>5, <1>6, <1>7, <1>8

LEMMA OtherPaths ==
    /\ ~AdminOnly(Endpoint["deleteBlacklist"])
    /\ ~AdminOnly(Endpoint["deleteConfig"])
    /\ ~AdminOnly(Endpoint["deleteMerchantGame"])
    /\ ~AdminOnly(Endpoint["updateMerchant"])
    /\ ~AdminOnly(Endpoint["saveAllowedIPs"])
    /\ ~AdminOnly(Endpoint["updateMerchantGame"])
    /\ ~AdminOnly(Endpoint["updatePlatformGame"])
    /\ ~AdminOnly(Endpoint["saveGameTier"])
<1>1. ~AdminOnly(Endpoint["deleteBlacklist"])
  <2>1. Endpoint["deleteBlacklist"] = Delete(<<"risk-blacklist", "id">>)
    BY DEF Endpoint
  <2> QED
    BY <2>1, NotAdminOnlyOther
<1>2. ~AdminOnly(Endpoint["deleteConfig"])
  <2>1. Endpoint["deleteConfig"] = Delete(<<"game-configs", "id">>)
    BY DEF Endpoint
  <2> QED
    BY <2>1, NotAdminOnlyOther
<1>3. ~AdminOnly(Endpoint["deleteMerchantGame"])
  <2>1. Endpoint["deleteMerchantGame"] = Delete(<<"merchant-games", "id">>)
    BY DEF Endpoint
  <2> QED
    BY <2>1, NotAdminOnlyOther
<1>4. ~AdminOnly(Endpoint["updateMerchant"])
  <2>1. Endpoint["updateMerchant"] = Put(<<"merchants", "id">>)
    BY DEF Endpoint
  <2> QED
    BY <2>1, NotAdminOnlyOther
<1>5. ~AdminOnly(Endpoint["saveAllowedIPs"])
  <2>1. Endpoint["saveAllowedIPs"] = Put(<<"merchants", "id", "allowed-ips">>)
    BY DEF Endpoint
  <2> QED
    BY <2>1, NotAdminOnlyOther
<1>6. ~AdminOnly(Endpoint["updateMerchantGame"])
  <2>1. Endpoint["updateMerchantGame"] = Put(<<"merchant-games", "id">>)
    BY DEF Endpoint
  <2> QED
    BY <2>1, NotAdminOnlyOther
<1>7. ~AdminOnly(Endpoint["updatePlatformGame"])
  <2>1. Endpoint["updatePlatformGame"] = Put(<<"platform", "games", "id">>)
    BY DEF Endpoint
  <2> QED
    BY <2>1, NotAdminOnlyOther
<1>8. ~AdminOnly(Endpoint["saveGameTier"])
  <2>1. Endpoint["saveGameTier"] = Put(<<"merchant-games", "id">>)
    BY DEF Endpoint
  <2> QED
    BY <2>1, NotAdminOnlyOther
<1> QED
  BY <1>1, <1>2, <1>3, <1>4, <1>5, <1>6, <1>7, <1>8

\* What is offered to all who can write is permitted to operators.
LEMMA OperatorsMay ==
    ASSUME NEW name \in Offered, NEW r \in Roles, CanWrite(r)
    PROVE  Permitted(name, r)
BY PostedPaths, OtherPaths DEF Offered, Permitted, CanWrite, Roles

\* A page whose buttons are offered to those whom the service lets.
LEMMA GuardsFit ==
    ASSUME NEW p, NEW R,
           \A w \in R.writes :
              \/ w.guard = "admin"
              \/ w.guard = "write" /\ w.name \in Offered
              \/ p = "merchantGames" /\ w.name = "importMerchantGames"
              \/ ~R.stays /\ R.roles = {"admin"}
    PROVE  Guarded(p, R)
BY OperatorsMay DEF Guarded, GuardPasses, IsAdmin, Permitted

LEMMA WriteFits ==
    ASSUME NEW name \in WriteNames, NEW guard \in {"write", "admin", "none"}
    PROVE  /\ Write(name, guard) \in WriteRecords /\ Submit(name, guard) \in WriteRecords
           /\ Upload(name, guard) \in WriteRecords
BY DEF Write, Submit, Upload, WriteRecords

LEMMA PlainListFits == PlainList \in PageRecords
BY DEF PlainList, PageRecords, Roles

LEMMA ChangesFit ==
    ASSUME NEW w \in WriteRecords
    PROVE  /\ [w EXCEPT !.reload = FALSE] \in WriteRecords
           /\ [w EXCEPT !.shown = FALSE] \in WriteRecords
           /\ [w EXCEPT !.merchant = FALSE] \in WriteRecords
           /\ [w EXCEPT !.reload = FALSE, !.shown = FALSE] \in WriteRecords
           /\ [w EXCEPT !.merchant = FALSE, !.leaves = TRUE] \in WriteRecords
           /\ [w EXCEPT !.once = TRUE, !.leaves = TRUE] \in WriteRecords
           /\ [w EXCEPT !.row = TRUE, !.leaves = TRUE] \in WriteRecords
BY DEF WriteRecords

\* Only admins have the route of the users.
OfficeUsers == [Users EXCEPT !.roles = {"admin"}]

LEMMA PanelFits == Panel \in PageRecords /\ Panel.stages = 1
<1>1. PlainList.stages = 1
  BY DEF PlainList
<1> QED
  BY <1>1, PlainListFits DEF Panel, PageRecords

LEMMA BlacklistFits == PageFits("blacklist", Blacklist)
<1>1. Blacklist.writes = 
       {Submit("addBlacklist", "write"), Write("deleteBlacklist", "write")}
  BY PlainListFits DEF Blacklist, PageRecords
<1>2. Blacklist.writes \in SUBSET WriteRecords
  BY <1>1, WriteFits, Names
<1>3. Blacklist \in PageRecords
  BY <1>1, <1>2, PlainListFits DEF Blacklist, PageRecords
<1>4. Blacklist.needs = "nothing" /\ ~Blacklist.form
  BY DEF Blacklist, PlainList
<1>5. WritesFit("blacklist", Blacklist)
  <2>1. /\ OneButton(Blacklist)
        /\ ShownReloads("blacklist", Blacklist) /\ RowsFit("blacklist", Blacklist)
    BY <1>1, <1>4 DEF OneButton, ShownReloads, RowsFit, Write, Submit
  <2>2. Guarded("blacklist", Blacklist)
    BY <1>1, <1>4, GuardsFit DEF Write, Submit, Offered
  <2> QED
    BY <2>1, <2>2 DEF WritesFit
<1> QED
  BY <1>1, <1>3, <1>4, <1>5 DEF PageFits

LEMMA AlertsFits == PageFits("alerts", Alerts)
<1>1. Alerts.writes = {Write("ackAlert", "write")}
  BY PlainListFits DEF Alerts, PageRecords
<1>2. Alerts.writes \in SUBSET WriteRecords
  BY <1>1, WriteFits, Names
<1>3. Alerts \in PageRecords
  BY <1>1, <1>2, PlainListFits DEF Alerts, PageRecords
<1>4. Alerts.needs = "nothing" /\ ~Alerts.form
  BY DEF Alerts, PlainList
<1>5. WritesFit("alerts", Alerts)
  <2>1. /\ OneButton(Alerts)
        /\ ShownReloads("alerts", Alerts) /\ RowsFit("alerts", Alerts)
    BY <1>1, <1>4 DEF OneButton, ShownReloads, RowsFit, Write, Submit
  <2>2. Guarded("alerts", Alerts)
    BY <1>1, <1>4, GuardsFit DEF Write, Submit, Offered
  <2> QED
    BY <2>1, <2>2 DEF WritesFit
<1> QED
  BY <1>1, <1>3, <1>4, <1>5 DEF PageFits

LEMMA MerchantsFits == PageFits("merchants", Merchants)
<1>1. Merchants.writes = 
       {Submit("createMerchant", "admin"), Write("updateMerchant", "write"),
        Write("rotateMerchantKey", "admin"), Write("resetBreaker", "write")}
  BY PlainListFits DEF Merchants, PageRecords
<1>2. Merchants.writes \in SUBSET WriteRecords
  BY <1>1, WriteFits, Names
<1>3. Merchants \in PageRecords
  BY <1>1, <1>2, PlainListFits DEF Merchants, PageRecords
<1>4. Merchants.needs = "nothing" /\ ~Merchants.form
  BY DEF Merchants, PlainList
<1>5. WritesFit("merchants", Merchants)
  <2>1. /\ OneButton(Merchants)
        /\ ShownReloads("merchants", Merchants) /\ RowsFit("merchants", Merchants)
    BY <1>1, <1>4 DEF OneButton, ShownReloads, RowsFit, Write, Submit
  <2>2. Guarded("merchants", Merchants)
    BY <1>1, <1>4, GuardsFit DEF Write, Submit, Offered
  <2> QED
    BY <2>1, <2>2 DEF WritesFit
<1> QED
  BY <1>1, <1>3, <1>4, <1>5 DEF PageFits

LEMMA MerchantGamesFits == PageFits("merchantGames", MerchantGames)
<1> DEFINE a == Submit("createMerchantGame", "write")
           b == Submit("updateMerchantGame", "write")
           c == Write("deleteMerchantGame", "write")
           d == Upload("importMerchantGames", "none")
<1>1. MerchantGames.writes = {a, b, c, d}
  BY PlainListFits 
     DEF MerchantGames, MerchantGameDialogs, MerchantGameButtons, PageRecords
<1>2. MerchantGames.writes \in SUBSET WriteRecords
  BY <1>1, WriteFits, Names
<1>3. MerchantGames \in PageRecords
  BY <1>1, <1>2, PlainListFits 
     DEF MerchantGames, MerchantGameDialogs, MerchantGameButtons, PageRecords
<1>4. MerchantGames.needs = "blank" /\ ~MerchantGames.form /\ MerchantGames.stages = 1
  BY DEF MerchantGames, PlainList, MerchantGameDialogs, MerchantGameButtons
<1>5. WritesFit("merchantGames", MerchantGames)
  <2>1. /\ a.name = "createMerchantGame" /\ a.guard = "write" /\ ~a.row /\ a.reload
        /\ b.name = "updateMerchantGame" /\ b.guard = "write" /\ ~b.row /\ b.reload
        /\ c.name = "deleteMerchantGame" /\ c.guard = "write" /\ ~c.row /\ c.reload
        /\ d.name = "importMerchantGames" /\ d.guard = "none" /\ ~d.row /\ d.reload
    BY DEF Write, Submit, Upload
  <2> HIDE DEF a, b, c, d
  <2>2. OneButton(MerchantGames)
    BY <1>1, <2>1 DEF OneButton
  <2>3. ShownReloads("merchantGames", MerchantGames)
    BY <1>1, <2>1 DEF ShownReloads
  <2>4. RowsFit("merchantGames", MerchantGames)
    BY <1>1, <1>4, <2>1 DEF RowsFit
  <2>5. Guarded("merchantGames", MerchantGames)
    BY <1>1, <2>1, GuardsFit DEF Offered
  <2> QED
    BY <2>2, <2>3, <2>4, <2>5 DEF WritesFit
<1> QED
  BY <1>1, <1>3, <1>4, <1>5 DEF PageFits

LEMMA WhitelistFits == PageFits("whitelist", Whitelist)
<1>1. Whitelist.writes = {[Write("saveAllowedIPs", "write") EXCEPT !.reload = FALSE]}
  BY PlainListFits DEF Whitelist, PageRecords
<1>2. Whitelist.writes \in SUBSET WriteRecords
  BY <1>1, WriteFits, Names, ChangesFit
<1>3. Whitelist \in PageRecords
  BY <1>1, <1>2, PlainListFits DEF Whitelist, PageRecords
<1>4. Whitelist.needs = "skip" /\ Whitelist.form /\ "typed" \notin Whitelist.fields
  BY DEF Whitelist, PlainList
<1>5. WritesFit("whitelist", Whitelist)
  <2>1. /\ OneButton(Whitelist)
        /\ ShownReloads("whitelist", Whitelist) /\ RowsFit("whitelist", Whitelist)
    BY <1>1, <1>4 DEF OneButton, ShownReloads, RowsFit, Write, Submit
  <2>2. Guarded("whitelist", Whitelist)
    BY <1>1, <1>4, GuardsFit DEF Write, Submit, Offered
  <2> QED
    BY <2>1, <2>2 DEF WritesFit
<1> QED
  BY <1>1, <1>3, <1>4, <1>5 DEF PageFits, Write

LEMMA PlatformGamesFits == PageFits("platformGames", PlatformGames)
<1>1. PlatformGames.writes = 
       {Submit("createPlatformGame", "admin"), Submit("updatePlatformGame", "write"),
        Upload("importPlatformGames", "admin")}
  BY PlainListFits DEF PlatformGames, PlatformGameButtons, PageRecords
<1>2. PlatformGames.writes \in SUBSET WriteRecords
  BY <1>1, WriteFits, Names
<1>3. PlatformGames \in PageRecords
  BY <1>1, <1>2, PlainListFits DEF PlatformGames, PlatformGameButtons, PageRecords
<1>4. PlatformGames.needs = "nothing" /\ ~PlatformGames.form
  BY DEF PlatformGames, PlainList, PlatformGameButtons
<1>5. WritesFit("platformGames", PlatformGames)
  <2>1. /\ OneButton(PlatformGames)
        /\ ShownReloads("platformGames", PlatformGames) /\ RowsFit("platformGames", PlatformGames)
    BY <1>1, <1>4 DEF OneButton, ShownReloads, RowsFit, Write, Submit, Upload
  <2>2. Guarded("platformGames", PlatformGames)
    BY <1>1, <1>4, GuardsFit DEF Write, Submit, Upload, Offered
  <2> QED
    BY <2>1, <2>2 DEF WritesFit
<1> QED
  BY <1>1, <1>3, <1>4, <1>5 DEF PageFits

LEMMA GameConfigsFits == PageFits("gameconfig", GameConfigs)
<1>1. GameConfigs.writes = 
       {Write("saveConfig", "write"),
        [Write("deleteConfig", "write") EXCEPT !.merchant = FALSE]}
  BY PlainListFits DEF GameConfigs, PageRecords
<1>2. GameConfigs.writes \in SUBSET WriteRecords
  BY <1>1, WriteFits, Names, ChangesFit
<1>3. GameConfigs \in PageRecords
  BY <1>1, <1>2, PlainListFits DEF GameConfigs, PageRecords
<1>4. GameConfigs.needs = "skip" /\ ~GameConfigs.form
  BY DEF GameConfigs, PlainList
<1>5. WritesFit("gameconfig", GameConfigs)
  <2>1. /\ OneButton(GameConfigs)
        /\ ShownReloads("gameconfig", GameConfigs) /\ RowsFit("gameconfig", GameConfigs)
    BY <1>1, <1>4 DEF OneButton, ShownReloads, RowsFit, Write, Submit
  <2>2. Guarded("gameconfig", GameConfigs)
    BY <1>1, <1>4, GuardsFit DEF Write, Submit, Offered
  <2> QED
    BY <2>1, <2>2 DEF WritesFit
<1> QED
  BY <1>1, <1>3, <1>4, <1>5 DEF PageFits

LEMMA DailySettlementsFits == PageFits("settlement", DailySettlements)
<1>1. DailySettlements.writes = {Write("sync", "write"), Write("confirm", "write")}
  BY PlainListFits DEF DailySettlements, PageRecords
<1>2. DailySettlements.writes \in SUBSET WriteRecords
  BY <1>1, WriteFits, Names
<1>3. DailySettlements \in PageRecords
  BY <1>1, <1>2, PlainListFits DEF DailySettlements, PageRecords
<1>4. DailySettlements.needs = "nothing" /\ ~DailySettlements.form
  BY DEF DailySettlements, PlainList
<1>5. WritesFit("settlement", DailySettlements)
  <2>1. /\ OneButton(DailySettlements)
        /\ ShownReloads("settlement", DailySettlements) /\ RowsFit("settlement", DailySettlements)
    BY <1>1, <1>4 DEF OneButton, ShownReloads, RowsFit, Write, Submit
  <2>2. Guarded("settlement", DailySettlements)
    BY <1>1, <1>4, GuardsFit DEF Write, Submit, Offered
  <2> QED
    BY <2>1, <2>2 DEF WritesFit
<1> QED
  BY <1>1, <1>3, <1>4, <1>5 DEF PageFits

LEMMA SettlementPeriodsFits == PageFits("periods", SettlementPeriods)
<1>1. SettlementPeriods.writes = {Write("rollup", "write")}
  BY PlainListFits DEF SettlementPeriods, PageRecords
<1>2. SettlementPeriods.writes \in SUBSET WriteRecords
  BY <1>1, WriteFits, Names
<1>3. SettlementPeriods \in PageRecords
  BY <1>1, <1>2, PlainListFits DEF SettlementPeriods, PageRecords
<1>4. SettlementPeriods.needs = "nothing" /\ ~SettlementPeriods.form
  BY DEF SettlementPeriods, PlainList
<1>5. WritesFit("periods", SettlementPeriods)
  <2>1. /\ OneButton(SettlementPeriods)
        /\ ShownReloads("periods", SettlementPeriods) /\ RowsFit("periods", SettlementPeriods)
    BY <1>1, <1>4 DEF OneButton, ShownReloads, RowsFit, Write, Submit
  <2>2. Guarded("periods", SettlementPeriods)
    BY <1>1, <1>4, GuardsFit DEF Write, Submit, Offered
  <2> QED
    BY <2>1, <2>2 DEF WritesFit
<1> QED
  BY <1>1, <1>3, <1>4, <1>5 DEF PageFits

LEMMA RtpReportFits == PageFits("rtpreport", RtpReport)
<1>1. RtpReport.writes = {}
  BY DEF RtpReport, PlainList
<1>2. RtpReport \in PageRecords
  BY PlainListFits DEF RtpReport, PageRecords
<1>3. RtpReport.needs = "nothing" /\ ~RtpReport.form
  BY DEF RtpReport, PlainList
<1>4. WritesFit("rtpreport", RtpReport)
  BY <1>1 DEF WritesFit, OneButton, ShownReloads, RowsFit, Guarded
<1> QED
  BY <1>1, <1>2, <1>3, <1>4 DEF PageFits

LEMMA TraceLookupFits == PageFits("trace", TraceLookup)
<1>1. TraceLookup.writes = {}
  BY DEF TraceLookup, PlainList
<1>2. TraceLookup \in PageRecords
  BY PlainListFits DEF TraceLookup, PageRecords
<1>3. TraceLookup.needs = "nothing" /\ ~TraceLookup.form
  BY DEF TraceLookup, PlainList
<1>4. WritesFit("trace", TraceLookup)
  BY <1>1 DEF WritesFit, OneButton, ShownReloads, RowsFit, Guarded
<1> QED
  BY <1>1, <1>2, <1>3, <1>4 DEF PageFits

LEMMA AuditFits == PageFits("audit", Audit)
<1>1. Audit.writes = {}
  BY DEF Audit, PlainList
<1>2. Audit \in PageRecords
  BY PlainListFits DEF Audit, PageRecords
<1>3. Audit.needs = "nothing" /\ ~Audit.form
  BY DEF Audit, PlainList
<1>4. WritesFit("audit", Audit)
  BY <1>1 DEF WritesFit, OneButton, ShownReloads, RowsFit, Guarded
<1> QED
  BY <1>1, <1>2, <1>3, <1>4 DEF PageFits

LEMMA DashboardFits == PageFits("dashboard", Dashboard)
<1>1. Dashboard.writes = {}
  BY DEF Dashboard, PlainList
<1>2. Dashboard \in PageRecords
  BY PlainListFits DEF Dashboard, PageRecords
<1>3. Dashboard.needs = "nothing" /\ ~Dashboard.form
  BY DEF Dashboard, PlainList
<1>4. WritesFit("dashboard", Dashboard)
  BY <1>1 DEF WritesFit, OneButton, ShownReloads, RowsFit, Guarded
<1> QED
  BY <1>1, <1>2, <1>3, <1>4 DEF PageFits

LEMMA MerchantGameTiersFits == PageFits("merchantGameTiers", MerchantGameTiers)
<1>1. MerchantGameTiers.writes = {[Write("saveGameTier", "write") EXCEPT !.reload = FALSE]}
  BY PlainListFits DEF MerchantGameTiers, PageRecords
<1>2. MerchantGameTiers.writes \in SUBSET WriteRecords
  BY <1>1, WriteFits, Names, ChangesFit
<1>3. MerchantGameTiers \in PageRecords
  BY <1>1, <1>2, PlainListFits DEF MerchantGameTiers, PageRecords
<1>4. /\ MerchantGameTiers.needs = "skip" /\ MerchantGameTiers.form
      /\ "typed" \notin MerchantGameTiers.fields
  BY DEF MerchantGameTiers, PlainList
<1>5. WritesFit("merchantGameTiers", MerchantGameTiers)
  <2>1. /\ OneButton(MerchantGameTiers)
        /\ ShownReloads("merchantGameTiers", MerchantGameTiers)
        /\ RowsFit("merchantGameTiers", MerchantGameTiers)
    BY <1>1, <1>4 DEF OneButton, ShownReloads, RowsFit, Write, Submit
  <2>2. Guarded("merchantGameTiers", MerchantGameTiers)
    BY <1>1, <1>4, GuardsFit DEF Write, Submit, Offered
  <2> QED
    BY <2>1, <2>2 DEF WritesFit
<1> QED
  BY <1>1, <1>3, <1>4, <1>5 DEF PageFits, Write

LEMMA OfficeUsersFits == PageFits("users", OfficeUsers)
<1>1. OfficeUsers.writes = 
       {Submit("createUser", "none"), Submit("updateUser", "none"),
        Write("toggleUser", "none")}
  BY PlainListFits DEF OfficeUsers, Users, UserButtons, PageRecords
<1>2. OfficeUsers.writes \in SUBSET WriteRecords
  BY <1>1, WriteFits, Names
<1>3. OfficeUsers \in PageRecords
  BY <1>1, <1>2, PlainListFits DEF OfficeUsers, Users, UserButtons, PageRecords, Roles
<1>4. /\ OfficeUsers.needs = "nothing" /\ ~OfficeUsers.form
      /\ ~OfficeUsers.stays /\ OfficeUsers.roles = {"admin"}
  BY DEF OfficeUsers, PlainList, Users, UserButtons
<1>5. WritesFit("users", OfficeUsers)
  <2>1. /\ OneButton(OfficeUsers)
        /\ ShownReloads("users", OfficeUsers) /\ RowsFit("users", OfficeUsers)
    BY <1>1, <1>4 DEF OneButton, ShownReloads, RowsFit, Write, Submit
  <2>2. Guarded("users", OfficeUsers)
    BY <1>1, <1>4, GuardsFit DEF Write, Submit, Offered
  <2> QED
    BY <2>1, <2>2 DEF WritesFit
<1> QED
  BY <1>1, <1>3, <1>4, <1>5 DEF PageFits

LEMMA AlertPanelFits == PageFits("alertPanel", AlertPanel)
<1>1. AlertPanel.writes = {Write("ackAlert", "write")}
  BY PanelFits DEF AlertPanel, PageRecords
<1>2. AlertPanel.writes \in SUBSET WriteRecords
  BY <1>1, WriteFits, Names
<1>3. AlertPanel \in PageRecords
  BY <1>1, <1>2, PanelFits DEF AlertPanel, PageRecords
<1>4. AlertPanel.needs = "nothing" /\ ~AlertPanel.form
  BY DEF AlertPanel, Panel, PlainList
<1>5. WritesFit("alertPanel", AlertPanel)
  <2>1. /\ OneButton(AlertPanel)
        /\ ShownReloads("alertPanel", AlertPanel) /\ RowsFit("alertPanel", AlertPanel)
    BY <1>1, <1>4 DEF OneButton, ShownReloads, RowsFit, Write, Submit
  <2>2. Guarded("alertPanel", AlertPanel)
    BY <1>1, <1>4, GuardsFit DEF Write, Submit, Offered
  <2> QED
    BY <2>1, <2>2 DEF WritesFit
<1> QED
  BY <1>1, <1>3, <1>4, <1>5 DEF PageFits

LEMMA TracePanelFits == PageFits("tracePanel", TracePanel)
<1>1. TracePanel.writes = {}
  BY DEF TracePanel, Panel, PlainList
<1>2. TracePanel \in PageRecords
  BY PanelFits DEF TracePanel, PageRecords
<1>3. TracePanel.needs = "nothing" /\ ~TracePanel.form
  BY DEF TracePanel, Panel, PlainList
<1>4. WritesFit("tracePanel", TracePanel)
  BY <1>1 DEF WritesFit, OneButton, ShownReloads, RowsFit, Guarded
<1> QED
  BY <1>1, <1>2, <1>3, <1>4 DEF PageFits

LEMMA BlacklistPanelFits == PageFits("blacklistPanel", BlacklistPanel)
<1>1. BlacklistPanel.writes = 
       {Submit("addBlacklist", "write"), Write("deleteBlacklist", "write")}
  BY PanelFits DEF BlacklistPanel, BlacklistWrites, PageRecords
<1>2. BlacklistPanel.writes \in SUBSET WriteRecords
  BY <1>1, WriteFits, Names
<1>3. BlacklistPanel \in PageRecords
  BY <1>1, <1>2, PanelFits DEF BlacklistPanel, BlacklistWrites, PageRecords
<1>4. BlacklistPanel.needs = "nothing" /\ ~BlacklistPanel.form
  BY DEF BlacklistPanel, Panel, PlainList, BlacklistWrites
<1>5. WritesFit("blacklistPanel", BlacklistPanel)
  <2>1. /\ OneButton(BlacklistPanel)
        /\ ShownReloads("blacklistPanel", BlacklistPanel)
        /\ RowsFit("blacklistPanel", BlacklistPanel)
    BY <1>1, <1>4 DEF OneButton, ShownReloads, RowsFit, Write, Submit
  <2>2. Guarded("blacklistPanel", BlacklistPanel)
    BY <1>1, <1>4, GuardsFit DEF Write, Submit, Offered
  <2> QED
    BY <2>1, <2>2 DEF WritesFit
<1> QED
  BY <1>1, <1>3, <1>4, <1>5 DEF PageFits

LEMMA MerchantPanelFits == PageFits("merchantPanel", MerchantPanel)
<1> DEFINE a == Submit("createMerchant", "admin")
           b == Submit("updateMerchant", "write")
           c == RotateKey
<1>1. MerchantPanel.writes = {a, b, c}
  BY PanelFits DEF MerchantPanel, MerchantWrites, PageRecords
<1>2. MerchantPanel.writes \in SUBSET WriteRecords
  BY <1>1, WriteFits, Names, ChangesFit DEF RotateKey
<1>3. MerchantPanel \in PageRecords
  BY <1>1, <1>2, PanelFits DEF MerchantPanel, MerchantWrites, PageRecords
<1>4. MerchantPanel.needs = "nothing" /\ ~MerchantPanel.form
  BY DEF MerchantPanel, Panel, PlainList, MerchantWrites
<1>5. WritesFit("merchantPanel", MerchantPanel)
  <2>1. /\ a.name = "createMerchant" /\ a.guard = "admin" /\ ~a.row /\ a.reload
        /\ b.name = "updateMerchant" /\ b.guard = "write" /\ ~b.row /\ b.reload
        /\ c.name = "rotateMerchantKey" /\ c.guard = "admin" /\ ~c.row /\ ~c.shown
    BY DEF Write, Submit, Upload, RotateKey
  <2> HIDE DEF a, b, c
  <2>2. OneButton(MerchantPanel)
    BY <1>1, <2>1 DEF OneButton
  <2>3. ShownReloads("merchantPanel", MerchantPanel)
    BY <1>1, <2>1 DEF ShownReloads
  <2>4. RowsFit("merchantPanel", MerchantPanel)
    BY <1>1, <1>4, <2>1 DEF RowsFit
  <2>5. Guarded("merchantPanel", MerchantPanel)
    BY <1>1, <2>1, GuardsFit DEF Offered
  <2> QED
    BY <2>2, <2>3, <2>4, <2>5 DEF WritesFit
<1> QED
  BY <1>1, <1>3, <1>4, <1>5 DEF PageFits

LEMMA BreakerPanelFits == PageFits("breakerPanel", BreakerPanel)
<1> DEFINE a == [Write("resetBreaker", "write") EXCEPT !.reload = FALSE]
           b == [Submit("updateMerchant", "write") EXCEPT !.shown = FALSE]
<1>1. BreakerPanel.writes = {a, b}
  BY PanelFits DEF BreakerPanel, PageRecords
<1>2. BreakerPanel.writes \in SUBSET WriteRecords
  BY <1>1, WriteFits, Names, ChangesFit
<1>3. BreakerPanel \in PageRecords
  BY <1>1, <1>2, PanelFits DEF BreakerPanel, PageRecords
<1>4. BreakerPanel.needs = "nothing" /\ ~BreakerPanel.form
  BY DEF BreakerPanel, Panel, PlainList
<1>5. WritesFit("breakerPanel", BreakerPanel)
  <2>1. /\ a.name = "resetBreaker" /\ a.guard = "write" /\ ~a.row /\ ~a.reload
        /\ b.name = "updateMerchant" /\ b.guard = "write" /\ ~b.row /\ ~b.shown
    BY DEF Write, Submit, Upload
  <2> HIDE DEF a, b
  <2>2. OneButton(BreakerPanel)
    BY <1>1, <2>1 DEF OneButton
  <2>3. ShownReloads("breakerPanel", BreakerPanel)
    BY <1>1, <2>1 DEF ShownReloads
  <2>4. RowsFit("breakerPanel", BreakerPanel)
    BY <1>1, <1>4, <2>1 DEF RowsFit
  <2>5. Guarded("breakerPanel", BreakerPanel)
    BY <1>1, <2>1, GuardsFit DEF Offered
  <2> QED
    BY <2>2, <2>3, <2>4, <2>5 DEF WritesFit
<1> QED
  BY <1>1, <1>3, <1>4, <1>5 DEF PageFits

LEMMA WhitelistPanelFits == PageFits("whitelistPanel", WhitelistPanel)
<1>1. WhitelistPanel.writes = {Write("saveAllowedIPs", "write")}
  BY PanelFits DEF WhitelistPanel, PageRecords
<1>2. WhitelistPanel.writes \in SUBSET WriteRecords
  BY <1>1, WriteFits, Names
<1>3. WhitelistPanel \in PageRecords
  BY <1>1, <1>2, PanelFits DEF WhitelistPanel, PageRecords
<1>4. WhitelistPanel.needs = "nothing" /\ ~WhitelistPanel.form
  BY DEF WhitelistPanel, Panel, PlainList
<1>5. WritesFit("whitelistPanel", WhitelistPanel)
  <2>1. /\ OneButton(WhitelistPanel)
        /\ ShownReloads("whitelistPanel", WhitelistPanel)
        /\ RowsFit("whitelistPanel", WhitelistPanel)
    BY <1>1, <1>4 DEF OneButton, ShownReloads, RowsFit, Write, Submit
  <2>2. Guarded("whitelistPanel", WhitelistPanel)
    BY <1>1, <1>4, GuardsFit DEF Write, Submit, Offered
  <2> QED
    BY <2>1, <2>2 DEF WritesFit
<1> QED
  BY <1>1, <1>3, <1>4, <1>5 DEF PageFits

LEMMA WhitelistDialogFits == PageFits("whitelistDialog", WhitelistDialog)
<1>1. WhitelistDialog.writes = {WhitelistSave}
  BY PanelFits DEF WhitelistDialog, PageRecords
<1>2. WhitelistDialog.writes \in SUBSET WriteRecords
  BY <1>1, WriteFits, Names, ChangesFit DEF WhitelistSave
<1>3. WhitelistDialog \in PageRecords
  BY <1>1, <1>2, PanelFits DEF WhitelistDialog, PageRecords
<1>4. /\ WhitelistDialog.needs = "skip" /\ WhitelistDialog.form
      /\ "typed" \notin WhitelistDialog.fields
  BY DEF WhitelistDialog, Panel, PlainList
<1>5. WritesFit("whitelistDialog", WhitelistDialog)
  <2>1. /\ OneButton(WhitelistDialog)
        /\ ShownReloads("whitelistDialog", WhitelistDialog)
        /\ RowsFit("whitelistDialog", WhitelistDialog)
    BY <1>1, <1>4 DEF OneButton, ShownReloads, RowsFit, Write, Submit, WhitelistSave
  <2>2. Guarded("whitelistDialog", WhitelistDialog)
    BY <1>1, <1>4, GuardsFit DEF Write, Submit, Offered, WhitelistSave
  <2> QED
    BY <2>1, <2>2 DEF WritesFit
<1> QED
  BY <1>1, <1>3, <1>4, <1>5 DEF PageFits, Write, WhitelistSave

LEMMA GameConfigPanelFits == PageFits("gameConfigPanel", GameConfigPanel)
<1> DEFINE a == Submit("saveConfig", "write")
           b == [Write("deleteConfig", "write") EXCEPT !.merchant = FALSE, !.leaves = TRUE]
<1>1. GameConfigPanel.writes = {a, b}
  BY PanelFits DEF GameConfigPanel, GameConfigWrites, PageRecords
<1>2. GameConfigPanel.writes \in SUBSET WriteRecords
  BY <1>1, WriteFits, Names, ChangesFit
<1>3. GameConfigPanel \in PageRecords
  BY <1>1, <1>2, PanelFits DEF GameConfigPanel, GameConfigWrites, PageRecords
<1>4. GameConfigPanel.needs = "blank" /\ ~GameConfigPanel.form /\ GameConfigPanel.stages = 1
  BY DEF GameConfigPanel, Panel, PlainList, GameConfigWrites
<1>5. WritesFit("gameConfigPanel", GameConfigPanel)
  <2>1. /\ a.name = "saveConfig" /\ a.guard = "write" /\ ~a.row /\ a.reload
        /\ b.name = "deleteConfig" /\ b.guard = "write" /\ ~b.row /\ b.reload
    BY DEF Write, Submit, Upload
  <2> HIDE DEF a, b
  <2>2. OneButton(GameConfigPanel)
    BY <1>1, <2>1 DEF OneButton
  <2>3. ShownReloads("gameConfigPanel", GameConfigPanel)
    BY <1>1, <2>1 DEF ShownReloads
  <2>4. RowsFit("gameConfigPanel", GameConfigPanel)
    BY <1>1, <1>4, <2>1 DEF RowsFit
  <2>5. Guarded("gameConfigPanel", GameConfigPanel)
    BY <1>1, <2>1, GuardsFit DEF Offered
  <2> QED
    BY <2>2, <2>3, <2>4, <2>5 DEF WritesFit
<1> QED
  BY <1>1, <1>3, <1>4, <1>5 DEF PageFits

LEMMA RtpPanelFits == PageFits("rtpPanel", RtpPanel)
<1>1. RtpPanel.writes = {}
  BY DEF RtpPanel, Panel, PlainList
<1>2. RtpPanel \in PageRecords
  BY PanelFits DEF RtpPanel, PageRecords
<1>3. RtpPanel.needs = "nothing" /\ ~RtpPanel.form
  BY DEF RtpPanel, Panel, PlainList
<1>4. WritesFit("rtpPanel", RtpPanel)
  BY <1>1 DEF WritesFit, OneButton, ShownReloads, RowsFit, Guarded
<1> QED
  BY <1>1, <1>2, <1>3, <1>4 DEF PageFits

LEMMA SettlementPanelFits == PageFits("settlementPanel", SettlementPanel)
<1> DEFINE a == [Write("sync", "write") EXCEPT !.once = TRUE, !.leaves = TRUE]
           b == [Write("confirm", "write") EXCEPT !.row = TRUE, !.leaves = TRUE]
<1>1. SettlementPanel.writes = {a, b}
  BY PanelFits DEF SettlementPanel, SettlementWrites, PageRecords
<1>2. SettlementPanel.writes \in SUBSET WriteRecords
  BY <1>1, WriteFits, Names, ChangesFit
<1>3. SettlementPanel \in PageRecords
  BY <1>1, <1>2, PanelFits DEF SettlementPanel, SettlementWrites, PageRecords
<1>4. /\ SettlementPanel.needs = "nothing" /\ ~SettlementPanel.form
      /\ ~SettlementPanel.quiet /\ SettlementPanel.stages = 1
  BY DEF SettlementPanel, Panel, PlainList, SettlementWrites
<1>5. WritesFit("settlementPanel", SettlementPanel)
  <2>1. /\ a.name = "sync" /\ a.guard = "write" /\ ~a.row /\ a.reload /\ a.leaves
        /\ b.name = "confirm" /\ b.guard = "write" /\ b.row /\ b.reload /\ ~b.dialog /\ b.leaves
    BY DEF Write, Submit, Upload
  <2> HIDE DEF a, b
  <2>2. OneButton(SettlementPanel)
    BY <1>1, <2>1 DEF OneButton
  <2>3. ShownReloads("settlementPanel", SettlementPanel)
    BY <1>1, <2>1 DEF ShownReloads
  <2>4. RowsFit("settlementPanel", SettlementPanel)
    BY <1>1, <1>4, <2>1 DEF RowsFit
  <2>5. Guarded("settlementPanel", SettlementPanel)
    BY <1>1, <2>1, GuardsFit DEF Offered
  <2> QED
    BY <2>2, <2>3, <2>4, <2>5 DEF WritesFit
<1> QED
  BY <1>1, <1>3, <1>4, <1>5 DEF PageFits

LEMMA UserPanelFits == PageFits("userPanel", UserPanel)
<1>1. UserPanel.writes = 
       {Submit("createUser", "admin"), Submit("updateUser", "admin")}
  BY PanelFits DEF UserPanel, UserWrites, PageRecords
<1>2. UserPanel.writes \in SUBSET WriteRecords
  BY <1>1, WriteFits, Names
<1>3. UserPanel \in PageRecords
  BY <1>1, <1>2, PanelFits DEF UserPanel, UserWrites, PageRecords, Roles
<1>4. UserPanel.needs = "nothing" /\ ~UserPanel.form
  BY DEF UserPanel, Panel, PlainList, UserWrites
<1>5. WritesFit("userPanel", UserPanel)
  <2>1. /\ OneButton(UserPanel)
        /\ ShownReloads("userPanel", UserPanel) /\ RowsFit("userPanel", UserPanel)
    BY <1>1, <1>4 DEF OneButton, ShownReloads, RowsFit, Write, Submit
  <2>2. Guarded("userPanel", UserPanel)
    BY <1>1, <1>4, GuardsFit DEF Write, Submit, Offered
  <2> QED
    BY <2>1, <2>2 DEF WritesFit
<1> QED
  BY <1>1, <1>3, <1>4, <1>5 DEF PageFits

LEMMA JoinedFit ==
    ASSUME NEW f, NEW g, \A p \in DOMAIN f : PageFits(p, f[p]),
           \A p \in DOMAIN g : PageFits(p, g[p])
    PROVE  \A p \in DOMAIN Joined(f, g) : PageFits(p, Joined(f, g)[p])
BY DEF Joined

LEMMA BusinessFits == \A p \in DOMAIN BusinessPages : PageFits(p, BusinessPages[p])
BY BlacklistFits, AlertsFits, MerchantsFits, MerchantGamesFits, WhitelistFits, PlatformGamesFits,
   GameConfigsFits
   DEF BusinessPages

LEMMA OfficeFits == \A p \in DOMAIN OfficePages : PageFits(p, OfficePages[p])
BY DailySettlementsFits, SettlementPeriodsFits, RtpReportFits, TraceLookupFits, OfficeUsersFits,
   AuditFits
   DEF OfficePages, OfficeUsers

LEMMA PanelsFit == \A p \in DOMAIN Panels : PageFits(p, Panels[p])
BY AlertPanelFits, TracePanelFits, BlacklistPanelFits, MerchantPanelFits, BreakerPanelFits,
   WhitelistPanelFits, WhitelistDialogFits, GameConfigPanelFits, RtpPanelFits,
   SettlementPanelFits, UserPanelFits
   DEF Panels

LEMMA OthersFit == \A p \in DOMAIN OtherPages : PageFits(p, OtherPages[p])
BY DashboardFits, MerchantGameTiersFits DEF OtherPages

LEMMA PagesFits == PagesFit
<1>1. \A p \in DOMAIN Views : PageFits(p, Views[p])
  BY BusinessFits, OfficeFits, OthersFit, JoinedFit DEF Views
<1> QED
  BY <1>1, PanelsFit, JoinedFit, PagesAssumption DEF PagesFit

-----------------------------------------------------------------------------
(* Types *)

Kinds == {"free", "prelude", "load", "bind"} \cup {w.name : w \in P.writes}

CallRecords ==
    [kind : Kinds, query : Queries \cup {NoQuery}, stage : 0..2, list : 0..MaxWrites,
     rev : 0..MaxWrites, done : BOOLEAN, by : Roles \cup {"none"}]

TableRecords ==
    [query : Queries \cup {NoQuery}, rev : 0..MaxWrites, by : Roles \cup {"none"}]

SessionTypes ==
    /\ page \in DOMAIN Page /\ role \in Roles /\ token \in Roles \cup {"none"}
    /\ P.stays \/ (token = role /\ role \in P.roles)
    /\ view \in {"main", "login", "other"} /\ signIns \in 0..MaxSignIns

ShownTypes ==
    /\ field \in Queries \cup {NoQuery}
    /\ table \in TableRecords
    /\ extra \in 0..MaxWrites /\ kept \in BOOLEAN
    /\ loading \in BOOLEAN /\ dialog \in BOOLEAN

HistoryTypes ==
    /\ stored \in 0..MaxWrites
    /\ asked \in Queries \cup {NoQuery}
    /\ newest \in [slot : Slots \cup {NoSlot}, stages : 0..2]
    /\ late \in BOOLEAN /\ failed \in BOOLEAN /\ mixed \in BOOLEAN
    /\ refused \subseteq {w.name : w \in P.writes}

CallTypes == calls \in [Slots -> CallRecords]

LEMMA TypesAre == ConsoleTypeOK <=> SessionTypes /\ ShownTypes /\ CallTypes /\ HistoryTypes
BY DEF ConsoleTypeOK, SessionTypes, ShownTypes, CallTypes, HistoryTypes, CallRecords, Kinds,
       TableRecords

LEMMA PageFact ==
    ASSUME ConsoleTypeOK
    PROVE  PageFits(page, P)
BY PagesFits DEF PagesFit, ConsoleTypeOK, P

LEMMA PageStays ==
    ASSUME [Next]_consoleVars
    PROVE  page' = page
BY DEF Next, consoleVars, ClickLoad, ChangeInstant, ChangeTyped, MerchantSelected, ToggleDialog,
       ClickWrite, SignOut, OpenTab, ClickBind, SignIn, ServeLoad, Answer, PreludeDone,
       PreludeFailed, BindDone, BindFailed, ServeWrite, WriteDone, WriteFailed

LEMMA FreeFields ==
    /\ Free.kind = "free" /\ Free.query = NoQuery /\ Free.stage = 0 /\ Free.rev = 0
    /\ Free.done = FALSE /\ Free.by = "none"
BY DEF Free

LEMMA CallFields ==
    ASSUME NEW kind, NEW q, NEW stage, NEW by
    PROVE  /\ Call(kind, q, stage, by).kind = kind
           /\ Call(kind, q, stage, by).query = q
           /\ Call(kind, q, stage, by).stage = stage
           /\ Call(kind, q, stage, by).rev = 0
           /\ Call(kind, q, stage, by).done = FALSE
           /\ Call(kind, q, stage, by).by = by
BY DEF Call, Free

LEMMA CallFits ==
    ASSUME NEW kind \in Kinds, NEW q \in Queries \cup {NoQuery}, NEW stage \in 0..2,
           NEW by \in Roles \cup {"none"}
    PROVE  Call(kind, q, stage, by) \in CallRecords /\ Free \in CallRecords
<1>1. 0 \in 0..MaxWrites /\ 0 \in 0..2
  BY ConsoleAssumption
<1>2. Free \in CallRecords
  BY <1>1 DEF Free, CallRecords, Kinds
<1>3. \A f \in CallRecords :
         [f EXCEPT !.kind = kind, !.query = q, !.stage = stage, !.by = by] \in CallRecords
  BY DEF CallRecords
<1> QED
  BY <1>2, <1>3 DEF Call

LEMMA SecondFits ==
    ASSUME NEW c \in CallRecords, token \in Roles \cup {"none"}
    PROVE  /\ Second(c) \in CallRecords
           /\ Second(c).kind = "load" /\ Second(c).query = c.query /\ Second(c).stage = 2
           /\ Second(c).done = FALSE /\ Second(c).by = token
           /\ P.whole => Second(c).list = c.rev
<1> DEFINE call == Call("load", c.query, 2, token)
<1>1. call \in CallRecords
  BY CallFits DEF CallRecords, Kinds
<1>2. call.kind = "load" /\ call.query = c.query /\ call.stage = 2 /\ call.done = FALSE
      /\ call.by = token
  BY DEF Call, Free
<1> HIDE DEF call
<1>3. (IF P.whole THEN c.rev ELSE 0) \in 0..MaxWrites
  BY ConsoleAssumption DEF CallRecords
<1>4. Second(c) = [call EXCEPT !.list = IF P.whole THEN c.rev ELSE 0]
  BY DEF Second, call
<1> QED
  BY <1>1, <1>2, <1>3, <1>4 DEF CallRecords

\* What load does, in its three ways.
LoadSkips(board) ==
    /\ field' = NoQuery /\ P.needs = "skip" /\ calls' = board
    /\ UNCHANGED <<loading, table, asked, newest, late, failed>>

LoadBlanks(board) ==
    /\ field' = NoQuery /\ P.needs = "blank" /\ calls' = board /\ loading' = loading
    /\ table' = Blank /\ asked' = NoQuery /\ late' = FALSE /\ failed' = FALSE
    /\ newest' = [slot |-> NoSlot, stages |-> P.stages]

LoadIssues(board) ==
    /\ field' # NoQuery \/ P.needs = "nothing"
    /\ \E s \in Slots : Issue(s, board)

LEMMA LoadCases ==
    ASSUME ConsoleTypeOK, NEW board, Load(board)
    PROVE  LoadSkips(board) \/ LoadBlanks(board) \/ LoadIssues(board)
BY PageFact DEF PageFits, PageRecords, Load, LoadSkips, LoadBlanks, LoadIssues

LoadedTypes ==
    /\ CallTypes /\ loading \in BOOLEAN /\ table \in TableRecords
    /\ asked \in Queries \cup {NoQuery}
    /\ newest \in [slot : Slots \cup {NoSlot}, stages : 0..2]
    /\ late \in BOOLEAN /\ failed \in BOOLEAN

LEMMA LoadTypes ==
    ASSUME ConsoleTypeOK, page' = page, NEW board \in [Slots -> CallRecords], Load(board),
           token' \in Roles \cup {"none"}, field' \in Queries \cup {NoQuery}
    PROVE  LoadedTypes'
<1>1. ShownTypes /\ HistoryTypes /\ CallRecords' = CallRecords /\ Kinds' = Kinds
  BY TypesAre DEF CallRecords, Kinds, P
<1>2. P.spins \in BOOLEAN /\ P.stages \in {1, 2}
  BY PageFact DEF PageFits, PageRecords
<1>3. Blank \in TableRecords
  BY ConsoleAssumption DEF Blank, TableRecords
<1> DEFINE Fit(b, l, t, a, n, x, y) ==
      /\ b \in [Slots -> CallRecords] /\ l \in BOOLEAN /\ t \in TableRecords
      /\ a \in Queries \cup {NoQuery} /\ n \in [slot : Slots \cup {NoSlot}, stages : 0..2]
      /\ x \in BOOLEAN /\ y \in BOOLEAN
<1> SUFFICES Fit(calls', loading', table', asked', newest', late', failed')
  BY <1>1 DEF LoadedTypes, CallTypes, TableRecords
<1>4. CASE LoadSkips(board)
  BY <1>1, <1>4 DEF LoadSkips, ShownTypes, HistoryTypes
<1>5. CASE LoadBlanks(board)
  <2>1. [slot |-> NoSlot, stages |-> P.stages] \in [slot : Slots \cup {NoSlot}, stages : 0..2]
    BY <1>2
  <2> QED
    BY <1>1, <1>3, <1>5, <2>1 DEF LoadBlanks, ShownTypes
<1>6. CASE LoadIssues(board)
  <2>1. PICK s \in Slots : Issue(s, board)
    BY <1>6 DEF LoadIssues
  <2>2. Call("load", field', 1, token') \in CallRecords
    BY CallFits DEF Kinds
  <2>3. calls' \in [Slots -> CallRecords]
    BY <2>1, <2>2 DEF Issue
  <2>4. newest' \in [slot : Slots \cup {NoSlot}, stages : 0..2]
    BY <2>1 DEF Issue
  <2>5. table' \in TableRecords /\ loading' \in BOOLEAN
    BY <1>1, <1>2, <1>3, <2>1 DEF Issue, ShownTypes
  <2> QED
    BY <2>1, <2>3, <2>4, <2>5 DEF Issue
<1> QED
  BY <1>4, <1>5, <1>6, LoadCases

\* At most one binding of a second factor is on its way, on a panel only.
OneBind ==
    \A s \in Slots : calls[s].kind = "bind" =>
       P.stays /\ \A t \in Slots : calls[t].kind = "bind" => t = s

LEMMA Opened == Init => ConsoleTypeOK /\ OneBind
<1> SUFFICES ASSUME Init PROVE ConsoleTypeOK /\ OneBind
  OBVIOUS
<1>1. PageFits(page, P)
  BY PagesFits DEF Init, PagesFit, P
<1>2. P \in PageRecords /\ P.roles \subseteq Roles /\ P.stays \in BOOLEAN /\ P.spins \in BOOLEAN
  BY <1>1 DEF PageFits, PageRecords
<1>3. SessionTypes
  BY <1>2, ConsoleAssumption DEF Init, Boot, Admitted, SessionTypes
<1>4. Blank \in TableRecords /\ 0 \in 0..MaxWrites
  BY ConsoleAssumption DEF Blank, TableRecords
<1>5. ShownTypes
  BY <1>2, <1>4 DEF Init, ShownTypes
<1>6. PICK s \in Slots :
         /\ calls = [x \in Slots |->
                        IF x = s /\ P.opens = "load" THEN Call("load", field, 1, role)
                        ELSE IF x = s /\ P.opens \in {"after", "call"}
                             THEN Call("prelude", NoQuery, 1, role)
                        ELSE Free]
         /\ newest = IF P.opens = "load" THEN [slot |-> s, stages |-> 0] ELSE Newest0
  BY DEF Init
<1>7. /\ Call("load", field, 1, role) \in CallRecords
      /\ Call("prelude", NoQuery, 1, role) \in CallRecords /\ Free \in CallRecords
  <2>1. /\ "load" \in Kinds /\ "prelude" \in Kinds /\ 1 \in 0..2
        /\ NoQuery \in Queries \cup {NoQuery}
    BY DEF Kinds
  <2> QED
    BY <1>3, <1>5, <2>1, CallFits DEF SessionTypes, ShownTypes
<1>8. CallTypes
  BY <1>6, <1>7 DEF CallTypes
<1>9. HistoryTypes
  <2>1. newest \in [slot : Slots \cup {NoSlot}, stages : 0..2]
    BY <1>6 DEF Newest0
  <2> QED
    BY <1>4, <1>5, <2>1 DEF Init, HistoryTypes, ShownTypes
<1>10. OneBind
  <2>1. /\ Call("load", field, 1, role).kind = "load"
        /\ Call("prelude", NoQuery, 1, role).kind = "prelude" /\ Free.kind = "free"
    BY DEF Call, Free
  <2> QED
    BY <1>6, <2>1 DEF OneBind
<1> QED
  BY <1>3, <1>5, <1>8, <1>9, <1>10, TypesAre

\* What an answer does to the session: nothing in the new console, whose token
\* is its role.
LEMMA AnswerSession ==
    ASSUME SessionTypes, P.stays \in BOOLEAN, P' = P, page' = page, NEW s, NEW ok \in BOOLEAN,
           Answer(s, ok)
    PROVE  /\ role' \in Roles /\ token' \in Roles \cup {"none"}
           /\ P.stays \/ (token' = token /\ role' = role)
           /\ view' \in {"main", "login", "other"} /\ signIns' = signIns
<1>1. token' \in {token, "none"} /\ view' \in {view, "login"}
  BY DEF Answer, Fails, LeadTo
<1>2. P.stays \/ (token' = token /\ token # "none" /\ token = role)
  BY DEF Answer, Fails, SessionTypes, Roles
<1>3. StoredRole' \in Roles /\ (token' # "none" => StoredRole' = token')
  BY <1>1 DEF StoredRole, SessionTypes, Roles
<1>4. role' \in {role, StoredRole'}
  BY DEF Answer
<1> QED
  BY <1>1, <1>2, <1>3, <1>4 DEF Answer, SessionTypes

LEMMA TypesStep ==
    ASSUME ConsoleTypeOK, OneBind, [Next]_consoleVars
    PROVE  ConsoleTypeOK'
<1>1. /\ page' = page /\ P' = P /\ CallRecords' = CallRecords /\ TableRecords' = TableRecords
      /\ Kinds' = Kinds
  BY PageStays DEF CallRecords, TableRecords, Kinds, P
<1>2. SessionTypes /\ ShownTypes /\ CallTypes /\ HistoryTypes
  BY TypesAre
<1>3. PageFits(page, P) /\ P \in PageRecords
  BY PageFact DEF PageFits
<1>4. SUFFICES SessionTypes' /\ ShownTypes' /\ CallTypes' /\ HistoryTypes'
  BY TypesAre, <1>1
     DEF ConsoleTypeOK, SessionTypes, ShownTypes, CallTypes, HistoryTypes, CallRecords, Kinds,
         TableRecords, P
<1>5. /\ Free \in CallRecords /\ Blank \in TableRecords /\ 0 \in 0..MaxWrites
      /\ \A s \in Slots : calls[s] \in CallRecords
      /\ \A s \in Slots, c \in CallRecords : [calls EXCEPT ![s] = c] \in [Slots -> CallRecords]
  BY <1>2, ConsoleAssumption, CallFits DEF CallTypes, Blank, TableRecords, Kinds
<1>6. \A s \in Slots : /\ calls[s].by \in Roles \cup {"none"} /\ calls[s].stage \in 0..2
                      /\ calls[s].query \in Queries \cup {NoQuery}
                      /\ calls[s].rev \in 0..MaxWrites /\ calls[s].list \in 0..MaxWrites
  BY <1>5 DEF CallRecords
<1>7. StoredRole \in Roles
  BY <1>2 DEF StoredRole, SessionTypes, Roles
<1>8. RowRole \in Roles \cup {"none"}
  BY <1>7 DEF RowRole
<1>9. ASSUME LoadedTypes', SessionTypes', field' \in Queries \cup {NoQuery}, extra' = extra,
             kept' \in {kept, FALSE}, dialog' \in BOOLEAN, UNCHANGED <<stored, mixed, refused>>
      PROVE  SessionTypes' /\ ShownTypes' /\ CallTypes' /\ HistoryTypes'
  BY <1>1, <1>2, <1>9 DEF LoadedTypes, ShownTypes, HistoryTypes
<1>10. ASSUME NEW board \in [Slots -> CallRecords], Load(board), SessionTypes',
              field' \in Queries \cup {NoQuery}
       PROVE  LoadedTypes'
  BY <1>1, <1>10, LoadTypes DEF SessionTypes
<1>11. ASSUME UNCHANGED <<calls, loading, table, asked, newest, late, failed>>
       PROVE  LoadedTypes'
  BY <1>1, <1>2, <1>11 DEF LoadedTypes, CallTypes, ShownTypes, HistoryTypes
<1>12. ASSUME UNCHANGED session
       PROVE  SessionTypes'
  BY <1>1, <1>2, <1>12 DEF SessionTypes, session
<1>13. ASSUME NEW s \in Slots, NEW leads, Fails(s, leads), role' = role, signIns' = signIns
       PROVE  SessionTypes'
  BY <1>1, <1>2, <1>13 DEF Fails, LeadTo, SessionTypes
<1>14. calls \in [Slots -> CallRecords]
  BY <1>2 DEF CallTypes
<1>15. CASE UNCHANGED consoleVars
  BY <1>1, <1>2, <1>15
     DEF consoleVars, session, shown, history, SessionTypes, ShownTypes, CallTypes, HistoryTypes
<1>16. CASE ClickLoad
  <2>1. SessionTypes' /\ field' \in Queries \cup {NoQuery} /\ Load(calls)
    BY <1>2, <1>12, <1>16 DEF ClickLoad, ShownTypes
  <2> QED
    BY <1>2, <1>9, <1>10, <1>14, <1>16, <2>1 DEF ClickLoad, ShownTypes
<1>17. CASE ChangeInstant
  <2>1. SessionTypes' /\ field' \in Queries \cup {NoQuery} /\ Load(calls)
    BY <1>2, <1>12, <1>17 DEF ChangeInstant, ShownTypes
  <2> QED
    BY <1>2, <1>9, <1>10, <1>14, <1>17, <2>1 DEF ChangeInstant, ShownTypes
<1>18. CASE ChangeTyped
  BY <1>1, <1>2, <1>12, <1>18 DEF ChangeTyped, ShownTypes, CallTypes, HistoryTypes, history
<1>19. CASE MerchantSelected
  <2>1. SessionTypes' /\ field' \in Queries \cup {NoQuery} /\ Load(calls)
    BY <1>2, <1>12, <1>19 DEF MerchantSelected, ShownTypes
  <2> QED
    BY <1>2, <1>9, <1>10, <1>14, <1>19, <2>1 DEF MerchantSelected, ShownTypes
<1>20. CASE ToggleDialog
  BY <1>1, <1>2, <1>12, <1>20 DEF ToggleDialog, ShownTypes, CallTypes, HistoryTypes, history
<1>21. ASSUME NEW w \in P.writes, ClickWrite(w)
       PROVE  SessionTypes' /\ ShownTypes' /\ CallTypes' /\ HistoryTypes'
  <2>1. PICK s \in Slots : calls' = [calls EXCEPT ![s] = Call(w.name, field, 0, token)]
    BY <1>21 DEF ClickWrite
  <2>2. Call(w.name, field, 0, token) \in CallRecords
    BY <1>2, CallFits DEF Kinds, SessionTypes, ShownTypes
  <2>3. CallTypes'
    BY <1>1, <1>5, <2>1, <2>2 DEF CallTypes
  <2>4. ShownTypes' /\ SessionTypes'
    BY <1>1, <1>2, <1>12, <1>21 DEF ClickWrite, shown, ShownTypes
  <2>5. HistoryTypes'
    BY <1>1, <1>2, <1>21 DEF ClickWrite, HistoryTypes
  <2> QED
    BY <2>3, <2>4, <2>5
<1>22. CASE SignOut
  BY <1>1, <1>2, <1>22
     DEF SignOut, SessionTypes, ShownTypes, CallTypes, HistoryTypes, shown, history
<1>23. CASE OpenTab
  <2>1. SessionTypes' /\ field' \in Queries \cup {NoQuery}
    BY <1>1, <1>2, <1>23 DEF OpenTab, SessionTypes, ShownTypes
  <2>2. LoadedTypes'
    BY <1>10, <1>11, <1>14, <1>23, <2>1 DEF OpenTab
  <2> QED
    BY <1>2, <1>9, <1>23, <2>1, <2>2 DEF OpenTab, ShownTypes
<1>24. CASE ClickBind
  <2>1. PICK s \in Slots : calls' = [calls EXCEPT ![s] = Call("bind", NoQuery, 0, token)]
    BY <1>24 DEF ClickBind
  <2>2. Call("bind", NoQuery, 0, token) \in CallRecords
    BY <1>2, CallFits DEF Kinds, SessionTypes
  <2>3. CallTypes'
    BY <1>1, <1>5, <2>1, <2>2 DEF CallTypes
  <2>4. ShownTypes' /\ SessionTypes' /\ HistoryTypes'
    BY <1>1, <1>2, <1>12, <1>24 DEF ClickBind, shown, history, ShownTypes, HistoryTypes
  <2> QED
    BY <2>3, <2>4
<1>25. ASSUME NEW r \in Roles, SignIn(r)
       PROVE  SessionTypes' /\ ShownTypes' /\ CallTypes' /\ HistoryTypes'
  <2>1. SessionTypes' /\ field' \in Queries \cup {NoQuery}
    BY <1>1, <1>2, <1>25, ConsoleAssumption DEF SignIn, PersistAuth, SessionTypes, ShownTypes
  <2>2. LoadedTypes'
    BY <1>10, <1>11, <1>14, <1>25, <2>1 DEF SignIn
  <2> QED
    BY <1>2, <1>9, <1>25, <2>1, <2>2 DEF SignIn, ShownTypes
<1>26. ASSUME NEW s \in Slots, ServeLoad(s)
       PROVE  SessionTypes' /\ ShownTypes' /\ CallTypes' /\ HistoryTypes'
  <2>1. [calls[s] EXCEPT !.rev = stored, !.done = TRUE] \in CallRecords
    BY <1>2, <1>5 DEF CallRecords, HistoryTypes
  <2>2. calls' = [calls EXCEPT ![s] = [calls[s] EXCEPT !.rev = stored, !.done = TRUE]]
    BY <1>14, <1>26 DEF ServeLoad
  <2>3. CallTypes'
    BY <1>1, <1>5, <2>1, <2>2 DEF CallTypes
  <2>4. ShownTypes' /\ SessionTypes' /\ HistoryTypes'
    BY <1>1, <1>2, <1>12, <1>26 DEF ServeLoad, shown, history, ShownTypes, HistoryTypes
  <2> QED
    BY <2>3, <2>4
<1>27. ASSUME NEW s \in Slots, NEW ok \in BOOLEAN, Answer(s, ok)
       PROVE  SessionTypes' /\ ShownTypes' /\ CallTypes' /\ HistoryTypes'
  <2>1. SessionTypes'
    BY <1>1, <1>2, <1>3, <1>27, AnswerSession DEF SessionTypes, PageRecords
  <2>2. table' \in TableRecords
    <3> DEFINE Got(rev) == [query |-> calls[s].query, rev |-> rev, by |-> RowRole]
    <3>1. Got(calls[s].rev) \in TableRecords /\ Got(calls[s].list) \in TableRecords
      BY <1>6, <1>8 DEF TableRecords
    <3>2. table' \in {table, Blank, Got(calls[s].rev), Got(calls[s].list)}
      BY <1>27 DEF Answer
    <3> QED
      BY <1>2, <1>5, <3>1, <3>2 DEF ShownTypes
  <2>3. /\ extra' \in 0..MaxWrites /\ kept' \in BOOLEAN /\ loading' \in BOOLEAN
        /\ UNCHANGED <<field, dialog>>
    BY <1>2, <1>3, <1>5, <1>6, <1>27 DEF Answer, EndLoad, ShownTypes, PageRecords
  <2>4. ShownTypes'
    BY <1>1, <1>2, <2>2, <2>3 DEF ShownTypes
  <2>5. CallTypes'
    <3>1. Second(calls[s]) \in CallRecords
      BY <1>2, <1>5, SecondFits DEF SessionTypes
    <3> QED
      BY <1>1, <1>5, <1>27, <3>1 DEF Answer, EndLoad, CallTypes
  <2>6. newest' \in [slot : Slots \cup {NoSlot}, stages : 0..2]
    BY <1>2, <1>6, <1>27 DEF Answer, HistoryTypes
  <2>7. HistoryTypes'
    BY <1>1, <1>2, <1>27, <2>6 DEF Answer, HistoryTypes
  <2> QED
    BY <2>1, <2>4, <2>5, <2>7
<1>28. ASSUME NEW s \in Slots, PreludeDone(s)
       PROVE  SessionTypes' /\ ShownTypes' /\ CallTypes' /\ HistoryTypes'
  <2>1. SessionTypes' /\ field' \in Queries \cup {NoQuery}
    BY <1>2, <1>12, <1>28 DEF PreludeDone, ShownTypes
  <2>2. LoadedTypes'
    <3>1. CASE P.opens = "after"
      BY <1>5, <1>10, <1>28, <2>1, <3>1 DEF PreludeDone
    <3>2. CASE P.opens # "after"
      BY <1>1, <1>2, <1>5, <1>28, <3>2
         DEF PreludeDone, LoadedTypes, CallTypes, ShownTypes, HistoryTypes
    <3> QED
      BY <3>1, <3>2
  <2> QED
    BY <1>2, <1>9, <1>28, <2>1, <2>2 DEF PreludeDone, ShownTypes
<1>29. ASSUME NEW s \in Slots, PreludeFailed(s)
       PROVE  SessionTypes' /\ ShownTypes' /\ CallTypes' /\ HistoryTypes'
  <2>1. SessionTypes'
    BY <1>13, <1>29 DEF PreludeFailed
  <2> QED
    BY <1>1, <1>2, <1>5, <1>29, <2>1 DEF PreludeFailed, ShownTypes, CallTypes, HistoryTypes
<1>30. ASSUME NEW s \in Slots, BindDone(s)
       PROVE  SessionTypes' /\ ShownTypes' /\ CallTypes' /\ HistoryTypes'
  <2>1. SessionTypes'
    BY <1>1, <1>2, <1>6, <1>30 DEF BindDone, PersistAuth, SessionTypes, OneBind
  <2> QED
    BY <1>1, <1>2, <1>5, <1>30, <2>1
       DEF BindDone, shown, history, ShownTypes, CallTypes, HistoryTypes
<1>31. ASSUME NEW s \in Slots, BindFailed(s)
       PROVE  SessionTypes' /\ ShownTypes' /\ CallTypes' /\ HistoryTypes'
  <2>1. SessionTypes'
    BY <1>13, <1>31 DEF BindFailed
  <2> QED
    BY <1>1, <1>2, <1>5, <1>31, <2>1
       DEF BindFailed, shown, history, ShownTypes, CallTypes, HistoryTypes
<1>32. ASSUME NEW s \in Slots, NEW w \in P.writes, ServeWrite(w, s)
       PROVE  SessionTypes' /\ ShownTypes' /\ CallTypes' /\ HistoryTypes'
  <2>1. [calls[s] EXCEPT !.done = TRUE] \in CallRecords
    BY <1>5 DEF CallRecords
  <2>2. calls' = [calls EXCEPT ![s] = [calls[s] EXCEPT !.done = TRUE]]
    BY <1>14, <1>32 DEF ServeWrite
  <2>3. CallTypes'
    BY <1>1, <1>5, <2>1, <2>2 DEF CallTypes
  <2>4. stored' \in 0..MaxWrites
    BY <1>2, <1>32, ConsoleAssumption DEF ServeWrite, HistoryTypes
  <2>5. ShownTypes' /\ SessionTypes' /\ HistoryTypes'
    BY <1>1, <1>2, <1>12, <1>32, <2>4 DEF ServeWrite, shown, history, ShownTypes, HistoryTypes
  <2> QED
    BY <2>3, <2>5
<1>33. ASSUME NEW s \in Slots, NEW w \in P.writes, WriteDone(w, s)
       PROVE  SessionTypes' /\ ShownTypes' /\ CallTypes' /\ HistoryTypes'
  <2>1. SessionTypes' /\ field' \in Queries \cup {NoQuery} /\ dialog' \in BOOLEAN
    BY <1>2, <1>12, <1>33 DEF WriteDone, ShownTypes
  <2>2. LoadedTypes'
    <3>1. CASE w.reload
      BY <1>5, <1>10, <1>33, <2>1, <3>1 DEF WriteDone
    <3>2. CASE ~w.reload
      BY <1>1, <1>2, <1>5, <1>33, <3>2
         DEF WriteDone, LoadedTypes, CallTypes, ShownTypes, HistoryTypes
    <3> QED
      BY <3>1, <3>2
  <2> QED
    BY <1>2, <1>9, <1>33, <2>1, <2>2 DEF WriteDone, ShownTypes
<1>34. ASSUME NEW s \in Slots, NEW w \in P.writes, WriteFailed(w, s)
       PROVE  SessionTypes' /\ ShownTypes' /\ CallTypes' /\ HistoryTypes'
  <2>1. SessionTypes'
    BY <1>13, <1>34 DEF WriteFailed
  <2> QED
    BY <1>1, <1>2, <1>5, <1>34, <2>1 DEF WriteFailed, shown, ShownTypes, CallTypes, HistoryTypes
<1> QED
  BY <1>15, <1>16, <1>17, <1>18, <1>19, <1>20, <1>21, <1>22, <1>23, <1>24, <1>25, <1>26, <1>27,
     <1>28, <1>29, <1>30, <1>31, <1>32, <1>33, <1>34 DEF Next

-----------------------------------------------------------------------------
(* What a step does to the calls on their way *)

CallKept(s) ==
    /\ calls'[s].kind = calls[s].kind /\ calls'[s].by = calls[s].by
    /\ calls'[s].stage = calls[s].stage

CallEnds(s) ==
    /\ calls'[s] = Free
    /\ calls[s].kind = "load" => \E ok \in BOOLEAN : Answer(s, ok)

CallLoads(s) ==
    /\ calls'[s].kind = "load"
    /\ \/ calls'[s].stage = 1
       \/ calls'[s].stage = 2 /\ calls[s].kind = "load" /\ calls[s].stage < P.stages

CallBinds(s) ==
    /\ ClickBind /\ calls[s] = Free
    /\ calls'[s].kind = "bind" /\ calls'[s].by = token
    /\ \A t \in Slots : t # s => calls'[t] = calls[t]

CallWrites(s) ==
    /\ calls[s] = Free
    /\ \E w \in P.writes :
          ClickWrite(w) /\ calls'[s].kind = w.name /\ calls'[s].by = token

CallMoves(s) == CallKept(s) \/ CallEnds(s) \/ CallLoads(s) \/ CallBinds(s) \/ CallWrites(s)

LEMMA WriteKinds ==
    ASSUME ConsoleTypeOK, NEW w \in P.writes
    PROVE  w.name \notin {"free", "prelude", "load", "bind"}
<1>1. w \in WriteRecords
  BY PageFact DEF PageFits, PageRecords
<1>2. w.name \in WriteNames
  BY <1>1 DEF WriteRecords
<1> QED
  BY <1>2, Names

\* load sends one call, from a free place; or none.
LEMMA LoadCalls ==
    ASSUME ConsoleTypeOK, NEW board \in [Slots -> CallRecords], Load(board)
    PROVE  /\ \A s \in Slots :
                 \/ calls'[s] = board[s]
                 \/ calls'[s].kind = "load" /\ calls'[s].stage = 1 /\ board[s].kind = "free"
           /\ (\E s \in Slots : board[s].kind = "load") =>
                 \E s \in Slots : calls'[s].kind = "load"
<1>1. CASE LoadSkips(board) \/ LoadBlanks(board)
  BY <1>1 DEF LoadSkips, LoadBlanks
<1>2. CASE LoadIssues(board)
  <2>1. PICK s \in Slots : Issue(s, board)
    BY <1>2 DEF LoadIssues
  <2>2. /\ Call("load", field', 1, token').kind = "load" /\ Free.kind = "free"
        /\ Call("load", field', 1, token').stage = 1
    BY DEF Call, Free
  <2> QED
    BY <2>1, <2>2 DEF Issue
<1> QED
  BY <1>1, <1>2, LoadCases

LEMMA CallsStep ==
    ASSUME ConsoleTypeOK, [Next]_consoleVars, NEW s \in Slots
    PROVE  CallMoves(s)
<1>1. calls \in [Slots -> CallRecords] /\ Free.kind = "free" /\ Free \in CallRecords
  BY TypesAre, ConsoleAssumption, CallFits, FreeFields DEF CallTypes, Kinds
<1>2. CASE UNCHANGED calls
  BY <1>2 DEF CallMoves, CallKept
<1>3. CASE Load(calls)
  BY <1>1, <1>3, LoadCalls DEF CallMoves, CallKept, CallLoads
<1>4. ASSUME NEW t \in Slots, Load([calls EXCEPT ![t] = Free]), calls[t].kind # "load"
      PROVE  CallMoves(s)
  <2>1. [calls EXCEPT ![t] = Free] \in [Slots -> CallRecords]
    BY <1>1
  <2>2. \/ calls'[s] = [calls EXCEPT ![t] = Free][s]
        \/ calls'[s].kind = "load" /\ calls'[s].stage = 1
    BY <1>4, <2>1, LoadCalls
  <2> QED
    BY <1>1, <1>4, <2>2 DEF CallMoves, CallKept, CallLoads, CallEnds
<1>5. ASSUME NEW t \in Slots, calls' = [calls EXCEPT ![t] = Free], calls[t].kind # "load"
      PROVE  CallMoves(s)
  BY <1>1, <1>5 DEF CallMoves, CallKept, CallEnds
<1>6. ASSUME NEW w \in P.writes, ClickWrite(w)
      PROVE  CallMoves(s)
  <2>1. PICK t \in Slots :
           calls[t] = Free /\ calls' = [calls EXCEPT ![t] = Call(w.name, field, 0, token)]
    BY <1>6 DEF ClickWrite
  <2>2. /\ Call(w.name, field, 0, token).kind = w.name
        /\ Call(w.name, field, 0, token).by = token
    BY DEF Call, Free
  <2> QED
    BY <1>1, <1>6, <2>1, <2>2 DEF CallMoves, CallKept, CallWrites
<1>7. CASE ClickBind
  <2>1. PICK t \in Slots :
           calls[t] = Free /\ calls' = [calls EXCEPT ![t] = Call("bind", NoQuery, 0, token)]
    BY <1>7 DEF ClickBind
  <2>2. /\ Call("bind", NoQuery, 0, token).kind = "bind"
        /\ Call("bind", NoQuery, 0, token).by = token
    BY DEF Call, Free
  <2> QED
    BY <1>1, <1>7, <2>1, <2>2 DEF CallMoves, CallKept, CallBinds
<1>8. ASSUME NEW t \in Slots, ServeLoad(t)
      PROVE  CallMoves(s)
  <2>1. /\ [calls[t] EXCEPT !.rev = stored, !.done = TRUE].kind = calls[t].kind
        /\ [calls[t] EXCEPT !.rev = stored, !.done = TRUE].by = calls[t].by
        /\ [calls[t] EXCEPT !.rev = stored, !.done = TRUE].stage = calls[t].stage
    BY <1>1 DEF CallRecords
  <2>2. calls' = [calls EXCEPT ![t] = [calls[t] EXCEPT !.rev = stored, !.done = TRUE]]
    BY <1>1, <1>8 DEF ServeLoad
  <2> QED
    BY <1>1, <2>1, <2>2 DEF CallMoves, CallKept
<1>9. ASSUME NEW t \in Slots, NEW w \in P.writes, ServeWrite(w, t)
      PROVE  CallMoves(s)
  <2>1. /\ [calls[t] EXCEPT !.done = TRUE].kind = calls[t].kind
        /\ [calls[t] EXCEPT !.done = TRUE].by = calls[t].by
        /\ [calls[t] EXCEPT !.done = TRUE].stage = calls[t].stage
    BY <1>1 DEF CallRecords
  <2>2. calls' = [calls EXCEPT ![t] = [calls[t] EXCEPT !.done = TRUE]]
    BY <1>1, <1>9 DEF ServeWrite
  <2> QED
    BY <1>1, <2>1, <2>2 DEF CallMoves, CallKept
<1>10. ASSUME NEW t \in Slots, NEW ok \in BOOLEAN, Answer(t, ok)
       PROVE  CallMoves(s)
  <2>1. Second(calls[t]).kind = "load" /\ Second(calls[t]).stage = 2
    BY <1>1, SecondFits DEF ConsoleTypeOK
  <2>2. calls'[s] = calls[s] \/ CallLoads(s) \/ (s = t /\ calls'[s] = Free)
    BY <1>1, <1>10, <2>1 DEF Answer, EndLoad, CallLoads
  <2> QED
    BY <1>10, <2>2 DEF CallMoves, CallKept, CallEnds
<1>11. CASE UNCHANGED consoleVars \/ ChangeTyped \/ ToggleDialog \/ SignOut
  BY <1>2, <1>11 DEF consoleVars, ChangeTyped, ToggleDialog, SignOut
<1>12. CASE ClickLoad \/ ChangeInstant \/ MerchantSelected \/ OpenTab
            \/ \E r \in Roles : SignIn(r)
  BY <1>2, <1>3, <1>12 DEF ClickLoad, ChangeInstant, MerchantSelected, OpenTab, SignIn
<1>13. ASSUME NEW t \in Slots,
              \/ PreludeDone(t) \/ PreludeFailed(t) \/ BindDone(t) \/ BindFailed(t)
       PROVE  CallMoves(s)
  BY <1>4, <1>5, <1>13 DEF PreludeDone, PreludeFailed, BindDone, BindFailed
<1>14. ASSUME NEW t \in Slots, NEW w \in P.writes, WriteDone(w, t) \/ WriteFailed(w, t)
       PROVE  CallMoves(s)
  BY <1>4, <1>5, <1>14, WriteKinds DEF WriteDone, WriteFailed
<1> QED
  BY <1>6, <1>7, <1>8, <1>9, <1>10, <1>11, <1>12, <1>13, <1>14 DEF Next

LEMMA OneBindStep ==
    ASSUME ConsoleTypeOK, OneBind, [Next]_consoleVars
    PROVE  OneBind'
<1>1. P' = P
  BY PageStays DEF P
<1>2. CASE ClickBind
  BY <1>1, <1>2, FreeFields DEF ClickBind, OneBind, Call
<1>3. CASE ~ClickBind
  <2>1. ASSUME NEW s \in Slots, calls'[s].kind = "bind"
        PROVE  calls[s].kind = "bind"
    BY <1>3, <2>1, CallsStep, WriteKinds, FreeFields
       DEF CallMoves, CallKept, CallEnds, CallLoads, CallBinds, CallWrites
  <2> QED
    BY <1>1, <2>1 DEF OneBind
<1> QED
  BY <1>2, <1>3

\* A load has as many stages as its page.
LoadStages == \A s \in Slots : calls[s].kind = "load" => calls[s].stage \in 1..P.stages

LEMMA StagesStep ==
    ASSUME ConsoleTypeOK, LoadStages, [Next]_consoleVars
    PROVE  LoadStages'
<1>1. P' = P /\ P.stages \in {1, 2}
  BY PageStays, PageFact DEF P, PageFits, PageRecords
<1> SUFFICES ASSUME NEW s \in Slots, calls'[s].kind = "load"
             PROVE  calls'[s].stage \in 1..P.stages
  BY <1>1 DEF LoadStages
<1>2. CASE CallKept(s) \/ CallLoads(s)
  BY <1>1, <1>2 DEF CallKept, CallLoads, LoadStages
<1>3. ~CallEnds(s) /\ ~CallBinds(s) /\ ~CallWrites(s)
  BY FreeFields, WriteKinds DEF CallEnds, CallBinds, CallWrites
<1> QED
  BY <1>2, <1>3, CallsStep DEF CallMoves

Typed == ConsoleTypeOK /\ OneBind /\ LoadStages

LEMMA TypedHolds == Spec => []Typed
<1>1. Init => Typed
  <2>1. Init => LoadStages
    <3> SUFFICES ASSUME Init, NEW s \in Slots, calls[s].kind = "load"
                 PROVE  calls[s].stage \in 1..P.stages
      BY DEF LoadStages
    <3>1. P.stages \in {1, 2}
      BY Opened, PageFact DEF PageFits, PageRecords
    <3>2. /\ Call("load", field, 1, role).stage = 1 /\ Free.kind = "free"
          /\ Call("prelude", NoQuery, 1, role).kind = "prelude"
      BY DEF Call, Free
    <3> QED
      BY <3>1, <3>2 DEF Init
  <2> QED
    BY <2>1, Opened DEF Typed
<1>2. Typed /\ [Next]_consoleVars => Typed'
  BY TypesStep, OneBindStep, StagesStep DEF Typed
<1> QED
  BY <1>1, <1>2, PTL DEF Spec

\* Type invariant: ConsoleTypeOK, which needs that bindings are the panels'.
THEOREM ConsoleTypesHold == Spec => []ConsoleTypeOK
<1>1. Spec => []Typed
  BY TypedHolds
<1>2. Typed => ConsoleTypeOK
  BY DEF Typed
<1> QED
  BY <1>1, <1>2, PTL

-----------------------------------------------------------------------------
(* The spinner *)

LEMMA SpinnerStep ==
    ASSUME ConsoleTypeOK, SpinnerHasLoad, [Next]_consoleVars
    PROVE  SpinnerHasLoad'
<1>1. calls \in [Slots -> CallRecords] /\ Free \in CallRecords /\ Free.kind = "free"
  BY TypesAre, ConsoleAssumption, CallFits, FreeFields DEF CallTypes, Kinds
<1>2. SUFFICES ASSUME loading'
               PROVE  \E s \in Slots : calls'[s].kind = "load"
  BY DEF SpinnerHasLoad, Loads
\* Where the spinner stays on, so does what it is on for.
<1>3. ASSUME loading' = loading, \A s \in Slots, ok \in BOOLEAN : ~Answer(s, ok)
      PROVE  \E s \in Slots : calls'[s].kind = "load"
  <2>1. PICK s \in Slots : calls[s].kind = "load"
    BY <1>2, <1>3 DEF SpinnerHasLoad, Loads
  <2>2. calls'[s].kind = "load"
    BY <1>3, <2>1, CallsStep, FreeFields
       DEF CallMoves, CallKept, CallEnds, CallLoads, CallBinds, CallWrites
  <2> QED
    BY <2>2
<1>4. ASSUME NEW board \in [Slots -> CallRecords], Load(board),
             loading => \E s \in Slots : board[s].kind = "load"
      PROVE  \E s \in Slots : calls'[s].kind = "load"
  <2>1. CASE LoadSkips(board) \/ LoadBlanks(board)
    BY <1>2, <1>4, <2>1 DEF LoadSkips, LoadBlanks
  <2>2. CASE LoadIssues(board)
    BY <1>4, <2>2 DEF LoadIssues, Issue, Call, Free
  <2> QED
    BY <1>4, <2>1, <2>2, LoadCases
<1>5. ASSUME NEW t \in Slots, Load([calls EXCEPT ![t] = Free]), calls[t].kind # "load"
      PROVE  \E s \in Slots : calls'[s].kind = "load"
  <2>1. [calls EXCEPT ![t] = Free] \in [Slots -> CallRecords]
    BY <1>1
  <2>2. loading => \E s \in Slots : [calls EXCEPT ![t] = Free][s].kind = "load"
    BY <1>1, <1>5 DEF SpinnerHasLoad, Loads
  <2> QED
    BY <1>4, <1>5, <2>1, <2>2
<1>6. CASE Load(calls)
  BY <1>1, <1>4, <1>6 DEF SpinnerHasLoad, Loads
<1>7. ASSUME NEW t \in Slots, NEW ok \in BOOLEAN, Answer(t, ok)
      PROVE  \E s \in Slots : calls'[s].kind = "load"
  <2>1. Second(calls[t]).kind = "load"
    BY <1>1, SecondFits DEF ConsoleTypeOK
  <2> QED
    BY <1>1, <1>2, <1>7, <2>1 DEF Answer, EndLoad
<1>8. CASE \E s \in Slots, ok \in BOOLEAN : Answer(s, ok)
  BY <1>7, <1>8
<1>9. CASE UNCHANGED loading /\ \A s \in Slots, ok \in BOOLEAN : ~Answer(s, ok)
  BY <1>3, <1>9
<1>10. CASE \E s \in Slots : Load([calls EXCEPT ![s] = Free]) /\ calls[s].kind # "load"
  BY <1>5, <1>10
<1>11. UNCHANGED loading \/ Load(calls) \/ (\E s \in Slots, ok \in BOOLEAN : Answer(s, ok))
         \/ \E s \in Slots : Load([calls EXCEPT ![s] = Free]) /\ calls[s].kind # "load"
  <2>1. CASE UNCHANGED consoleVars \/ ChangeTyped \/ ToggleDialog \/ SignOut \/ ClickBind
             \/ \E w \in P.writes : ClickWrite(w)
    BY <2>1 DEF consoleVars, shown, ChangeTyped, ToggleDialog, SignOut, ClickBind, ClickWrite
  <2>2. CASE ClickLoad \/ ChangeInstant \/ MerchantSelected \/ OpenTab
             \/ \E r \in Roles : SignIn(r)
    BY <2>2 DEF ClickLoad, ChangeInstant, MerchantSelected, OpenTab, SignIn
  <2>3. ASSUME NEW t \in Slots,
               \/ ServeLoad(t) \/ PreludeDone(t) \/ PreludeFailed(t) \/ BindDone(t)
               \/ BindFailed(t)
        PROVE  UNCHANGED loading \/ (Load([calls EXCEPT ![t] = Free]) /\ calls[t].kind # "load")
    BY <2>3 DEF ServeLoad, PreludeDone, PreludeFailed, BindDone, BindFailed, shown
  <2>4. ASSUME NEW t \in Slots, NEW w \in P.writes,
               ServeWrite(w, t) \/ WriteDone(w, t) \/ WriteFailed(w, t)
        PROVE  UNCHANGED loading \/ (Load([calls EXCEPT ![t] = Free]) /\ calls[t].kind # "load")
    BY <2>4, WriteKinds DEF ServeWrite, WriteDone, WriteFailed, shown
  <2> QED
    BY <2>1, <2>2, <2>3, <2>4 DEF Next
<1> QED
  BY <1>6, <1>8, <1>9, <1>10, <1>11

\* The spinner never outlives the loads, over every path out of load and
\* whatever else is on its way.
THEOREM SpinnerEndsWithLoad == Spec => []SpinnerHasLoad
<1>1. Init => SpinnerHasLoad
  <2> SUFFICES ASSUME Init, loading PROVE \E s \in Slots : calls[s].kind = "load"
    BY DEF SpinnerHasLoad, Loads
  <2>1. Call("load", field, 1, role).kind = "load"
    BY DEF Call, Free
  <2> QED
    BY <2>1 DEF Init
<1>2. ConsoleTypeOK /\ SpinnerHasLoad /\ [Next]_consoleVars => SpinnerHasLoad'
  BY SpinnerStep
<1> QED
  BY <1>1, <1>2, ConsoleTypesHold, PTL DEF Spec

-----------------------------------------------------------------------------
(* Whom the buttons are for *)

\* The buttons are those of the stored token, if there is one.
TokenIsRole == token \in {role, "none"}

\* In the first session rows with buttons were rendered for the stored token:
\* those rendered without one are not on the screen with one.
RowsAreOurs ==
    /\ view = "other" => signIns > 0
    /\ (\E w \in P.writes : w.row) /\ signIns = 0 /\ view = "main" =>
          /\ table # Blank /\ token # "none" => table.by = token
          /\ \A s \in Slots : calls[s].kind = "bind" => calls[s].by \in {token, "none"}

\* What the pages are known to offer beyond the service's rules.
Excepted(name) ==
    \/ page = "merchantGames" /\ name = "importMerchantGames"
    \/ page = "settlementPanel" /\ signIns > 0 /\ name = "confirm"

CallsPermitted ==
    \A s \in Slots, w \in P.writes :
        calls[s].kind = w.name =>
            calls[s].by = "none" \/ Permitted(w.name, calls[s].by) \/ Excepted(w.name)

LEMMA TokenStep ==
    ASSUME ConsoleTypeOK, OneBind, TokenIsRole, [Next]_consoleVars
    PROVE  TokenIsRole'
<1>1. token \in Roles \cup {"none"} /\ role \in Roles /\ role # "none"
      /\ (P.stays \/ token = role)
  BY DEF ConsoleTypeOK, Roles
<1>2. ASSUME NEW s, NEW leads, Fails(s, leads), role' = role
      PROVE  TokenIsRole'
  BY <1>2 DEF Fails, TokenIsRole
<1>3. CASE UNCHANGED <<token, role>>
  BY <1>3 DEF TokenIsRole
<1>4. ASSUME NEW s \in Slots, NEW ok \in BOOLEAN, Answer(s, ok)
      PROVE  TokenIsRole'
  BY <1>1, <1>2, <1>4 DEF Answer, StoredRole, TokenIsRole
<1>5. ASSUME NEW s \in Slots,
             \/ PreludeFailed(s) \/ BindFailed(s) \/ \E w \in P.writes : WriteFailed(w, s)
      PROVE  TokenIsRole'
  BY <1>2, <1>5 DEF PreludeFailed, BindFailed, WriteFailed
<1>6. CASE SignOut \/ (\E r \in Roles : SignIn(r)) \/ \E s \in Slots : BindDone(s)
  BY <1>6 DEF SignOut, SignIn, BindDone, PersistAuth, TokenIsRole
<1>7. CASE UNCHANGED consoleVars \/ ClickLoad \/ ChangeInstant \/ ChangeTyped \/ MerchantSelected
           \/ ToggleDialog \/ OpenTab \/ ClickBind \/ \E w \in P.writes : ClickWrite(w)
  BY <1>3, <1>7 DEF consoleVars, session, ClickLoad, ChangeInstant, ChangeTyped,
        MerchantSelected, ToggleDialog, OpenTab, ClickBind, ClickWrite
<1>8. ASSUME NEW s \in Slots,
             \/ ServeLoad(s) \/ PreludeDone(s)
             \/ \E w \in P.writes : ServeWrite(w, s) \/ WriteDone(w, s)
      PROVE  TokenIsRole'
  BY <1>3, <1>8 DEF session, ServeLoad, PreludeDone, ServeWrite, WriteDone
<1> QED
  BY <1>4, <1>5, <1>6, <1>7, <1>8 DEF Next

LEMMA RowsStep ==
    ASSUME Typed, TokenIsRole, RowsAreOurs, [Next]_consoleVars
    PROVE  RowsAreOurs'
<1> USE DEF Typed
<1>1. /\ page' = page /\ P' = P /\ PageFits(page, P) /\ Free.kind = "free"
      /\ token \in Roles \cup {"none"} /\ role \in Roles /\ signIns \in Nat
  BY PageStays, PageFact, FreeFields DEF P, ConsoleTypeOK
<1> DEFINE Rows == \E w \in P.writes : w.row
<1>2. Rows => ~P.quiet /\ P.stages = 1 /\ \A w \in P.writes : w.leaves
  BY <1>1 DEF PageFits, WritesFit, RowsFit
<1>8. calls \in [Slots -> CallRecords]
  BY TypesAre DEF CallTypes
\* A load leaves the rows as they are, or none.
<1>3. ASSUME NEW board, Load(board)
      PROVE  table' \in {table, Blank}
  BY <1>3, LoadCases DEF LoadSkips, LoadBlanks, LoadIssues, Issue
\* Where nobody signs in or out, and no binding is sent.
<1>4. ASSUME UNCHANGED session, table' \in {table, Blank}, ~ClickBind
      PROVE  RowsAreOurs'
  <2>1. \A s \in Slots : calls'[s].kind = "bind" =>
           calls[s].kind = "bind" /\ calls'[s].by = calls[s].by
    BY <1>1, <1>4, CallsStep, WriteKinds
       DEF CallMoves, CallKept, CallEnds, CallLoads, CallBinds, CallWrites
  <2>2. Blank' = Blank
    BY DEF Blank
  <2> QED
    BY <1>1, <1>4, <2>1, <2>2 DEF RowsAreOurs, session
\* A 401 leads to the login.
<1>5. ASSUME NEW s, NEW leads, Fails(s, leads), Rows => leads, signIns' = signIns,
             Rows => table' \in {table, Blank},
             \A t \in Slots : calls'[t].kind = "bind" => calls'[t] = calls[t]
      PROVE  RowsAreOurs'
  <2>1. CASE UNCHANGED <<token, view>>
    <3>1. Blank' = Blank
      BY DEF Blank
    <3> QED
      BY <1>1, <1>5, <2>1, <3>1 DEF RowsAreOurs
  <2>2. CASE ~UNCHANGED <<token, view>>
    <3>1. view' = IF leads THEN "login" ELSE view
      BY <1>5, <2>2 DEF Fails, LeadTo
    <3> QED
      BY <1>1, <1>5, <3>1 DEF RowsAreOurs
  <2> QED
    BY <2>1, <2>2
<1>6. ASSUME NEW s \in Slots, Answer(s, TRUE)
      PROVE  RowsAreOurs'
  <2>1. Rows /\ token # "none" => RowRole = token
    BY DEF RowRole, StoredRole
  <2>2. /\ calls[s].kind = "load"
        /\ Rows =>
              table' \in {table, [query |-> calls[s].query, rev |-> calls[s].rev, by |-> RowRole]}
    BY <1>2, <1>6 DEF Answer, LoadStages
  <2>3. \A t \in Slots : calls'[t].kind = "bind" => calls'[t] = calls[t]
    <3>1. Second(calls[s]).kind = "load"
      BY <1>1, <1>8, SecondFits
    <3>2. calls \in [Slots -> CallRecords]
      BY <1>8
    <3> QED
      BY <1>1, <1>6, <3>1, <3>2 DEF Answer, EndLoad
  <2>4. UNCHANGED <<token, view, signIns>> /\ Blank' = Blank
    BY <1>6 DEF Answer, Blank
  <2> QED
    BY <1>1, <2>1, <2>2, <2>3, <2>4 DEF RowsAreOurs
<1>7. ASSUME NEW s \in Slots, Answer(s, FALSE)
      PROVE  RowsAreOurs'
  <2>1. Fails(s, calls[s].stage = 1 /\ ~P.quiet) /\ calls[s].kind = "load" /\ signIns' = signIns
    BY <1>7 DEF Answer
  <2>2. Rows => table' \in {table, Blank}
    BY <1>2, <1>7 DEF Answer, LoadStages
  <2>3. \A t \in Slots : calls'[t].kind = "bind" => calls'[t] = calls[t]
    <3>1. Second(calls[s]).kind = "load"
      BY <1>1, <1>8, SecondFits
    <3>2. calls \in [Slots -> CallRecords]
      BY <1>8
    <3> QED
      BY <1>1, <1>7, <3>1, <3>2 DEF Answer, EndLoad
  <2>4. Rows => calls[s].stage = 1 /\ ~P.quiet
    BY <1>2, <2>1 DEF LoadStages
  <2> QED
    BY <1>5, <2>1, <2>2, <2>3, <2>4
<1>9. ASSUME NEW s \in Slots, PreludeFailed(s)
      PROVE  RowsAreOurs'
  <2>1. \A t \in Slots : calls'[t].kind = "bind" => calls'[t] = calls[t]
    BY <1>1, <1>8, <1>9 DEF PreludeFailed
  <2> QED
    BY <1>5, <1>9, <2>1 DEF PreludeFailed
<1>10. ASSUME NEW s \in Slots, NEW w \in P.writes, WriteFailed(w, s)
       PROVE  RowsAreOurs'
  <2>1. \A t \in Slots : calls'[t].kind = "bind" => calls'[t] = calls[t]
    BY <1>1, <1>8, <1>10 DEF WriteFailed
  <2>2. Rows => w.leaves
    BY <1>2
  <2> QED
    BY <1>5, <1>10, <2>1, <2>2 DEF WriteFailed, shown
\* The only binding is gone.
<1>11. ASSUME NEW s \in Slots, BindDone(s) \/ BindFailed(s)
       PROVE  RowsAreOurs'
  <2>1. \A t \in Slots : calls'[t].kind # "bind"
    BY <1>1, <1>8, <1>11 DEF BindDone, BindFailed, OneBind
  <2>2. UNCHANGED <<signIns, table>> /\ Blank' = Blank
    BY <1>11 DEF BindDone, BindFailed, shown, Blank
  <2>3. view' = view
    BY <1>11 DEF BindDone, BindFailed, Fails, LeadTo
  <2>4. Rows /\ signIns = 0 /\ view = "main" => token' \in {token, "none"}
    BY <1>11 DEF BindDone, BindFailed, Fails, PersistAuth, RowsAreOurs
  <2> QED
    BY <1>1, <2>1, <2>2, <2>3, <2>4 DEF RowsAreOurs
<1>12. CASE SignOut \/ (\E r \in Roles : SignIn(r)) \/ OpenTab
  BY <1>1, <1>12 DEF SignOut, SignIn, OpenTab, RowsAreOurs
<1>13. CASE ClickBind
  <2>1. \A t \in Slots : calls'[t].kind = "bind" => calls'[t].by = token
    BY <1>1, <1>13, CallsStep
       DEF CallMoves, CallKept, CallEnds, CallLoads, CallBinds, CallWrites, ClickBind
  <2>2. UNCHANGED <<token, view, signIns, table>> /\ Blank' = Blank
    BY <1>13 DEF ClickBind, session, shown, Blank
  <2> QED
    BY <1>1, <2>1, <2>2 DEF RowsAreOurs
<1>14. CASE UNCHANGED consoleVars \/ ClickLoad \/ ChangeInstant \/ ChangeTyped \/ MerchantSelected
            \/ ToggleDialog \/ \E w \in P.writes : ClickWrite(w)
  <2>1. UNCHANGED session /\ table' \in {table, Blank}
    BY <1>3, <1>14
       DEF consoleVars, shown, ClickLoad, ChangeInstant, ChangeTyped, MerchantSelected,
           ToggleDialog, ClickWrite
  <2> QED
    BY <1>4, <1>13, <2>1
<1>15. ASSUME NEW s \in Slots,
              \/ ServeLoad(s) \/ PreludeDone(s)
              \/ \E w \in P.writes : ServeWrite(w, s) \/ WriteDone(w, s)
       PROVE  RowsAreOurs'
  <2>1. UNCHANGED session /\ table' \in {table, Blank}
    BY <1>3, <1>15 DEF shown, ServeLoad, PreludeDone, ServeWrite, WriteDone
  <2> QED
    BY <1>4, <1>13, <2>1
<1> QED
  BY <1>6, <1>7, <1>9, <1>10, <1>11, <1>12, <1>13, <1>14, <1>15 DEF Next

LEMMA PermittedStep ==
    ASSUME Typed, TokenIsRole, RowsAreOurs, CallsPermitted, [Next]_consoleVars
    PROVE  CallsPermitted'
<1> USE DEF Typed
<1>1. /\ page' = page /\ P' = P /\ PageFits(page, P)
      /\ token \in Roles \cup {"none"} /\ role \in Roles /\ signIns \in Nat
      /\ P.stays \/ role \in P.roles
  BY PageStays, PageFact DEF P, ConsoleTypeOK
<1>2. signIns > 0 => signIns' > 0
  <2>1. signIns' \in {signIns, signIns + 1}
    BY DEF Next, consoleVars, session, ClickLoad, ChangeInstant, ChangeTyped, MerchantSelected,
       ToggleDialog, ClickWrite, SignOut, OpenTab, ClickBind, SignIn, ServeLoad, Answer,
       PreludeDone, PreludeFailed, BindDone, BindFailed, ServeWrite, WriteDone, WriteFailed
  <2> QED
    BY <1>1, <2>1
<1>3. ASSUME NEW s \in Slots, NEW w \in P.writes, calls'[s].kind = w.name
      PROVE  calls'[s].by = "none" \/ Permitted(w.name, calls'[s].by) \/ Excepted(w.name)
  <2>1. CASE CallKept(s)
    BY <1>3, <2>1 DEF CallKept, CallsPermitted
  <2>2. ~CallEnds(s) /\ ~CallLoads(s) /\ ~CallBinds(s)
    BY <1>3, FreeFields, WriteKinds DEF CallEnds, CallLoads, CallBinds
  <2>3. ASSUME NEW v \in P.writes, ClickWrite(v), calls'[s].kind = v.name, calls'[s].by = token
        PROVE  token = "none" \/ Permitted(w.name, token) \/ Excepted(w.name)
    <3>1. v = w
      BY <1>1, <1>3, <2>3 DEF PageFits, WritesFit, OneButton
    <3>2. CASE token = "none"
      BY <3>2
    <3>3. CASE token = role /\ ~w.row
      <4>1. GuardPasses(w, role)
        BY <2>3, <3>1, <3>3 DEF ClickWrite, Rendered, GuardPasses
      <4> QED
        BY <1>1, <3>3, <4>1 DEF PageFits, WritesFit, Guarded, Excepted
    <3>4. CASE token = role /\ w.row /\ token # "none"
      <4>1. page = "settlementPanel" /\ w.name = "confirm" /\ ~w.dialog
        BY <1>1, <3>4 DEF PageFits, WritesFit, RowsFit
      <4>2. CASE signIns > 0
        BY <4>1, <4>2 DEF Excepted
      <4>3. CASE ~(signIns > 0)
        <5>1. view = "main" /\ table # Blank /\ signIns = 0
          BY <1>1, <2>3, <3>1, <3>4, <4>1, <4>3 DEF ClickWrite, OnScreen
        <5>2. table.by = token
          BY <3>4, <5>1 DEF RowsAreOurs
        <5>3. GuardPasses(w, role)
          BY <2>3, <3>1, <3>4, <5>2 DEF ClickWrite, Rendered, GuardPasses
        <5> QED
          BY <1>1, <3>4, <5>3 DEF PageFits, WritesFit, Guarded, Excepted
      <4> QED
        BY <4>2, <4>3
    <3> QED
      BY <3>2, <3>3, <3>4 DEF TokenIsRole
  <2> QED
    BY <2>1, <2>2, <2>3, CallsStep DEF CallMoves, CallWrites
<1>4. \A name : Excepted(name) => Excepted(name)'
  BY <1>1, <1>2 DEF Excepted
<1> QED
  BY <1>1, <1>3, <1>4 DEF CallsPermitted, Permitted

LEMMA RefusedStep ==
    ASSUME Typed, CallsPermitted, RefusedIsTheImport, [Next]_consoleVars
    PROVE  RefusedIsTheImport'
<1> USE DEF Typed
<1>1. page' = page /\ signIns \in Nat
  BY PageStays DEF ConsoleTypeOK
<1>2. signIns' \in {signIns, signIns + 1}
  BY DEF Next, consoleVars, session, ClickLoad, ChangeInstant, ChangeTyped, MerchantSelected,
     ToggleDialog, ClickWrite, SignOut, OpenTab, ClickBind, SignIn, ServeLoad, Answer,
     PreludeDone, PreludeFailed, BindDone, BindFailed, ServeWrite, WriteDone, WriteFailed
<1>3. ASSUME NEW s \in Slots, NEW w \in P.writes, WriteFailed(w, s)
      PROVE  \A name \in refused' \ refused : Excepted(name)
  BY <1>3 DEF WriteFailed, CallsPermitted
<1>4. (\E s \in Slots, w \in P.writes : WriteFailed(w, s)) \/ refused' = refused
  BY DEF Next, consoleVars, history, ClickLoad, ChangeInstant, ChangeTyped, MerchantSelected,
     ToggleDialog, ClickWrite, SignOut, OpenTab, ClickBind, SignIn, ServeLoad, Answer,
     PreludeDone, PreludeFailed, BindDone, BindFailed, ServeWrite, WriteDone
<1>5. \A name \in refused' \ refused : Excepted(name)
  BY <1>3, <1>4
<1>6. \A name \in refused' : name \in refused \/ Excepted(name)
  BY <1>5
<1>7. CASE page = "merchantGames"
  BY <1>1, <1>6, <1>7 DEF RefusedIsTheImport, Excepted
<1>8. CASE page = "settlementPanel" /\ signIns > 0
  <2>1. signIns' > 0
    BY <1>1, <1>2, <1>8
  <2> QED
    BY <1>1, <1>6, <1>8, <2>1 DEF RefusedIsTheImport, Excepted
<1>9. CASE page # "merchantGames" /\ ~(page = "settlementPanel" /\ signIns > 0)
  <2>1. refused' = {}
    BY <1>6, <1>9 DEF RefusedIsTheImport, Excepted
  <2> QED
    BY <2>1 DEF RefusedIsTheImport
<1> QED
  BY <1>7, <1>8, <1>9

Ours == TokenIsRole /\ RowsAreOurs /\ CallsPermitted /\ RefusedIsTheImport

\* The pages offer a role what pkg/auth lets it do, through logins, logouts, 401s
\* and second factors bound meanwhile; except for the import of merchant games,
\* and for the rows of the old settlements once somebody else has signed in.
THEOREM OnlyTheImportIsRefused == Spec => []RefusedIsTheImport
<1>1. Init => Ours
  <2> SUFFICES ASSUME Init PROVE Ours
    OBVIOUS
  <2>1. TokenIsRole /\ RefusedIsTheImport
    BY DEF Init, Boot, TokenIsRole, RefusedIsTheImport
  <2>2. \A s \in Slots : calls[s].kind \in {"free", "load", "prelude"}
    BY DEF Init, Call, Free
  <2>3. RowsAreOurs
    BY <2>2 DEF Init, Boot, RowsAreOurs
  <2>4. CallsPermitted
    BY <2>2, Opened, WriteKinds DEF CallsPermitted
  <2> QED
    BY <2>1, <2>3, <2>4 DEF Ours
<1>2. Typed /\ Ours /\ [Next]_consoleVars => Ours'
  BY TokenStep, RowsStep, PermittedStep, RefusedStep DEF Ours, Typed
<1>3. Ours => RefusedIsTheImport
  BY DEF Ours
<1> QED
  BY <1>1, <1>2, <1>3, TypedHolds, PTL DEF Spec

-----------------------------------------------------------------------------
(* The last load *)

\* Its call asks for what was asked last.
InFlight ==
    newest.slot # NoSlot =>
       /\ calls[newest.slot].kind = "load" /\ calls[newest.slot].query = asked
       /\ calls[newest.slot].stage = newest.stages + 1

\* What it has brought is shown; or kept until the call that its rows wait for
\* is answered.
RowsShown == newest.stages >= 1 /\ (P.whole => newest.slot = NoSlot)

Answered == ~late /\ ~failed /\ RowsShown => table.query = asked

\* It ends after its last stage, or where the page keeps the answer of that.
Ended ==
    /\ newest.slot = NoSlot /\ newest.stages >= 1 => newest.stages = P.stages \/ P.keeps
    /\ kept => P.keeps
    /\ P.needs = "nothing" => field # NoQuery

\* A form with a merchant chosen has been asked for under it.
FormAsked ==
    P.form /\ field # NoQuery => asked = field /\ (newest.slot # NoSlot \/ newest.stages >= 1)

\* A write has been carried out whose answer is on its way.
Pending ==
    \E s \in Slots, w \in P.writes : w.shown /\ calls[s].kind = w.name /\ calls[s].done

Exempt ==
    \/ P.form \/ page = "breakerPanel" \/ late \/ failed \/ Pending
    \/ P.needs = "skip" /\ field = NoQuery

\* What it has read is what is stored.
UpToDate ==
    /\ newest.slot # NoSlot /\ calls[newest.slot].done => calls[newest.slot].rev = stored
    /\ RowsShown /\ asked # NoQuery => table.rev = stored
    /\ newest.slot # NoSlot /\ newest.stages = 1 /\ P.whole =>
          calls[newest.slot].list = stored
    /\ newest.slot = NoSlot /\ newest.stages >= 1 /\ P.stages = 2 /\ ~P.keeps => extra = stored

Current == Exempt \/ UpToDate

LastLoad == InFlight /\ Answered /\ Ended /\ FormAsked /\ Current /\ ~mixed

LEMMA LoadStep ==
    ASSUME Typed, LastLoad, page' = page, NEW board \in [Slots -> CallRecords], Load(board),
           \A s \in Slots : calls[s].kind = "load" => board[s] = calls[s],
           P.needs = "nothing" => field' # NoQuery,
           kept' \in {kept, FALSE}, UNCHANGED <<extra, stored, mixed>>
    PROVE  LastLoad'
<1> USE DEF Typed
<1>1. /\ P' = P /\ PageFits(page, P) /\ P \in PageRecords
      /\ newest \in [slot : Slots \cup {NoSlot}, stages : 0..2]
  BY PageFact, TypesAre DEF P, PageFits, HistoryTypes
<1>2. Ended' /\ ~mixed'
  <2>1. newest'.slot = NoSlot /\ newest'.stages >= 1 => newest'.stages = P.stages \/ P.keeps
    <3>1. CASE LoadSkips(board)
      BY <3>1 DEF LoadSkips, LastLoad, Ended
    <3>2. CASE LoadBlanks(board)
      BY <3>2 DEF LoadBlanks
    <3>3. CASE LoadIssues(board)
      BY <3>3, ConsoleAssumption DEF LoadIssues, Issue
    <3> QED
      BY <3>1, <3>2, <3>3, LoadCases
  <2>2. kept' => P.keeps
    BY DEF LastLoad, Ended
  <2>3. ~mixed'
    BY DEF LastLoad
  <2> QED
    BY <1>1, <2>1, <2>2, <2>3 DEF Ended
<1>3. CASE LoadSkips(board)
  <2>1. InFlight'
    BY <1>1, <1>3 DEF LoadSkips, LastLoad, InFlight
  <2>2. Answered' /\ FormAsked'
    BY <1>1, <1>3 DEF LoadSkips, LastLoad, Answered, FormAsked, RowsShown
  <2>3. Exempt'
    BY <1>1, <1>3 DEF LoadSkips, Exempt
  <2> QED
    BY <1>2, <2>1, <2>2, <2>3 DEF LastLoad, Current
<1>4. CASE LoadBlanks(board)
  <2>1. P.stages = 1
    BY <1>1, <1>4 DEF LoadBlanks, PageFits
  <2>2. /\ newest' = [slot |-> NoSlot, stages |-> P.stages] /\ asked' = NoQuery
        /\ field' = NoQuery /\ table' = Blank
    BY <1>4 DEF LoadBlanks
  <2>3. InFlight' /\ FormAsked'
    BY <1>1, <2>2 DEF InFlight, FormAsked
  <2>4. Answered'
    BY <2>2 DEF Answered, Blank
  <2>5. UpToDate'
    BY <1>1, <2>1, <2>2 DEF UpToDate
  <2> QED
    BY <1>2, <2>3, <2>4, <2>5 DEF LastLoad, Current
<1>5. CASE LoadIssues(board)
  <2>1. PICK s \in Slots : Issue(s, board)
    BY <1>5 DEF LoadIssues
  <2>2. /\ newest' = [slot |-> s, stages |-> 0] /\ asked' = field' /\ s # NoSlot
        /\ calls'[s] = Call("load", field', 1, token')
    BY <2>1, ConsoleAssumption DEF Issue
  <2>3. /\ calls'[s].kind = "load" /\ calls'[s].query = field' /\ calls'[s].stage = 1
        /\ calls'[s].done = FALSE
    BY <2>2 DEF Call, Free
  <2>4. InFlight' /\ Answered' /\ FormAsked'
    BY <1>1, <2>2, <2>3 DEF InFlight, Answered, FormAsked, RowsShown
  <2>5. UpToDate'
    BY <1>1, <2>2, <2>3 DEF UpToDate, RowsShown
  <2> QED
    BY <1>2, <2>4, <2>5 DEF LastLoad, Current
<1> QED
  BY <1>3, <1>4, <1>5, LoadCases

LEMMA AnswerStep ==
    ASSUME Typed, LastLoad, NEW s \in Slots, NEW ok \in BOOLEAN, Answer(s, ok)
    PROVE  LastLoad'
<1> USE DEF Typed
<1> DEFINE more == calls[s].stage < P.stages /\ ~kept
<1>1. /\ page' = page /\ P' = P /\ PageFits(page, P) /\ P.stages \in {1, 2} /\ P.keeps \in BOOLEAN
      /\ newest \in [slot : Slots \cup {NoSlot}, stages : 0..2]
      /\ calls \in [Slots -> CallRecords] /\ late \in BOOLEAN /\ failed \in BOOLEAN
      /\ UNCHANGED <<field, stored, asked, mixed>>
  BY PageFact, TypesAre DEF Answer, P, PageFits, PageRecords, HistoryTypes, CallTypes
<1>2. /\ calls[s].kind = "load" /\ (ok => calls[s].done) /\ calls[s].stage \in 1..P.stages
      /\ s # NoSlot
  BY ConsoleAssumption DEF Answer, LoadStages
<1>3. /\ newest' = IF s # newest.slot THEN newest
                   ELSE [slot |-> IF more THEN s ELSE NoSlot, stages |-> calls[s].stage]
      /\ late' = (late \/ Overtaken(s, calls[s].stage))
      /\ failed' = (failed \/ ~ok)
  BY DEF Answer
<1>4. /\ \A t \in Slots : t # s => calls'[t] = calls[t]
      /\ more => calls'[s] = Second(calls[s])
      /\ ~more => calls'[s] = Free
  BY <1>1 DEF Answer, EndLoad
<1>5. calls[s].stage = 1 /\ ok /\ ~(P.whole /\ more) =>
         table'.query = calls[s].query /\ table'.rev = calls[s].rev
  BY DEF Answer
<1>6. calls[s].stage = 1 => extra' = extra /\ kept' = kept
  BY DEF Answer
<1>7. calls[s].stage # 1 =>
         /\ kept' = P.keeps /\ (ok => extra' = calls[s].rev)
         /\ ~P.whole => table' = table
         /\ P.whole => table'.query = calls[s].query /\ table'.rev = calls[s].list
  BY DEF Answer
<1>8. /\ Second(calls[s]).kind = "load" /\ Second(calls[s]).query = calls[s].query
      /\ Second(calls[s]).stage = 2 /\ Second(calls[s]).done = FALSE
      /\ P.whole => Second(calls[s]).list = calls[s].rev
  BY <1>1, SecondFits DEF ConsoleTypeOK
<1>9. Pending => Pending'
  BY <1>1, <1>2, <1>4, WriteKinds DEF Pending
<1>10. InFlight'
  BY <1>1, <1>2, <1>3, <1>4, <1>8 DEF LastLoad, InFlight
<1>11. Ended'
  BY <1>1, <1>2, <1>3, <1>6, <1>7 DEF LastLoad, Ended
<1>12. FormAsked'
  BY <1>1, <1>2, <1>3 DEF LastLoad, FormAsked
<1>13. CASE s # newest.slot /\ newest.slot = NoSlot /\ newest.stages >= 1
  <2>1. late'
    BY <1>3, <1>13 DEF Overtaken
  <2> QED
    BY <1>1, <1>10, <1>11, <1>12, <2>1 DEF LastLoad, Answered, Current, Exempt
<1>14. CASE s # newest.slot /\ ~(newest.slot = NoSlot /\ newest.stages >= 1)
  <2>1. newest' = newest /\ (newest.slot # NoSlot => calls'[newest.slot] = calls[newest.slot])
    BY <1>1, <1>3, <1>4, <1>14
  <2>2. CASE newest.stages >= 1 /\ calls[s].stage = 1
    <3>1. late'
      BY <1>1, <1>3, <1>14, <2>2 DEF Overtaken
    <3> QED
      BY <1>1, <1>10, <1>11, <1>12, <3>1 DEF LastLoad, Answered, Current, Exempt
  <2>3. CASE newest.stages = 0 \/ calls[s].stage # 1
    <3>1. RowsShown' = RowsShown /\ (RowsShown => table' = table)
      BY <1>1, <1>7, <1>14, <2>1, <2>3 DEF RowsShown
    <3>2. Answered'
      BY <1>1, <1>3, <3>1 DEF LastLoad, Answered
    <3>3. UpToDate => UpToDate'
      BY <1>1, <1>14, <2>1, <3>1 DEF UpToDate
    <3>4. Exempt => Exempt'
      BY <1>1, <1>3, <1>9 DEF Exempt
    <3> QED
      BY <1>1, <1>10, <1>11, <1>12, <3>2, <3>3, <3>4 DEF LastLoad, Current
  <2> QED
    BY <1>1, <2>2, <2>3
<1>15. CASE s = newest.slot
  <2>1. calls[s].query = asked /\ calls[s].stage = newest.stages + 1
    BY <1>2, <1>15 DEF LastLoad, InFlight
  <2>2. newest'.stages = calls[s].stage /\ newest'.slot = IF more THEN s ELSE NoSlot
    BY <1>3, <1>15
  <2>3. CASE ~ok \/ late \/ failed
    <3>1. late' \/ failed'
      BY <1>3, <2>3
    <3> QED
      BY <1>1, <1>10, <1>11, <1>12, <3>1 DEF LastLoad, Answered, Current, Exempt
  <2>4. CASE ok /\ ~late /\ ~failed
    <3>1. Answered'
      <4> SUFFICES ASSUME RowsShown' PROVE table'.query = asked
        BY <1>1 DEF Answered
      <4>1. CASE calls[s].stage = 1
        <5>1. ~(P.whole /\ more)
          BY <1>1, <1>2, <2>2 DEF RowsShown
        <5> QED
          BY <1>5, <2>1, <2>4, <4>1, <5>1
      <4>2. CASE calls[s].stage # 1
        <5>1. newest.stages >= 1
          BY <1>1, <1>2, <2>1, <4>2
        <5> QED
          BY <1>7, <2>1, <2>4, <4>2, <5>1 DEF LastLoad, Answered, RowsShown
      <4> QED
        BY <4>1, <4>2
    <3>2. CASE Exempt
      <4>1. Exempt'
        BY <1>1, <1>3, <3>2, <1>9 DEF Exempt
      <4> QED
        BY <1>1, <1>10, <1>11, <1>12, <3>1, <4>1 DEF LastLoad, Current
    <3>3. CASE UpToDate
      <4>1. calls[s].rev = stored
        BY <1>2, <1>15, <2>4, <3>3 DEF UpToDate
      <4>2. newest'.slot # NoSlot => calls'[newest'.slot] = Second(calls[s])
        BY <1>4, <2>2
      <4>3. RowsShown' /\ asked # NoQuery => table'.rev = stored
        <5> SUFFICES ASSUME RowsShown', asked # NoQuery PROVE table'.rev = stored
          OBVIOUS
        <5>1. CASE calls[s].stage = 1
          <6>1. ~(P.whole /\ more)
            BY <1>1, <1>2, <2>2 DEF RowsShown
          <6> QED
            BY <1>5, <2>4, <4>1, <5>1, <6>1
        <5>2. CASE calls[s].stage # 1
          <6>1. newest.stages = 1
            BY <1>1, <1>2, <2>1, <5>2
          <6> QED
            BY <1>2, <1>7, <1>15, <3>3, <5>2, <6>1 DEF UpToDate, RowsShown
        <5> QED
          BY <5>1, <5>2
      <4>4. newest'.slot = NoSlot /\ P.stages = 2 /\ ~P.keeps => extra' = stored
        BY <1>1, <1>2, <1>7, <2>2, <2>4, <4>1 DEF LastLoad, Ended
      <4>5. UpToDate'
        BY <1>1, <1>8, <4>1, <4>2, <4>3, <4>4 DEF UpToDate
      <4> QED
        BY <1>1, <1>10, <1>11, <1>12, <3>1, <4>5 DEF LastLoad, Current
    <3> QED
      BY <3>2, <3>3 DEF LastLoad, Current
  <2> QED
    BY <1>1, <2>3, <2>4
<1> QED
  BY <1>13, <1>14, <1>15

\* Steps that leave the loads alone.
LEMMA QuietStep ==
    ASSUME Typed, LastLoad, page' = page,
           UNCHANGED <<table, extra, kept, asked, newest, late, failed, stored, mixed>>,
           field' = field \/ (~P.form /\ field # NoQuery /\ field' # NoQuery),
           \A s \in Slots : calls[s].kind = "load" => calls'[s] = calls[s],
           Pending => Pending'
    PROVE  LastLoad'
<1> USE DEF Typed
<1>1. P' = P /\ newest \in [slot : Slots \cup {NoSlot}, stages : 0..2]
  BY TypesAre DEF P, HistoryTypes
<1>2. newest.slot # NoSlot => calls'[newest.slot] = calls[newest.slot]
  BY <1>1 DEF LastLoad, InFlight
<1>3. InFlight' /\ Answered' /\ Ended' /\ FormAsked'
  BY <1>1, <1>2 DEF LastLoad, InFlight, Answered, Ended, FormAsked, RowsShown
<1>4. Current'
  BY <1>1, <1>2 DEF LastLoad, Current, Exempt, UpToDate, RowsShown
<1> QED
  BY <1>3, <1>4 DEF LastLoad

\* A call other than a load has failed.
LEMMA FailedStep ==
    ASSUME Typed, LastLoad, page' = page, failed' = TRUE,
           UNCHANGED <<field, kept, asked, newest, late, mixed>>,
           NEW s \in Slots, calls' = [calls EXCEPT ![s] = Free], calls[s].kind # "load"
    PROVE  LastLoad'
<1> USE DEF Typed
<1>1. /\ P' = P /\ newest \in [slot : Slots \cup {NoSlot}, stages : 0..2]
      /\ calls \in [Slots -> CallRecords]
  BY TypesAre DEF P, HistoryTypes, CallTypes
<1>2. newest.slot # NoSlot => calls'[newest.slot] = calls[newest.slot]
  BY <1>1 DEF LastLoad, InFlight
<1>3. InFlight' /\ Answered' /\ Ended' /\ FormAsked'
  BY <1>1, <1>2 DEF LastLoad, InFlight, Answered, Ended, FormAsked, RowsShown
<1> QED
  BY <1>3 DEF LastLoad, Current, Exempt

LEMMA ServeLoadStep ==
    ASSUME Typed, LastLoad, NEW s \in Slots, ServeLoad(s)
    PROVE  LastLoad'
<1> USE DEF Typed
<1>1. /\ page' = page /\ P' = P /\ newest \in [slot : Slots \cup {NoSlot}, stages : 0..2]
      /\ calls \in [Slots -> CallRecords]
      /\ UNCHANGED <<field, table, extra, kept, stored, asked, newest, late, failed, mixed>>
  BY TypesAre DEF ServeLoad, P, HistoryTypes, CallTypes, shown, history
<1>2. /\ \A t \in Slots : t # s => calls'[t] = calls[t]
      /\ calls'[s].kind = calls[s].kind /\ calls'[s].query = calls[s].query
      /\ calls'[s].stage = calls[s].stage /\ calls'[s].rev = stored
      /\ calls'[s].list = calls[s].list
  BY <1>1 DEF ServeLoad, CallRecords
<1>3. Pending => Pending'
  BY <1>1, <1>2, WriteKinds DEF Pending, ServeLoad
<1>4. newest.slot # NoSlot /\ calls'[newest.slot].done =>
         calls'[newest.slot].rev = stored \/ (calls'[newest.slot] = calls[newest.slot])
  BY <1>1, <1>2
<1>5. InFlight' /\ Answered' /\ Ended' /\ FormAsked'
  BY <1>1, <1>2 DEF LastLoad, InFlight, Answered, Ended, FormAsked, RowsShown
<1>6. Current'
  BY <1>1, <1>2, <1>3, <1>4 DEF LastLoad, Current, Exempt, UpToDate, RowsShown
<1> QED
  BY <1>1, <1>5, <1>6 DEF LastLoad

LEMMA ServeWriteStep ==
    ASSUME Typed, LastLoad, NEW s \in Slots, NEW w \in P.writes, ServeWrite(w, s)
    PROVE  LastLoad'
<1> USE DEF Typed
<1>1. /\ page' = page /\ P' = P /\ newest \in [slot : Slots \cup {NoSlot}, stages : 0..2]
      /\ calls \in [Slots -> CallRecords]
      /\ UNCHANGED <<field, table, extra, kept, asked, newest, late, failed, mixed>>
  BY TypesAre DEF ServeWrite, P, HistoryTypes, CallTypes, shown, history
<1>2. /\ \A t \in Slots : t # s => calls'[t] = calls[t]
      /\ calls'[s].kind = w.name /\ calls'[s].done
  BY <1>1 DEF ServeWrite, CallRecords
<1>3. calls[s].kind # "load"
  BY WriteKinds DEF ServeWrite
<1>4. CASE w.shown
  <2>1. Pending'
    BY <1>1, <1>2, <1>4 DEF Pending
  <2>2. InFlight' /\ Answered' /\ Ended' /\ FormAsked'
    BY <1>1, <1>2, <1>3 DEF LastLoad, InFlight, Answered, Ended, FormAsked, RowsShown
  <2> QED
    BY <1>1, <2>1, <2>2 DEF LastLoad, Current, Exempt
<1>5. CASE ~w.shown
  <2>1. stored' = stored
    BY <1>5 DEF ServeWrite
  <2>2. Pending => Pending'
    <3>1. \A t \in Slots : calls[t].kind = calls'[t].kind /\ (calls[t].done => calls'[t].done)
      BY <1>2 DEF ServeWrite
    <3> QED
      BY <1>1, <3>1 DEF Pending
  <2> QED
    BY <1>1, <1>2, <1>3, <2>1, <2>2, QuietStep
<1> QED
  BY <1>4, <1>5

LEMMA ClickWriteStep ==
    ASSUME Typed, LastLoad, NEW w \in P.writes, ClickWrite(w)
    PROVE  LastLoad'
<1> USE DEF Typed
<1>1. /\ page' = page /\ PageFits(page, P)
      /\ newest \in [slot : Slots \cup {NoSlot}, stages : 0..2]
      /\ calls \in [Slots -> CallRecords] /\ mixed \in BOOLEAN
      /\ UNCHANGED <<field, table, extra, kept, stored, asked, newest, late, failed>>
  BY PageFact, TypesAre DEF ClickWrite, HistoryTypes, CallTypes, shown
\* A form saved as something else than it was loaded as: not with its loads ended.
<1>2. ~mixed'
  <2> SUFFICES ASSUME ~SavedAsLoaded, Loads = {}, ~late, ~failed
               PROVE  FALSE
    BY DEF ClickWrite, LastLoad
  <2>1. P.form /\ table.query # field
    BY DEF SavedAsLoaded
  <2>2. field # NoQuery
    BY <1>1, <2>1 DEF ClickWrite, PageFits
  <2>3. newest.slot = NoSlot
    BY <1>1 DEF Loads, LastLoad, InFlight
  <2> QED
    BY <2>1, <2>2, <2>3 DEF LastLoad, FormAsked, Answered, RowsShown
<1>3. PICK s \in Slots : calls[s] = Free /\ \A t \in Slots : t # s => calls'[t] = calls[t]
  BY <1>1 DEF ClickWrite
<1>4. \A t \in Slots : calls[t].kind # "free" => calls'[t] = calls[t]
  BY <1>3, FreeFields
<1>5. Pending => Pending'
  BY <1>1, <1>4, WriteKinds DEF Pending, P
<1>6. mixed' = mixed
  BY <1>1, <1>2 DEF ClickWrite, LastLoad
<1>7. \A t \in Slots : calls[t].kind = "load" => calls'[t] = calls[t]
  BY <1>4
<1> HIDE DEF LastLoad
<1> QED
  BY <1>1, <1>5, <1>6, <1>7, QuietStep

LEMMA WriteDoneStep ==
    ASSUME Typed, LastLoad, NEW s \in Slots, NEW w \in P.writes, WriteDone(w, s)
    PROVE  LastLoad'
<1> USE DEF Typed
<1>1. /\ page' = page /\ P' = P /\ PageFits(page, P) /\ calls \in [Slots -> CallRecords]
      /\ [calls EXCEPT ![s] = Free] \in [Slots -> CallRecords]
  BY PageFact, TypesAre, CallFits, ConsoleAssumption DEF WriteDone, P, CallTypes, Kinds
<1>2. \A t \in Slots : calls[t].kind = "load" => [calls EXCEPT ![s] = Free][t] = calls[t]
  BY <1>1, WriteKinds DEF WriteDone
<1>3. CASE w.reload
  <2>1. /\ Load([calls EXCEPT ![s] = Free]) /\ UNCHANGED <<field, extra, kept, stored, mixed>>
        /\ P.needs = "nothing" => field' # NoQuery
    BY <1>3 DEF WriteDone, LastLoad, Ended
  <2> HIDE DEF LastLoad
  <2> QED
    BY <1>1, <1>2, <2>1, LoadStep
<1>4. CASE ~w.reload
  <2>1. /\ calls' = [calls EXCEPT ![s] = Free]
        /\ UNCHANGED <<field, table, extra, kept, asked, newest, late, failed, stored, mixed>>
    BY <1>4 DEF WriteDone
  <2>2. CASE P.form \/ page = "breakerPanel"
    <3>1. newest \in [slot : Slots \cup {NoSlot}, stages : 0..2]
      BY TypesAre DEF HistoryTypes
    <3>2. newest.slot # NoSlot => calls'[newest.slot] = calls[newest.slot]
      BY <1>2, <2>1, <3>1 DEF LastLoad, InFlight
    <3>3. InFlight' /\ Answered' /\ Ended' /\ FormAsked'
      BY <1>1, <2>1, <3>1, <3>2 DEF LastLoad, InFlight, Answered, Ended, FormAsked, RowsShown
    <3> QED
      BY <1>1, <2>1, <2>2, <3>3 DEF LastLoad, Current, Exempt
  <2>3. CASE ~P.form /\ page # "breakerPanel"
    <3>1. ~w.shown
      BY <1>1, <1>4, <2>3 DEF PageFits, WritesFit, ShownReloads
    <3>2. Pending => Pending'
      <4> SUFFICES ASSUME Pending PROVE Pending'
        OBVIOUS
      <4>1. PICK t \in Slots, v \in P.writes : v.shown /\ calls[t].kind = v.name /\ calls[t].done
        BY DEF Pending
      <4>2. t # s
        BY <1>1, <3>1, <4>1 DEF WriteDone, PageFits, WritesFit, OneButton
      <4> QED
        BY <1>1, <2>1, <4>1, <4>2 DEF Pending
    <3> QED
      BY <1>1, <1>2, <2>1, <3>2, QuietStep
  <2> QED
    BY <2>2, <2>3
<1> QED
  BY <1>3, <1>4

LEMMA LastLoadStep ==
    ASSUME Typed, LastLoad, [Next]_consoleVars
    PROVE  LastLoad'
<1>1. /\ page' = page /\ calls \in [Slots -> CallRecords] /\ NoQuery \notin Queries
      /\ \A s \in Slots : [calls EXCEPT ![s] = Free] \in [Slots -> CallRecords]
      /\ P.needs = "nothing" => field # NoQuery
  BY PageStays, TypesAre, CallFits, ConsoleAssumption DEF Typed, CallTypes, Kinds, LastLoad, Ended
<1>2. ASSUME Load(calls), P.needs = "nothing" => field' # NoQuery,
             kept' \in {kept, FALSE}, UNCHANGED <<extra, stored, mixed>>
      PROVE  LastLoad'
  BY <1>1, <1>2, LoadStep
<1>3. ASSUME UNCHANGED <<table, extra, kept, asked, newest, late, failed, stored, mixed>>,
             field' = field \/ (~P.form /\ field # NoQuery /\ field' # NoQuery),
             UNCHANGED calls
      PROVE  LastLoad'
  <2>1. Pending => Pending'
    BY <1>1, <1>3 DEF Pending, P
  <2> QED
    BY <1>1, <1>3, <2>1, QuietStep
<1>4. CASE UNCHANGED consoleVars \/ ToggleDialog \/ SignOut
  BY <1>3, <1>4 DEF consoleVars, shown, history, ToggleDialog, SignOut
<1>5. CASE ChangeTyped
  <2>1. ~P.form
    BY <1>5, PageFact DEF Typed, PageFits, ChangeTyped
  <2> QED
    BY <1>1, <1>3, <1>5, <2>1 DEF ChangeTyped, history
<1>6. CASE ClickLoad
  BY <1>1, <1>2, <1>6 DEF ClickLoad
<1>7. CASE ChangeInstant
  BY <1>1, <1>2, <1>7 DEF ChangeInstant
<1>8. CASE MerchantSelected
  BY <1>1, <1>2, <1>8 DEF MerchantSelected
<1>9. CASE OpenTab \/ \E r \in Roles : SignIn(r)
  BY <1>1, <1>2, <1>3, <1>9 DEF OpenTab, SignIn
<1>10. CASE ClickBind
  <2>1. PICK s \in Slots : calls[s] = Free /\ \A t \in Slots : t # s => calls'[t] = calls[t]
    BY <1>1, <1>10 DEF ClickBind
  <2>2. \A t \in Slots : calls[t].kind # "free" => calls'[t] = calls[t]
    BY <2>1, FreeFields
  <2>3. Pending => Pending'
    BY <1>1, <2>2, WriteKinds DEF Pending, P, Typed
  <2> QED
    BY <1>1, <1>10, <2>2, <2>3, QuietStep DEF ClickBind, shown, history
<1>11. ASSUME NEW s \in Slots, PreludeDone(s)
       PROVE  LastLoad'
  <2>1. \A t \in Slots : calls[t].kind = "load" => [calls EXCEPT ![s] = Free][t] = calls[t]
    BY <1>1, <1>11 DEF PreludeDone
  <2>2. UNCHANGED <<field, extra, kept, stored, mixed>>
    BY <1>11 DEF PreludeDone
  <2>3. CASE P.opens = "after"
    BY <1>1, <1>11, <2>1, <2>2, <2>3, LoadStep DEF PreludeDone
  <2>4. CASE P.opens # "after"
    <3>1. /\ calls' = [calls EXCEPT ![s] = Free]
          /\ UNCHANGED <<table, asked, newest, late, failed>>
      BY <1>11, <2>4 DEF PreludeDone
    <3>2. Pending => Pending'
      BY <1>1, <1>11, <3>1, WriteKinds DEF PreludeDone, Pending, P, Typed
    <3> QED
      BY <1>1, <2>1, <2>2, <3>1, <3>2, QuietStep
  <2> QED
    BY <2>3, <2>4
<1>12. ASSUME NEW s \in Slots, PreludeFailed(s) \/ \E w \in P.writes : WriteFailed(w, s)
       PROVE  LastLoad'
  <2>1. calls[s].kind # "load"
    BY <1>12, WriteKinds DEF Typed, PreludeFailed, WriteFailed
  <2> QED
    BY <1>1, <1>12, <2>1, FailedStep DEF PreludeFailed, WriteFailed, shown
<1>13. ASSUME NEW s \in Slots, BindDone(s) \/ BindFailed(s)
       PROVE  LastLoad'
  <2>1. /\ \A t \in Slots : calls[t].kind # "bind" => calls'[t] = calls[t]
        /\ calls[s].kind = "bind"
    BY <1>1, <1>13 DEF BindDone, BindFailed
  <2>2. Pending => Pending'
    BY <1>1, <2>1, WriteKinds DEF Pending, P, Typed
  <2> QED
    BY <1>1, <1>13, <2>1, <2>2, QuietStep DEF BindDone, BindFailed, shown, history
<1> QED
  BY <1>4, <1>5, <1>6, <1>7, <1>8, <1>9, <1>10, <1>11, <1>12, <1>13, AnswerStep, ServeLoadStep,
     ServeWriteStep, ClickWriteStep, WriteDoneStep DEF Next

LEMMA LastLoadHolds == Spec => []LastLoad
<1>1. Init => LastLoad
  <2> SUFFICES ASSUME Init PROVE LastLoad
    OBVIOUS
  <2>1. PageFits(page, P) /\ P \in PageRecords
    BY Opened, PageFact DEF PageFits
  <2>2. PICK s \in Slots :
           /\ P.opens = "load" => calls[s] = Call("load", field, 1, role)
           /\ newest = IF P.opens = "load" THEN [slot |-> s, stages |-> 0] ELSE Newest0
    BY DEF Init
  <2>3. /\ Call("load", field, 1, role).kind = "load"
        /\ Call("load", field, 1, role).query = field
        /\ Call("load", field, 1, role).stage = 1 /\ Call("load", field, 1, role).done = FALSE
    BY DEF Call, Free
  <2>4. newest.stages = 0 /\ (newest.slot # NoSlot => P.opens = "load" /\ newest.slot = s)
    BY <2>2 DEF Newest0
  <2>5. InFlight /\ Answered /\ UpToDate
    BY <2>2, <2>3, <2>4 DEF Init, InFlight, Answered, UpToDate, RowsShown
  <2>6. Ended /\ FormAsked /\ ~mixed
    BY <2>1, <2>4, ConsoleAssumption DEF Init, Ended, FormAsked, PageFits
  <2> QED
    BY <2>5, <2>6 DEF LastLoad, Current
<1>2. Typed /\ LastLoad /\ [Next]_consoleVars => LastLoad'
  BY LastLoadStep
<1> QED
  BY <1>1, <1>2, TypedHolds, PTL DEF Spec

\* With nothing on its way a page shows the answer to what was asked last, and
\* that answer has seen every write of the page; whatever overlapped before,
\* unless a call failed or the answers were handled out of order.
THEOREM ShownIsWhatWasAsked == Spec => []ShownIsAsked
<1>1. Typed /\ LastLoad => ShownIsAsked
  <2> SUFFICES ASSUME Typed, LastLoad, \A s \in Slots : calls[s] = Free, ~late, ~failed,
                      newest.stages # 0, ~P.form, page # "breakerPanel",
                      ~(P.needs = "skip" /\ field = NoQuery)
               PROVE  /\ table.query = asked /\ (asked # NoQuery => table.rev = stored)
                      /\ P.stages = 2 /\ ~P.keeps => extra = stored
    BY DEF ShownIsAsked
  <2>1. newest \in [slot : Slots \cup {NoSlot}, stages : 0..2]
    BY TypesAre DEF Typed, HistoryTypes
  <2>2. newest.slot = NoSlot /\ newest.stages >= 1
    BY <2>1, FreeFields DEF LastLoad, InFlight
  <2>3. ~Exempt
    BY FreeFields, WriteKinds DEF Exempt, Pending, Typed
  <2> QED
    BY <2>2, <2>3 DEF LastLoad, Answered, Current, UpToDate, RowsShown
<1> QED
  BY <1>1, TypedHolds, LastLoadHolds, PTL

\* A form is saved under another merchant, or game, than it was loaded for only
\* while a load is on its way, or after one failed or was overtaken.
THEOREM MixedByLateAnswersOnly == Spec => []MixedOnlyByLateAnswer
<1>1. LastLoad => MixedOnlyByLateAnswer
  BY DEF LastLoad, MixedOnlyByLateAnswer
<1> QED
  BY <1>1, LastLoadHolds, PTL

=============================================================================
