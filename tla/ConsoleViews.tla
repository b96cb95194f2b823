---------------------------- MODULE ConsoleViews ----------------------------
(***************************************************************************)
(* The pages of the console in admin-vue/src/views/fastgame, each by what  *)
(* sets it apart from a plain list: script and template of its index.vue.  *)
(* The columns, the labels and what the forms contain are left out.        *)
(***************************************************************************)
EXTENDS ConsoleCalls

Alerts == [PlainList EXCEPT !.button = FALSE, !.writes = {Write("ackAlert", "write")}]

Audit == [PlainList EXCEPT !.fields = {"instant", "typed"}]

\* Mutant of Blacklist: what was deleted stays on the screen.
BlacklistNotReloaded ==
    [PlainList EXCEPT !.fields = {"instant"}, !.button = FALSE,
                      !.writes = {Submit("addBlacklist", "write"),
                                  [Write("deleteBlacklist", "write") EXCEPT !.reload = FALSE]}]

Blacklist ==
    [PlainList EXCEPT !.fields = {"instant"}, !.button = FALSE,
                      !.writes = {Submit("addBlacklist", "write"),
                                  Write("deleteBlacklist", "write")}]

\* Four calls at once; a failed one leaves the numbers as they are.
Dashboard == [PlainList EXCEPT !.button = FALSE, !.failed = "keep"]

\* Rows are deleted by their id, whatever the merchant now is.
GameConfigs ==
    [PlainList EXCEPT !.opens = "no", !.fields = {"instant", "typed"}, !.needs = "skip",
                      !.selects = TRUE,
                      !.writes = {Write("saveConfig", "write"),
                                  [Write("deleteConfig", "write") EXCEPT !.merchant = FALSE]}]

\* The merchants, then the open breakers.
Merchants ==
    [PlainList EXCEPT !.button = FALSE, !.stages = 2,
                      !.writes = {Submit("createMerchant", "admin"),
                                  Write("updateMerchant", "write"),
                                  Write("rotateMerchantKey", "admin"),
                                  Write("resetBreaker", "write")}]

RtpReport == [PlainList EXCEPT !.fields = {"instant"}]

SettlementPeriods ==
    [PlainList EXCEPT !.fields = {"instant"}, !.failed = "keep",
                      !.writes = {Write("rollup", "write")}]

DailySettlements ==
    [PlainList EXCEPT !.fields = {"instant"}, !.failed = "keep",
                      !.writes = {Write("sync", "write"), Write("confirm", "write")}]

\* Two searches, by trace and by round, that share their result.
TraceLookup ==
    [PlainList EXCEPT !.opens = "no", !.fields = {"typed"}, !.clears = TRUE, !.waits = TRUE]

\* Only admins have the route, so that no button asks for the role.
UserButtons ==
    {Submit("createUser", "none"), Submit("updateUser", "none"), Write("toggleUser", "none")}
Users ==
    [PlainList EXCEPT !.button = FALSE, !.writes = UserButtons]

\* Mutant of Whitelist: the change of the merchant loads nothing.
WhitelistNotLoaded ==
    [PlainList EXCEPT !.opens = "no", !.fields = {"instant", "typed"}, !.needs = "skip",
                      !.failed = "keep", !.selects = TRUE, !.spins = FALSE, !.form = TRUE,
                      !.writes = {[Write("saveAllowedIPs", "write") EXCEPT !.reload = FALSE]}]

Whitelist ==
    [PlainList EXCEPT !.opens = "no", !.fields = {"instant"}, !.needs = "skip",
                      !.failed = "keep", !.selects = TRUE, !.spins = FALSE, !.form = TRUE,
                      !.writes = {[Write("saveAllowedIPs", "write") EXCEPT !.reload = FALSE]}]

\* The list of merchant/games.  The import has no guard of its own.
MerchantGameDialogs == {Submit("createMerchantGame", "write"), Submit("updateMerchantGame", "write")}
MerchantGameButtons ==
    {Write("deleteMerchantGame", "write"), Upload("importMerchantGames", "none")}
MerchantGames ==
    [PlainList EXCEPT !.opens = "no", !.fields = {"instant"}, !.needs = "blank",
                      !.selects = TRUE,
                      !.writes = MerchantGameDialogs \cup MerchantGameButtons]

\* Its dialogs: the tiers of the chosen game, of which one is saved with it.
MerchantGameTiers ==
    [PlainList EXCEPT !.opens = "no", !.fields = {"instant"}, !.needs = "skip",
                      !.button = FALSE, !.spins = FALSE, !.form = TRUE,
                      !.writes = {[Write("saveGameTier", "write") EXCEPT !.reload = FALSE]}]

PlatformGameButtons ==
    {Submit("createPlatformGame", "admin"), Submit("updatePlatformGame", "write"),
     Upload("importPlatformGames", "admin")}

\* Mutant of PlatformGames: everybody sees the create button.
PlatformGamesUnguarded ==
    [PlainList EXCEPT !.opens = "after", !.fields = {"instant"}, !.failed = "keep",
                      !.writes = PlatformGameButtons \cup {Submit("createPlatformGame", "write")}]

\* The categories come first; a failed load leaves the rows.
PlatformGames ==
    [PlainList EXCEPT !.opens = "after", !.fields = {"instant"}, !.failed = "keep",
                      !.writes = PlatformGameButtons]

\* The routes of the pages, whose meta.roles name all three roles but for one.
BusinessPages ==
    [blacklist |-> Blacklist, alerts |-> Alerts, merchants |-> Merchants,
     merchantGames |-> MerchantGames, whitelist |-> Whitelist,
     platformGames |-> PlatformGames, gameconfig |-> GameConfigs]

OfficePages ==
    [settlement |-> DailySettlements, periods |-> SettlementPeriods, rtpreport |-> RtpReport,
     trace |-> TraceLookup, users |-> [Users EXCEPT !.roles = {"admin"}], audit |-> Audit]

OtherPages == [dashboard |-> Dashboard, merchantGameTiers |-> MerchantGameTiers]

\* The pages of both; @@ of TLC has no definition that can be proved from.
Joined(f, g) ==
    [p \in DOMAIN f \cup DOMAIN g |-> IF p \in DOMAIN f THEN f[p] ELSE g[p]]

Views == Joined(Joined(BusinessPages, OfficePages), OtherPages)

=============================================================================
