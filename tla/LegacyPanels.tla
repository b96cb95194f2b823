---------------------------- MODULE LegacyPanels ----------------------------
(***************************************************************************)
(* The panels of the old console, admin-legacy/js/app.js: for each, what   *)
(* its loader does, and what its listeners send.  A panel is loaded when   *)
(* its tab is clicked and again by its button; it has no spinner, writes   *)
(* "loading" into the list first, and the error when the load fails.       *)
(***************************************************************************)
EXTENDS ConsoleViews

Panel == [PlainList EXCEPT !.clears = TRUE, !.spins = FALSE, !.stays = TRUE]

AlertPanel == [Panel EXCEPT !.writes = {Write("ackAlert", "write")}]

\* Two searches that share their result; their buttons stay enabled.
TracePanel == [Panel EXCEPT !.opens = "no", !.fields = {"typed"}]

BlacklistWrites == {Submit("addBlacklist", "write"), Write("deleteBlacklist", "write")}
BlacklistPanel == [Panel EXCEPT !.fields = {"instant"}, !.writes = BlacklistWrites]

\* A rotation changes nothing the list shows, and does not load it.
RotateKey == [Submit("rotateMerchantKey", "admin") EXCEPT !.reload = FALSE, !.shown = FALSE]
MerchantWrites ==
    {Submit("createMerchant", "admin"), Submit("updateMerchant", "write"), RotateKey}
MerchantPanel == [Panel EXCEPT !.fields = {"instant"}, !.writes = MerchantWrites]

\* The open breakers: loaded beside the merchants, hidden by a failure.  A
\* reset loads nothing.
BreakerPanel ==
    [Panel EXCEPT !.clears = FALSE, !.quiet = TRUE,
                  !.writes = {[Write("resetBreaker", "write") EXCEPT !.reload = FALSE],
                              [Submit("updateMerchant", "write") EXCEPT !.shown = FALSE]}]

\* The merchants, then how many addresses each has, before a row is shown; of
\* these whitelistIPCache keeps what it has got, a failure too.  What is saved is
\* cached under a string, what is looked up is a number: the count shown stays.
WhitelistPanel ==
    [Panel EXCEPT !.stages = 2, !.whole = TRUE, !.keeps = TRUE,
             !.writes = {Write("saveAllowedIPs", "write")}]

\* Its dialog: the addresses of the row whose button was clicked.
WhitelistSave == [Write("saveAllowedIPs", "write") EXCEPT !.reload = FALSE]
WhitelistDialog ==
    [Panel EXCEPT !.opens = "no", !.fields = {"instant"}, !.needs = "skip", !.form = TRUE,
                  !.quiet = TRUE, !.writes = {WhitelistSave}]

\* A row is deleted by its id, whatever the merchant now is.
GameConfigWrites ==
    {Submit("saveConfig", "write"),
     [Write("deleteConfig", "write") EXCEPT !.merchant = FALSE, !.leaves = TRUE]}
GameConfigPanel ==
    [Panel EXCEPT !.opens = "after", !.fields = {"instant", "typed"}, !.needs = "blank",
                  !.writes = GameConfigWrites]

\* Opening it fetches the merchants only.
RtpPanel == [Panel EXCEPT !.opens = "call", !.fields = {"typed"}]

\* The merchants first; the sync button is disabled until it has ended.
SettlementWrites ==
    {[Write("sync", "write") EXCEPT !.once = TRUE, !.leaves = TRUE],
     [Write("confirm", "write") EXCEPT !.row = TRUE, !.leaves = TRUE]}
SettlementPanel ==
    [Panel EXCEPT !.opens = "after", !.fields = {"instant", "typed"},
                  !.writes = SettlementWrites]

\* The roles first.  Only admins have the tab.
UserWrites == {Submit("createUser", "admin"), Submit("updateUser", "admin")}
UserPanel ==
    [Panel EXCEPT !.roles = {"admin"}, !.opens = "after", !.fields = {"instant"},
                  !.writes = UserWrites]

Panels ==
    [alertPanel |-> AlertPanel, tracePanel |-> TracePanel, blacklistPanel |-> BlacklistPanel,
     merchantPanel |-> MerchantPanel, breakerPanel |-> BreakerPanel,
     whitelistPanel |-> WhitelistPanel, whitelistDialog |-> WhitelistDialog,
     gameConfigPanel |-> GameConfigPanel, rtpPanel |-> RtpPanel,
     settlementPanel |-> SettlementPanel, userPanel |-> UserPanel]

\* The pages are those of the two consoles.
ASSUME PagesAssumption == Page = Joined(Views, Panels)

=============================================================================
