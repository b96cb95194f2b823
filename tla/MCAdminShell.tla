---------------------------- MODULE MCAdminShell ----------------------------
(* An admin and a viewer share a browser: two pages, of which one is for   *)
(* admins, a login and another call on their way, two tokens, one mishap.  *)
EXTENDS AdminShell

CONSTANTS admin, viewer, s1

\* Bounds: with a login on its way the tab stays on the login page, which it can
\* only leave when another tab has logged in; a second factor is bound while
\* there is a token left for it.
LoginIsAwaited == signing \in Users => route = "login"

Binds(s) == calls[s].kind \in {"setup", "confirm", "orphan"}
TokenLeft == totp = "code" \/ (\E s \in Slots : Binds(s)) => Len(who) < MaxSessions

=============================================================================
