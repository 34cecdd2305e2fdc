----------------------------- MODULE BrowserAuth -----------------------------
(***************************************************************************)
(* One browser tab on top of AuthSessions: the stored tokens and the       *)
(* interceptor that refreshes them (src/frontend/src/shared/lib/           *)
(* api-client.ts, auth-storage.ts and app/providers/AuthProvider.tsx). The *)
(* tab's concurrent API requests are Callers too; requests without the tab *)
(* come from other devices of the same user.                               *)
(***************************************************************************)
EXTENDS AuthSessions

VARIABLES
  store,    \* refresh token in localStorage, or None
  flight,   \* refreshInFlight: the request whose refresh is awaited, or None
  waiting,  \* requests that await it
  presented \* history: refresh tokens the tab has presented

browserVars == <<store, flight, waiting, presented>>
browserAuthVars == <<authVars, browserVars>>

\* Type invariant: the refresh awaited is the only one of the tab's.
BrowserTypeOK ==
  /\ store \in 1..sessions \cup {None}
  /\ flight \in Callers \cup {None}
  /\ waiting \subseteq Callers
  /\ flight = None => waiting = {}
  /\ \A c \in Callers : flight = c <=> call[c] # None /\ call[c].via = "tab"
  /\ presented \subseteq 1..sessions

BrowserInit == AuthInit /\ store = None /\ flight = None /\ waiting = {} /\ presented = {}

-------------------------------------------------------------------------------
\* Faulty variants: every 401 refreshes on its own; a refused token stays stored.
NeverWait == FALSE
Kept(id) == IF id # 0 THEN id ELSE store

\* refreshInFlight ??= refreshAccessToken(): join the refresh under way.
MustWait == flight # None

\* What the store holds after a refresh answered with session id, 0 for a failure.
AfterRefresh(id) == IF id # 0 THEN id ELSE None

\* LoginPage: /auth/login, whatever else the tab has under way.
SignIn(c) ==
  /\ store = None /\ c \notin waiting
  /\ LoginRead(c, "login")
  /\ UNCHANGED browserVars

\* The answer to the login: setStoredAuth.
SignedIn(c) ==
  /\ At(c, "done") /\ call[c].via = "login"
  /\ store' = IF call[c].got # 0 THEN call[c].got ELSE store
  /\ Do(c, None)
  /\ UNCHANGED <<account, password, sessionVars, resetVars, killVars, crashes, flight,
                 waiting, presented>>

\* AppShell's logout only clears the store; the session row stays.
SignOut ==
  /\ store # None
  /\ store' = None
  /\ UNCHANGED <<authVars, flight, waiting, presented>>

\* A request is answered 401, its access token having expired: refresh with the token
\* stored, or await the refresh under way.
Unauthorized(c) ==
  /\ store # None /\ c \notin waiting /\ call[c] = None
  /\ IF MustWait
     THEN waiting' = waiting \cup {c} /\ UNCHANGED <<authVars, flight, presented>>
     ELSE /\ RefreshRead(c, store, "tab")
          /\ flight' = c /\ presented' = presented \cup {store}
          /\ UNCHANGED waiting
  /\ UNCHANGED store

\* The answer to the refresh: store the new tokens, even after a sign-out, or clear the
\* store; everybody who awaited it goes on.
Refreshed(c) ==
  /\ At(c, "done") /\ call[c].via = "tab"
  /\ store' = AfterRefresh(call[c].got)
  /\ flight' = None /\ waiting' = {}
  /\ Do(c, None)
  /\ UNCHANGED <<account, password, sessionVars, resetVars, killVars, crashes, presented>>

-------------------------------------------------------------------------------
BrowserNext ==
  \/ \E c \in Callers : SignIn(c) \/ Unauthorized(c) \/ Refreshed(c) \/ SignedIn(c)
  \/ SignOut
  \/ AuthNext /\ UNCHANGED browserVars

BrowserSpec == BrowserInit /\ [][BrowserNext]_browserAuthVars

-------------------------------------------------------------------------------
\* "A single 401 triggers one refresh attempt (de-duplicated across concurrent
\* requests)" (lines 61-63): however its requests overlap, and whatever fails, the tab
\* presents each refresh token at most once, so it never signs its own user out.
PresentedOnce == [][\A c \in Callers : flight' = c /\ flight # c => store \notin presented]_browserAuthVars
===============================================================================
