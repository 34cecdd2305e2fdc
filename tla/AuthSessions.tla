----------------------------- MODULE AuthSessions -----------------------------
(***************************************************************************)
(* The sessions of one account (src/backend/src/modules/auth/              *)
(* auth.service.ts). A refresh token is the id of its session row. Only    *)
(* the claim of a reset token is a transaction; every other operation      *)
(* reads, then writes statement by statement.                              *)
(***************************************************************************)
EXTENDS Integers, FiniteSets

CONSTANTS
  Callers,      \* requests under way
  None,
  MaxSessions,  \* bound: session rows
  MaxPasswords, \* bound: password changes
  MaxResets,    \* bound: password reset tokens
  MaxLapses,    \* bound: sessions and reset tokens that run out of time
  MaxCrashes    \* bound: requests cut short

Rows == 1..MaxSessions
Tokens == 1..MaxResets
Passwords == 0..MaxPasswords
Ops == {"create", "issue", "revoke", "hash", "claim", "kill", "done"}
AuthCalls == [op : Ops, id : 0..MaxSessions, token : Tokens \cup {0}, cred : Passwords,
              kills : Nat, via : {"other", "login", "tab"}, got : 0..MaxSessions]

ASSUME AuthAssumption ==
  /\ None \notin Callers \cup Nat \cup AuthCalls
  /\ MaxSessions \in Nat /\ MaxPasswords \in Nat /\ MaxResets \in Nat
  /\ MaxLapses \in Nat /\ MaxCrashes \in Nat

VARIABLES
  account,           \* is the email registered
  password,          \* the password hash, by version
  sessions, revoked, \* rows made so far, 1..sessions; those with revokedAt
  overdue,           \* rows whose expiresAt has passed
  parent, cred,      \* history: the token a row was exchanged for, or 0; the password
                     \* version its login was checked against
  resets, used,      \* reset tokens made so far; those with usedAt
  lapsed,            \* reset tokens past their expiresAt
  spent,             \* history: password changes made with each reset token
  kills, enforced,   \* history: revocations of all sessions; the newest password
                     \* version whose revocation is done
  late,              \* history: sessions issued by, or exchanged from one issued by, a
                     \* request that a revocation of all sessions overtook
  call, crashes

sessionVars == <<sessions, revoked, overdue, parent, cred, late>>
resetVars == <<resets, used, lapsed, spent>>
killVars == <<kills, enforced>>
authVars == <<account, password, sessionVars, resetVars, killVars, call, crashes>>

\* Type invariant of the tables and of the requests under way; nothing exists before the
\* account does.
AuthTypeOK ==
  /\ account \in BOOLEAN
  /\ ~account => sessions = 0 /\ resets = 0 /\ password = 0
  /\ password \in Passwords
  /\ sessions \in 0..MaxSessions
  /\ revoked \subseteq 1..sessions /\ overdue \subseteq 1..sessions
  /\ late \subseteq 1..sessions
  /\ parent \in [Rows -> 0..MaxSessions] /\ \A i \in Rows : parent[i] < i
  /\ cred \in [Rows -> Passwords]
  /\ resets \in 0..MaxResets
  /\ used \subseteq 1..resets /\ lapsed \subseteq 1..resets
  /\ spent \in [Tokens -> Nat]
  /\ kills \in Nat /\ enforced \in 0..password
  /\ call \in [Callers -> AuthCalls \cup {None}]
  /\ crashes \in 0..MaxCrashes

AuthInit ==
  /\ account = FALSE /\ password = 0
  /\ sessions = 0 /\ revoked = {} /\ overdue = {} /\ late = {}
  /\ parent = [i \in Rows |-> 0] /\ cred = [i \in Rows |-> 0]
  /\ resets = 0 /\ used = {} /\ lapsed = {} /\ spent = [t \in Tokens |-> 0]
  /\ kills = 0 /\ enforced = 0
  /\ call = [c \in Callers |-> None]
  /\ crashes = 0

-------------------------------------------------------------------------------
At(c, op) == call[c] # None /\ call[c].op = op
Do(c, d) == call' = [call EXCEPT ![c] = d]
Is(c, op) == Do(c, [call[c] EXCEPT !.op = op])
Fresh == [op |-> "create", id |-> 0, token |-> 0, cred |-> password, kills |-> kills,
          via |-> "other", got |-> 0]

\* The answer, a session or 0: only a browser (via) goes on with it.
Answer(c, id) ==
  Do(c, IF call[c].via = "other" THEN None ELSE [call[c] EXCEPT !.op = "done", !.got = id])

\* Room under the bounds, counting the requests already on their way.
Going(ops) == Cardinality({c \in Callers : call[c] # None /\ call[c].op \in ops})
RoomToIssue == sessions + Going({"create", "issue", "revoke"}) < MaxSessions
RoomToChange == password + Going({"hash", "claim"}) < MaxPasswords

\* Faulty variants: an unknown email is let in; a revoked token still refreshes; refresh
\* does not revoke; the password is changed and the sessions left; only the sessions
\* known at the start are revoked; the claim is unconditional.
AnyEmail == TRUE
Unexpired(i) == i \in 1..sessions /\ i \notin overdue
IssueAtOnce == "issue"
LeaveSessions(d) == None
KnownSessions(d) == 1..d.id
AlwaysHits(t) == TRUE

\* findUnique by email finds the user, with a password and not deleted.
Found == account

\* What refresh accepts: the row exists, is not revoked and has not expired.
Refreshable(i) == i \in 1..sessions /\ i \notin revoked /\ i \notin overdue

Live == {i \in 1..sessions : Refreshable(i)}

\* refresh revokes the token it was given before it issues the next.
RotationStart == "revoke"

\* What follows the update of the hash, to the version after password.
AfterHash(d) == [d EXCEPT !.op = "kill", !.cred = password + 1]

\* updateMany ... where revokedAt is null: every row there is.
Killed(d) == 1..sessions

\* The conditional update of a reset token hits while usedAt is null.
ClaimHits(t) == t \notin used

-------------------------------------------------------------------------------
\* register: no account with this email ...
RegisterRead(c) ==
  /\ call[c] = None /\ ~account /\ RoomToIssue
  /\ Do(c, Fresh)
  /\ UNCHANGED <<account, password, sessionVars, resetVars, killVars, crashes>>

\* ... and create it; the second of two fails on the unique email.
RegisterCreate(c) ==
  /\ At(c, "create")
  /\ account' = TRUE
  /\ IF account THEN Answer(c, 0) ELSE Is(c, "issue")
  /\ UNCHANGED <<password, sessionVars, resetVars, killVars, crashes>>

\* login: the password is checked against the hash read.
LoginRead(c, via) ==
  /\ call[c] = None /\ Found /\ RoomToIssue
  /\ Do(c, [Fresh EXCEPT !.op = "issue", !.via = via])
  /\ UNCHANGED <<account, password, sessionVars, resetVars, killVars, crashes>>

\* refresh: read the session row and check it; a refused token changes nothing.
RefreshRead(c, i, via) ==
  /\ call[c] = None /\ i \in 1..sessions /\ RoomToIssue
  /\ IF Refreshable(i)
     THEN Do(c, [Fresh EXCEPT !.op = RotationStart, !.id = i, !.cred = cred[i],
                              !.via = via])
     ELSE via = "tab" /\ Do(c, [Fresh EXCEPT !.op = "done", !.id = i, !.via = via])
  /\ UNCHANGED <<account, password, sessionVars, resetVars, killVars, crashes>>

\* Revoke by id, whatever happened to the row since.
RotateOld(c) ==
  /\ At(c, "revoke")
  /\ revoked' = revoked \cup {call[c].id}
  /\ Is(c, "issue")
  /\ UNCHANGED <<account, password, sessions, overdue, parent, cred, late, resetVars,
                 killVars, crashes>>

\* issueTokens: the new session row.
Issue(c) ==
  /\ At(c, "issue")
  /\ sessions' = sessions + 1
  /\ parent' = [parent EXCEPT ![sessions + 1] = call[c].id]
  /\ cred' = [cred EXCEPT ![sessions + 1] = call[c].cred]
  /\ late' = IF call[c].kills # kills \/ call[c].id \in late
             THEN late \cup {sessions + 1} ELSE late
  /\ Answer(c, sessions + 1)
  /\ UNCHANGED <<account, password, revoked, overdue, resetVars, killVars, crashes>>

\* logout: one conditional update.
Logout(i) ==
  /\ i \in 1..sessions \ revoked
  /\ revoked' = revoked \cup {i}
  /\ UNCHANGED <<account, password, sessions, overdue, parent, cred, late, resetVars,
                 killVars, call, crashes>>

\* changePassword: check the current password against the hash read ...
ChangeRead(c) ==
  /\ call[c] = None /\ Found /\ RoomToChange
  /\ Do(c, [Fresh EXCEPT !.op = "hash", !.id = sessions])
  /\ UNCHANGED <<account, password, sessionVars, resetVars, killVars, crashes>>

\* ... write the new hash ...
ChangeHash(c) ==
  /\ At(c, "hash")
  /\ password' = password + 1
  /\ Do(c, AfterHash(call[c]))
  /\ UNCHANGED <<account, sessionVars, resetVars, killVars, crashes>>

\* ... and revoke every session, in another statement.
KillSessions(c) ==
  /\ At(c, "kill")
  /\ revoked' = revoked \cup Killed(call[c])
  /\ kills' = kills + 1
  /\ enforced' = IF call[c].cred > enforced THEN call[c].cred ELSE enforced
  /\ Do(c, None)
  /\ UNCHANGED <<account, password, sessions, overdue, parent, cred, late, resetVars, crashes>>

\* requestPasswordReset: one more token.
ResetAsk ==
  /\ Found /\ resets < MaxResets
  /\ resets' = resets + 1
  /\ UNCHANGED <<account, password, sessionVars, used, lapsed, spent, killVars, call, crashes>>

\* resetPassword: read the token ...
ResetRead(c, t) ==
  /\ call[c] = None /\ RoomToChange
  /\ t \in 1..resets /\ t \notin used /\ t \notin lapsed
  /\ Do(c, [Fresh EXCEPT !.op = "claim", !.token = t, !.id = sessions])
  /\ UNCHANGED <<account, password, sessionVars, resetVars, killVars, crashes>>

\* ... claim it and write the hash in the same transaction; the row lock makes a
\* second claim wait for the first to commit.
ResetClaim(c) ==
  /\ At(c, "claim")
  /\ LET t == call[c].token
         hit == ClaimHits(t) IN
     /\ used' = used \cup {t}
     /\ password' = IF hit THEN password + 1 ELSE password
     /\ spent' = IF hit THEN [spent EXCEPT ![t] = @ + 1] ELSE spent
     /\ Do(c, IF hit THEN AfterHash(call[c]) ELSE None)
  /\ UNCHANGED <<account, sessionVars, resets, lapsed, killVars, crashes>>

\* A session's seven days, or a reset token's hour, pass (of interest while it is good).
TimeRunsOut ==
  /\ Cardinality(overdue) + Cardinality(lapsed) < MaxLapses
  /\ \/ \E i \in Live : overdue' = overdue \cup {i} /\ UNCHANGED lapsed
     \/ \E t \in (1..resets) \ (used \cup lapsed) : lapsed' = lapsed \cup {t} /\ UNCHANGED overdue
  /\ UNCHANGED <<account, password, sessions, revoked, parent, cred, late, resets, used,
                 spent, killVars, call, crashes>>

\* A statement rejects or the process dies: the rest of the request is dropped.
CrashCall(c) ==
  /\ call[c] # None /\ call[c].op # "done" /\ crashes < MaxCrashes
  /\ crashes' = crashes + 1
  /\ Answer(c, 0)
  /\ UNCHANGED <<account, password, sessionVars, resetVars, killVars>>

-------------------------------------------------------------------------------
AuthStep(c) ==
  \/ RegisterCreate(c) \/ RotateOld(c) \/ Issue(c) \/ ChangeHash(c) \/ KillSessions(c)
  \/ ResetClaim(c) \/ CrashCall(c)

AuthNext ==
  \/ \E c \in Callers :
       \/ RegisterRead(c) \/ LoginRead(c, "other") \/ ChangeRead(c) \/ AuthStep(c)
       \/ \E i \in Rows : RefreshRead(c, i, "other")
       \/ \E t \in Tokens : ResetRead(c, t)
  \/ \E i \in Rows : Logout(i)
  \/ ResetAsk \/ TimeRunsOut

AuthSpec == AuthInit /\ [][AuthNext]_authVars

-------------------------------------------------------------------------------
\* A changed password ends every session of the old one (lines 177-185, 246-251): a
\* live session rests on a password checked no earlier than the last change whose
\* revocation is done, through any number of refreshes, unless that revocation
\* overtook the request that issued it.
OldSessionsEnd == \A i \in Live \ late : cred[i] >= enforced

\* The revocation itself is only lost to a crash.
ChangesAreEnforced ==
  crashes = 0 /\ (\A c \in Callers : call[c] = None) => enforced = password

\* "Rotate: revoke the used refresh token" (line 155): a token exchanged for another
\* is never accepted again, wherever the exchange was cut short.
ExchangedIsRevoked == \A i \in 1..sessions : parent[i] # 0 => parent[i] \in revoked

\* "Two concurrent consumption attempts for the same token can never both succeed"
\* (lines 246-249).
ResetOnce == \A t \in Tokens : spent[t] <= 1

\* What a user may rely on after a password change, a refresh or a reset.
SessionsEnd == OldSessionsEnd /\ ChangesAreEnforced /\ ExchangedIsRevoked /\ ResetOnce
===============================================================================
