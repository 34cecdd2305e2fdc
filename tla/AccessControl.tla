----------------------------- MODULE AccessControl -----------------------------
(***************************************************************************)
(* Who may do what: roles and their permissions as seedRbac writes them    *)
(* (src/backend/src/scripts/seed-rbac.ts), the claims an access token is   *)
(* signed with (modules/auth/auth.service.ts, jwt.ts, and                  *)
(* modules/workspaces/workspace.service.ts), and the middlewares that      *)
(* admit a request on those claims alone (common/middlewares/auth.ts and   *)
(* authorize.ts). Claims outlive what they were read from; ago says for    *)
(* how long.                                                               *)
(***************************************************************************)
EXTENDS Integers, FiniteSets, Sequences

CONSTANTS
  Users, Workspaces, Browsers,
  UserOf,      \* who signs in with each browser
  Hired, Asked, \* roles given, and permissions asked for, in this instance
  Seeders,     \* processes that run seedRbac
  Lifetime,    \* JWT_EXPIRES_IN, in ticks
  Nothing,        \* no token, no workspace, no claims being read, nothing served
  MaxCuts      \* bound: seeders killed

VARIABLES
  admins,      \* users with isSystemAdmin, which no code changes
  joined,      \* each user: workspaces in the order of the member rows' createdAt
  roleIn,      \* each user and workspace: the role, or Nothing for no ACTIVE member
  granted,     \* RolePermission rows: the permissions of each role
  seeder,      \* each seedRbac: the role it is at, and whether its rows are deleted
  cuts,        \* seeders killed
  claims,      \* each browser: member row read for a token about to be signed
  token,       \* each browser: its access token
  served,      \* the last request admitted in this tick
  ago          \* history: ticks since the user's role gave the permission

memberVars == <<joined, roleIn>>
seedVars == <<granted, seeder, cuts>>
tokenVars == <<claims, token>>
accessVars == <<admins, memberVars, seedVars, tokenVars, served, ago>>

\* SYSTEM_ROLES and PERMISSIONS; "member" is what every route of a workspace asks for.
SystemRoles == <<"OWNER", "ADMIN", "MANAGER", "MEMBER", "VIEWER", "GUEST">>
RoleKeys == {"OWNER", "ADMIN", "MANAGER", "MEMBER", "VIEWER", "GUEST"}
Permissions == {"workspace.manage", "business_profile.manage", "contact.manage", "lead.manage",
                "workflow.execute", "workflow.approve", "billing.manage"}
Needs == Permissions \cup {"member"}

Matrix(r) ==
  {p \in Permissions :
     \/ r = "OWNER"
     \/ r = "ADMIN" /\ p # "billing.manage"
     \/ r = "MANAGER" /\ p \notin {"billing.manage", "workspace.manage"}
     \/ r = "MEMBER" /\ p \in {"contact.manage", "lead.manage", "workflow.execute"}}

ASSUME AccessAssumption ==
  /\ UserOf \in [Browsers -> Users]
  /\ Hired \subseteq RoleKeys /\ Asked \subseteq Needs
  /\ Nothing \notin RoleKeys \cup Workspaces \cup [at : DOMAIN SystemRoles, emptied : BOOLEAN]
  /\ Lifetime \in Nat \ {0} /\ MaxCuts \in Nat

\* What u is entitled to in w.
Entitled(u, w) == IF roleIn[u][w] = Nothing THEN {} ELSE {"member"} \cup Matrix(roleIn[u][w])

\* Type invariant; member rows outlive memberships.
AccessTypeOK ==
  /\ admins \subseteq Users
  /\ joined \in [Users -> Seq(Workspaces)]
  /\ roleIn \in [Users -> [Workspaces -> RoleKeys \cup {Nothing}]]
  /\ \A u \in Users, w \in Workspaces :
       roleIn[u][w] # Nothing => \E i \in DOMAIN joined[u] : joined[u][i] = w
  /\ granted \in [RoleKeys -> SUBSET Permissions]
  /\ seeder \in [Seeders -> [at : DOMAIN SystemRoles, emptied : BOOLEAN] \cup {Nothing}]
  /\ cuts \in 0..MaxCuts
  /\ claims \in [Browsers -> [workspace : Workspaces, role : RoleKeys] \cup {Nothing}]
  /\ token \in [Browsers -> [workspace : Workspaces \cup {Nothing}, perms : SUBSET Permissions,
                             age : 0..Lifetime] \cup {Nothing}]
  /\ served \in [browser : Browsers, workspace : Workspaces, needs : Needs] \cup {Nothing}
  /\ ago \in [Users -> [Workspaces -> [Needs -> 0..Lifetime + 1]]]

AccessInit ==
  /\ admins \in SUBSET Users
  /\ joined = [u \in Users |-> << >>]
  /\ roleIn = [u \in Users |-> [w \in Workspaces |-> Nothing]]
  /\ granted = [r \in RoleKeys |-> Matrix(r)]
  /\ seeder = [s \in Seeders |-> Nothing] /\ cuts = 0
  /\ claims = [b \in Browsers |-> Nothing] /\ token = [b \in Browsers |-> Nothing]
  /\ served = Nothing
  /\ ago = [u \in Users |-> [w \in Workspaces |-> [n \in Needs |-> Lifetime + 1]]]

-------------------------------------------------------------------------------
\* Faulty variants: tokens that do not expire; the path not compared with the claim; no
\* permission asked for; all permissions written to every role.
NeverExpires(b) == token[b] # Nothing
AnyPath(b, w) == token[b].workspace # Nothing
AnyNeeds(b, n) == TRUE
AllPermissions(r) == Permissions

\* verifyAccessToken: signed here and not expired.
Usable(b) == token[b] # Nothing /\ token[b].age < Lifetime

\* requireWorkspaceContext and enforceWorkspacePathMatch.
PathMatches(b, w) == token[b].workspace = w

\* authorize: the permission is among the claims, or the caller is a system administrator.
Authorized(b, n) == n = "member" \/ n \in token[b].perms \/ UserOf[b] \in admins

\* The permissions seedRbac finds for a role.
PermissionsFor(r) == Matrix(r)

\* resolveActiveWorkspaceClaims: the ACTIVE membership that is oldest.
ActiveAt(u, i) == roleIn[u][joined[u][i]] # Nothing
OldestAt(u, i) == ActiveAt(u, i) /\ \A j \in 1..(i - 1) : ~ActiveAt(u, j)

\* The history after a membership changed.
AgoWith(u, w, r) ==
  [ago EXCEPT ![u][w] = [n \in Needs |->
    IF r # Nothing /\ n \in {"member"} \cup Matrix(r) THEN 0 ELSE ago[u][w][n]]]

Reading(b) == claims[b] # Nothing
SignedFor(b, w, perms) ==
  token' = [token EXCEPT ![b] = [workspace |-> w, perms |-> perms, age |-> 0]]

-------------------------------------------------------------------------------
\* acceptInvitation (a new row, or the old one again), changeMemberRole, removeMember.
SetRole(u, w, r) ==
  /\ roleIn[u][w] # r
  /\ r = Nothing \/ r \in Hired
  /\ roleIn' = [roleIn EXCEPT ![u][w] = r]
  /\ joined' = IF \E i \in DOMAIN joined[u] : joined[u][i] = w THEN joined
               ELSE [joined EXCEPT ![u] = Append(@, w)]
  /\ ago' = AgoWith(u, w, r)
  /\ UNCHANGED <<admins, seedVars, tokenVars, served>>

\* createWorkspace: the creator's OWNER row, read again for the token.
CreateWorkspace(b, w) ==
  /\ Usable(b) /\ ~Reading(b) /\ ~\E u \in Users : \E i \in DOMAIN joined[u] : joined[u][i] = w
  /\ roleIn' = [roleIn EXCEPT ![UserOf[b]][w] = "OWNER"]
  /\ joined' = [joined EXCEPT ![UserOf[b]] = Append(@, w)]
  /\ ago' = AgoWith(UserOf[b], w, "OWNER")
  /\ claims' = [claims EXCEPT ![b] = [workspace |-> w, role |-> "OWNER"]]
  /\ UNCHANGED <<admins, seedVars, token, served>>

\* issueTokens, at sign-in and at every refresh: the member row of the oldest ACTIVE
\* membership is read; without one the token has no workspace.
ReadOldest(b) ==
  /\ ~Reading(b)
  /\ LET u == UserOf[b] IN
     \/ \E i \in DOMAIN joined[u] :
          /\ OldestAt(u, i)
          /\ claims' = [claims EXCEPT ![b] =
               [workspace |-> joined[u][i], role |-> roleIn[u][joined[u][i]]]]
          /\ UNCHANGED token
     \/ /\ \A i \in DOMAIN joined[u] : ~ActiveAt(u, i)
        /\ SignedFor(b, Nothing, {}) /\ UNCHANGED claims
  /\ UNCHANGED <<admins, memberVars, seedVars, served, ago>>

\* selectWorkspace: the member row of the workspace asked for.
ReadSelected(b, w) ==
  /\ Usable(b) /\ ~Reading(b) /\ roleIn[UserOf[b]][w] # Nothing
  /\ claims' = [claims EXCEPT ![b] = [workspace |-> w, role |-> roleIn[UserOf[b]][w]]]
  /\ UNCHANGED <<admins, memberVars, seedVars, token, served, ago>>

\* The include's further SELECTs find the role's permissions; the token is signed.
Sign(b) ==
  /\ Reading(b)
  /\ SignedFor(b, claims[b].workspace, granted[claims[b].role])
  /\ claims' = [claims EXCEPT ![b] = Nothing]
  /\ UNCHANGED <<admins, memberVars, seedVars, served, ago>>

\* A request to a route of a workspace passes authenticate, requireWorkspaceContext,
\* enforceWorkspacePathMatch and authorize.
Admit(b, w, n) ==
  /\ Usable(b) /\ PathMatches(b, w) /\ Authorized(b, n)
  /\ served' = [browser |-> b, workspace |-> w, needs |-> n]
  /\ UNCHANGED <<admins, memberVars, seedVars, tokenVars, ago>>

\* Time passes; reading the claims and signing takes less than a tick.
Tick ==
  /\ \A b \in Browsers : ~Reading(b)
  /\ token' = [b \in Browsers |->
       IF token[b] = Nothing THEN Nothing
       ELSE [token[b] EXCEPT !.age = IF @ < Lifetime THEN @ + 1 ELSE @]]
  /\ ago' = [u \in Users |-> [w \in Workspaces |-> [n \in Needs |->
       IF n \in Entitled(u, w) THEN 0
       ELSE IF ago[u][w][n] <= Lifetime THEN ago[u][w][n] + 1 ELSE ago[u][w][n]]]]
  /\ served' = Nothing
  /\ UNCHANGED <<admins, memberVars, seedVars, claims>>

-------------------------------------------------------------------------------
Seeding(s) == seeder[s] # Nothing
RoleAt(s) == SystemRoles[seeder[s].at]

\* seedRbac: role by role its permission rows are deleted ...
SeedStart(s) ==
  /\ ~Seeding(s)
  /\ seeder' = [seeder EXCEPT ![s] = [at |-> 1, emptied |-> FALSE]]
  /\ UNCHANGED <<admins, memberVars, granted, cuts, tokenVars, served, ago>>

SeedDelete(s) ==
  /\ Seeding(s) /\ ~seeder[s].emptied
  /\ granted' = [granted EXCEPT ![RoleAt(s)] = {}]
  /\ seeder' = [seeder EXCEPT ![s].emptied = TRUE]
  /\ UNCHANGED <<admins, memberVars, cuts, tokenVars, served, ago>>

\* ... and created again, by another statement, skipping those another seeder has created.
SeedCreate(s) ==
  /\ Seeding(s) /\ seeder[s].emptied
  /\ granted' = [granted EXCEPT ![RoleAt(s)] = @ \cup PermissionsFor(RoleAt(s))]
  /\ seeder' = [seeder EXCEPT ![s] = IF seeder[s].at = Len(SystemRoles) THEN Nothing
                                     ELSE [at |-> seeder[s].at + 1, emptied |-> FALSE]]
  /\ UNCHANGED <<admins, memberVars, cuts, tokenVars, served, ago>>

\* The seeder is killed.
SeedCut(s) ==
  /\ Seeding(s) /\ cuts < MaxCuts
  /\ cuts' = cuts + 1
  /\ seeder' = [seeder EXCEPT ![s] = Nothing]
  /\ UNCHANGED <<admins, memberVars, granted, tokenVars, served, ago>>

-------------------------------------------------------------------------------
Seed(s) == SeedStart(s) \/ SeedDelete(s) \/ SeedCreate(s) \/ SeedCut(s)

AccessNext ==
  \/ \E u \in Users, w \in Workspaces, r \in RoleKeys \cup {Nothing} : SetRole(u, w, r)
  \/ \E b \in Browsers :
       \/ ReadOldest(b) \/ Sign(b)
       \/ \E w \in Workspaces :
            CreateWorkspace(b, w) \/ ReadSelected(b, w) \/ \E n \in Asked : Admit(b, w, n)
  \/ \E s \in Seeders : Seed(s)
  \/ Tick

AccessSpec == AccessInit /\ [][AccessNext]_accessVars

-------------------------------------------------------------------------------
\* "Permission keys are resolved onto the access token at sign-in time ... not a fresh
\* database round-trip per request" (authorize.ts, lines 5-15): so a removal, a demotion
\* or a change of workspace takes effect late, but never later than one token lifetime;
\* a system administrator passes every permission and still no other tenant's door.
ServedWasEntitled ==
  served # Nothing =>
    LET u == UserOf[served.browser] since == ago[u][served.workspace] IN
    /\ since["member"] < Lifetime
    /\ since[served.needs] < Lifetime \/ u \in admins

\* The claims of a token that can still be used were entitled to when it was signed.
ClaimsAge ==
  \A b \in Browsers : Usable(b) /\ token[b].workspace # Nothing =>
    \A n \in {"member"} \cup token[b].perms :
      ago[UserOf[b]][token[b].workspace][n] <= token[b].age

\* "Idempotent" (seed-rbac.ts, line 46): run again, and by several processes at once, it
\* leaves the roles as the matrix says, and no role ever has more; roles are bare only
\* while a seeder is between its two statements, or was killed there.
RolesWhole ==
  \A r \in RoleKeys :
    /\ granted[r] \subseteq Matrix(r)
    /\ granted[r] = Matrix(r) \/ cuts > 0
       \/ \E s \in Seeders : Seeding(s) /\ RoleAt(s) = r /\ seeder[s].emptied

\* What claims and roles promise together.
AccessHolds == ServedWasEntitled /\ ClaimsAge /\ RolesWhole
===============================================================================
