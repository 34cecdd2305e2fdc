---------------------------- MODULE AccountsProofs ----------------------------
(***************************************************************************)
(* Proofs about what the users of a workspace do: AccessControl, usage     *)
(* alerts, onboarding and approvals, sessions and the browser that         *)
(* refreshes them, for any users, requests, browsers, seeders, thresholds, *)
(* plans and bounds; and the five together as MCAccounts puts them.        *)
(***************************************************************************)
EXTENDS MCAccounts, FiniteSetTheorems, TLAPS

\* How many requests do something, as one of them starts, ends or goes on.
LEMMA OneMore ==
  \A S, c : IsFiniteSet(S) =>
    /\ IsFiniteSet(S \cup {c}) /\ Cardinality(S \cup {c}) \in Nat
    /\ Cardinality(S \cup {c}) = IF c \in S THEN Cardinality(S) ELSE Cardinality(S) + 1
<1>1. TAKE S, c
<1>2. HAVE IsFiniteSet(S)
<1>3. /\ IsFiniteSet(S \cup {c})
      /\ Cardinality(S \cup {c}) = IF c \in S THEN Cardinality(S) ELSE Cardinality(S) + 1
  BY <1>2, FS_AddElement
<1>4. Cardinality(S \cup {c}) \in Nat
  BY <1>3, FS_CardinalityType
<1>. QED BY <1>3, <1>4

LEMMA OneFewer ==
  \A S, c : IsFiniteSet(S) =>
    /\ IsFiniteSet(S \ {c}) /\ Cardinality(S \ {c}) \in Nat
    /\ Cardinality(S \ {c}) <= Cardinality(S)
    /\ Cardinality(S \ {c}) = IF c \in S THEN Cardinality(S) - 1 ELSE Cardinality(S)
<1>1. TAKE S, c
<1>2. HAVE IsFiniteSet(S)
<1>3. /\ IsFiniteSet(S \ {c})
      /\ Cardinality(S \ {c}) = IF c \in S THEN Cardinality(S) - 1 ELSE Cardinality(S)
  BY <1>2, FS_RemoveElement
<1>4. Cardinality(S) \in Nat /\ Cardinality(S \ {c}) \in Nat
  BY <1>2, <1>3, FS_CardinalityType
<1>. QED BY <1>3, <1>4

(***************************************************************************)
(* Claims and roles.                                                       *)
(***************************************************************************)

\* A permission somebody has was theirs at this very tick.
Current ==
  \A u \in Users, w \in Workspaces : \A n \in Entitled(u, w) : ago[u][w][n] = 0

\* So was everything about to be signed: no tick passes between the read and the signature.
ReadingIsCurrent ==
  \A b \in Browsers : Reading(b) =>
    \A n \in {"member"} \cup Matrix(claims[b].role) :
      ago[UserOf[b]][claims[b].workspace][n] = 0

\* The inductive invariant: what was served follows from the age of the claims, and the
\* age of new claims from what was read for them.
AccessInv == AccessTypeOK /\ Current /\ ReadingIsCurrent /\ AccessHolds

\* No role has a permission that is not one.
LEMMA MatrixType == \A r : Matrix(r) \subseteq Permissions
  BY DEF Matrix

\* A seeder is at one of the system roles.
LEMMA RoleAtType ==
  ASSUME AccessTypeOK, NEW s \in Seeders, Seeding(s)
  PROVE  seeder[s].at \in 1..6 /\ RoleAt(s) \in RoleKeys
<1>1. seeder[s].at \in DOMAIN SystemRoles
  BY DEF AccessTypeOK, Seeding
<1>2. DOMAIN SystemRoles = 1..6
  BY DEF SystemRoles
<1>3. \A i \in 1..6 : SystemRoles[i] \in RoleKeys
  BY DEF SystemRoles, RoleKeys
<1>. QED BY <1>1, <1>2, <1>3 DEF RoleAt

\* The initial states satisfy the inductive invariant.
LEMMA AccessInitInvariant == AccessInit => AccessInv
<1>. SUFFICES ASSUME AccessInit PROVE AccessInv
  OBVIOUS
<1>1. AccessTypeOK
  BY AccessAssumption, MatrixType DEF AccessInit, AccessTypeOK, RoleKeys, Needs
<1>2. Current /\ ReadingIsCurrent
  BY DEF AccessInit, Current, ReadingIsCurrent, Entitled, Reading
<1>3. AccessHolds
  BY DEF AccessInit, AccessHolds, ServedWasEntitled, ClaimsAge, Usable, RolesWhole
<1>. QED BY <1>1, <1>2, <1>3 DEF AccessInv

\* A membership that changes sets some histories back to zero and leaves the others.
LEMMA AgoAfterChange ==
  ASSUME AccessTypeOK, NEW u \in Users, NEW w \in Workspaces, NEW r, ago' = AgoWith(u, w, r)
  PROVE  /\ ago' \in [Users -> [Workspaces -> [Needs -> 0..Lifetime + 1]]]
         /\ \A v \in Users, x \in Workspaces, n \in Needs :
              ago'[v][x][n] = 0 \/ ago'[v][x][n] = ago[v][x][n]
         /\ \A n \in Needs : r # Nothing /\ n \in {"member"} \cup Matrix(r) => ago'[u][w][n] = 0
<1>. DEFINE new == [n \in Needs |-> IF r # Nothing /\ n \in {"member"} \cup Matrix(r) THEN 0
                                    ELSE ago[u][w][n]]
<1>1. new \in [Needs -> 0..Lifetime + 1]
  BY AccessAssumption DEF AccessTypeOK
<1>2. ago' = [ago EXCEPT ![u] = [ago[u] EXCEPT ![w] = new]]
  BY DEF AgoWith
<1>3. \A n \in Needs : new[n] = 0 \/ new[n] = ago[u][w][n]
  OBVIOUS
<1>. HIDE DEF new
<1>4. ago' \in [Users -> [Workspaces -> [Needs -> 0..Lifetime + 1]]]
  BY <1>1, <1>2 DEF AccessTypeOK
<1>5. \A v \in Users, x \in Workspaces :
        ago'[v][x] = IF v = u /\ x = w THEN new ELSE ago[v][x]
  BY <1>1, <1>2 DEF AccessTypeOK
<1>6. \A n \in Needs : r # Nothing /\ n \in {"member"} \cup Matrix(r) => new[n] = 0
  BY DEF new
<1>. QED BY <1>3, <1>4, <1>5, <1>6

\* So what was served stays entitled, claims stay as old and reads stay current.
LEMMA HistoryOnlyImproves ==
  ASSUME AccessInv, UNCHANGED <<admins, token, served, granted, seeder, cuts>>,
         NEW u \in Users, NEW w \in Workspaces, NEW r, ago' = AgoWith(u, w, r)
  PROVE  /\ AccessHolds'
         /\ claims' = claims => ReadingIsCurrent'
<1>. USE DEF AccessInv
<1>1. \A v \in Users, x \in Workspaces, n \in Needs :
        ago'[v][x][n] = 0 \/ ago'[v][x][n] = ago[v][x][n]
  BY AgoAfterChange
<1>2. ServedWasEntitled'
  <2>1. SUFFICES ASSUME served # Nothing PROVE ServedWasEntitled'
    BY DEF ServedWasEntitled
  <2>2. /\ UserOf[served.browser] \in Users /\ served.workspace \in Workspaces
        /\ served.needs \in Needs /\ "member" \in Needs
    BY <2>1, AccessAssumption DEF AccessTypeOK, Needs
  <2>. QED BY <1>1, <2>1, <2>2, AccessAssumption DEF AccessHolds, ServedWasEntitled
<1>3. ClaimsAge'
  <2>1. SUFFICES ASSUME NEW b \in Browsers, Usable(b), token[b].workspace # Nothing,
                        NEW n \in {"member"} \cup token[b].perms
                 PROVE  ago'[UserOf[b]][token[b].workspace][n] <= token[b].age
    BY DEF ClaimsAge, Usable
  <2>2. /\ UserOf[b] \in Users /\ token[b].workspace \in Workspaces /\ n \in Needs
        /\ token[b].age \in Nat
    BY <2>1, AccessAssumption DEF AccessTypeOK, Usable, Needs
  <2>3. ago[UserOf[b]][token[b].workspace][n] <= token[b].age
    BY <2>1 DEF AccessHolds, ClaimsAge
  <2>. QED BY <1>1, <2>2, <2>3
<1>4. RolesWhole'
  BY DEF AccessHolds, RolesWhole, Seeding, RoleAt
<1>5. ASSUME claims' = claims PROVE ReadingIsCurrent'
  <2>1. SUFFICES ASSUME NEW b \in Browsers, Reading(b),
                        NEW n \in {"member"} \cup Matrix(claims[b].role)
                 PROVE  ago'[UserOf[b]][claims[b].workspace][n] = 0
    BY <1>5 DEF ReadingIsCurrent, Reading
  <2>2. UserOf[b] \in Users /\ claims[b].workspace \in Workspaces /\ n \in Needs
    BY <2>1, AccessAssumption, MatrixType DEF AccessTypeOK, Reading, Needs
  <2>. QED BY <1>1, <2>1, <2>2 DEF ReadingIsCurrent
<1>. QED BY <1>2, <1>3, <1>4, <1>5 DEF AccessHolds

\* A first membership adds its row behind the others of the user.
LEMMA RowsAfterJoining ==
  ASSUME AccessTypeOK, NEW u \in Users, NEW w \in Workspaces,
         joined' = [joined EXCEPT ![u] = Append(@, w)]
  PROVE  /\ joined' \in [Users -> Seq(Workspaces)]
         /\ \E i \in DOMAIN joined'[u] : joined'[u][i] = w
         /\ \A v \in Users, x \in Workspaces :
              (\E i \in DOMAIN joined[v] : joined[v][i] = x)
                => \E i \in DOMAIN joined'[v] : joined'[v][i] = x
<1>1. joined[u] \in Seq(Workspaces) /\ joined'[u] = Append(joined[u], w)
  BY DEF AccessTypeOK
<1>2. joined'[u][Len(joined[u]) + 1] = w /\ Len(joined[u]) + 1 \in DOMAIN joined'[u]
  BY <1>1
<1>3. \A i \in DOMAIN joined[u] : i \in DOMAIN joined'[u] /\ joined'[u][i] = joined[u][i]
  BY <1>1
<1>4. joined' \in [Users -> Seq(Workspaces)]
  BY <1>1 DEF AccessTypeOK
<1>5. \A v \in Users \ {u} : joined'[v] = joined[v]
  BY DEF AccessTypeOK
<1>. QED BY <1>2, <1>3, <1>4, <1>5

\* A membership is given, changed or taken.
LEMMA SetRoleStep ==
  ASSUME AccessInv, NEW u \in Users, NEW w \in Workspaces, NEW r \in RoleKeys \cup {Nothing},
         SetRole(u, w, r)
  PROVE  AccessInv'
<1>. USE DEF AccessInv, SetRole, seedVars, tokenVars
<1>1. AccessHolds' /\ ReadingIsCurrent'
  BY HistoryOnlyImproves
<1>0. /\ ago' \in [Users -> [Workspaces -> [Needs -> 0..Lifetime + 1]]]
      /\ \A v \in Users, x \in Workspaces, n \in Needs :
           ago'[v][x][n] = 0 \/ ago'[v][x][n] = ago[v][x][n]
      /\ \A n \in Needs : r # Nothing /\ n \in {"member"} \cup Matrix(r) => ago'[u][w][n] = 0
  BY AgoAfterChange
<1>2. AccessTypeOK'
  <2>1. /\ joined' \in [Users -> Seq(Workspaces)]
        /\ \E i \in DOMAIN joined'[u] : joined'[u][i] = w
        /\ \A v \in Users, x \in Workspaces :
             (\E i \in DOMAIN joined[v] : joined[v][i] = x)
               => \E i \in DOMAIN joined'[v] : joined'[v][i] = x
    <3>1. CASE \E i \in DOMAIN joined[u] : joined[u][i] = w
      BY <3>1 DEF AccessTypeOK
    <3>2. CASE ~\E i \in DOMAIN joined[u] : joined[u][i] = w
      <4>1. joined' = [joined EXCEPT ![u] = Append(@, w)]
        BY <3>2
      <4>. QED BY <4>1, RowsAfterJoining
    <3>. QED BY <3>1, <3>2
  <2>2. roleIn' \in [Users -> [Workspaces -> RoleKeys \cup {Nothing}]]
    BY DEF AccessTypeOK
  <2>3. \A v \in Users, x \in Workspaces :
          roleIn'[v][x] # Nothing => \E i \in DOMAIN joined'[v] : joined'[v][i] = x
    <3>1. SUFFICES ASSUME NEW v \in Users, NEW x \in Workspaces, roleIn'[v][x] # Nothing
                   PROVE  \E i \in DOMAIN joined'[v] : joined'[v][i] = x
      OBVIOUS
    <3>2. CASE v = u /\ x = w
      BY <2>1, <3>2
    <3>3. CASE ~(v = u /\ x = w)
      <4>1. roleIn'[v][x] = roleIn[v][x]
        BY <3>3 DEF AccessTypeOK
      <4>2. \E i \in DOMAIN joined[v] : joined[v][i] = x
        BY <3>1, <4>1 DEF AccessTypeOK
      <4>. QED BY <2>1, <4>2
    <3>. QED BY <3>2, <3>3
  <2>. QED BY <1>0, <2>1, <2>2, <2>3 DEF AccessTypeOK
<1>3. Current'
  <2>1. SUFFICES ASSUME NEW v \in Users, NEW x \in Workspaces, NEW n \in Entitled(v, x)'
                 PROVE  ago'[v][x][n] = 0
    BY DEF Current
  <2>2. n \in Needs
    BY MatrixType DEF Entitled, Needs
  <2>3. CASE v = u /\ x = w
    BY <1>0, <2>2, <2>3 DEF AccessTypeOK, Entitled
  <2>4. CASE ~(v = u /\ x = w)
    <3>1. roleIn'[v][x] = roleIn[v][x]
      BY <2>4 DEF AccessTypeOK
    <3>2. n \in Entitled(v, x)
      BY <3>1 DEF Entitled
    <3>3. ago[v][x][n] = 0
      BY <3>2 DEF Current
    <3>. QED BY <1>0, <2>2, <3>3
  <2>. QED BY <2>3, <2>4
<1>. QED BY <1>1, <1>2, <1>3

\* A workspace is created: its owner's row is there and has been read for the token.
LEMMA CreateWorkspaceStep ==
  ASSUME AccessInv, NEW b \in Browsers, NEW w \in Workspaces, CreateWorkspace(b, w)
  PROVE  AccessInv'
<1>. DEFINE u == UserOf[b]
<1>. USE DEF AccessInv, CreateWorkspace, seedVars
<1>1. u \in Users /\ "OWNER" \in RoleKeys /\ "OWNER" # Nothing
  BY AccessAssumption DEF RoleKeys
<1>2. ago' = AgoWith(u, w, "OWNER")
  OBVIOUS
<1>3. AccessHolds'
  BY <1>1, <1>2, HistoryOnlyImproves
<1>4. /\ ago' \in [Users -> [Workspaces -> [Needs -> 0..Lifetime + 1]]]
      /\ \A v \in Users, x \in Workspaces, n \in Needs :
           ago'[v][x][n] = 0 \/ ago'[v][x][n] = ago[v][x][n]
      /\ \A n \in Needs : n \in {"member"} \cup Matrix("OWNER") => ago'[u][w][n] = 0
  BY <1>1, <1>2, AgoAfterChange
<1>5. /\ roleIn' \in [Users -> [Workspaces -> RoleKeys \cup {Nothing}]]
      /\ \A v \in Users, x \in Workspaces : ~(v = u /\ x = w) => roleIn'[v][x] = roleIn[v][x]
      /\ roleIn'[u][w] = "OWNER"
  BY <1>1 DEF AccessTypeOK
<1>. HIDE DEF u
<1>6. AccessTypeOK'
  <2>1. /\ joined' \in [Users -> Seq(Workspaces)]
        /\ \E i \in DOMAIN joined'[u] : joined'[u][i] = w
        /\ \A v \in Users, x \in Workspaces :
             (\E i \in DOMAIN joined[v] : joined[v][i] = x)
               => \E i \in DOMAIN joined'[v] : joined'[v][i] = x
    BY <1>1, RowsAfterJoining DEF u
  <2>2. claims' \in [Browsers -> [workspace : Workspaces, role : RoleKeys] \cup {Nothing}]
    BY <1>1 DEF AccessTypeOK
  <2>3. \A v \in Users, x \in Workspaces :
          roleIn'[v][x] # Nothing => \E i \in DOMAIN joined'[v] : joined'[v][i] = x
    BY <1>5, <2>1 DEF AccessTypeOK
  <2>. QED BY <1>4, <1>5, <2>1, <2>2, <2>3 DEF AccessTypeOK
<1>7. Current'
  <2>1. SUFFICES ASSUME NEW v \in Users, NEW x \in Workspaces, NEW n \in Entitled(v, x)'
                 PROVE  ago'[v][x][n] = 0
    BY DEF Current
  <2>2. n \in Needs
    BY MatrixType DEF Entitled, Needs
  <2>3. CASE v = u /\ x = w
    BY <1>4, <1>5, <2>2, <2>3 DEF Entitled
  <2>4. CASE ~(v = u /\ x = w)
    <3>1. n \in Entitled(v, x)
      BY <1>5, <2>4 DEF Entitled
    <3>2. ago[v][x][n] = 0
      BY <3>1 DEF Current
    <3>. QED BY <1>4, <2>2, <3>2
  <2>. QED BY <2>3, <2>4
<1>8. ReadingIsCurrent'
  <2>1. SUFFICES ASSUME NEW c \in Browsers, Reading(c)',
                        NEW n \in {"member"} \cup Matrix(claims'[c].role)
                 PROVE  ago'[UserOf[c]][claims'[c].workspace][n] = 0
    BY DEF ReadingIsCurrent
  <2>2. n \in Needs
    BY <2>1, MatrixType DEF Needs
  <2>3. CASE c = b
    BY <1>4, <2>1, <2>2, <2>3 DEF AccessTypeOK, u
  <2>4. CASE c # b
    <3>1. claims'[c] = claims[c] /\ Reading(c)
      BY <2>1, <2>4 DEF AccessTypeOK, Reading
    <3>2. UserOf[c] \in Users /\ claims[c].workspace \in Workspaces
      BY <3>1, AccessAssumption DEF AccessTypeOK, Reading
    <3>3. ago[UserOf[c]][claims[c].workspace][n] = 0
      BY <2>1, <3>1 DEF ReadingIsCurrent
    <3>. QED BY <1>4, <2>2, <3>1, <3>2, <3>3
  <2>. QED BY <2>3, <2>4
<1>. QED BY <1>3, <1>6, <1>7, <1>8

\* Claims are read, of the oldest membership or of the one asked for, or a token without a
\* workspace is signed at once.
LEMMA ClaimStep ==
  ASSUME AccessInv, NEW b \in Browsers, UNCHANGED <<admins, memberVars, seedVars, served, ago>>,
         \/ /\ UNCHANGED token
            /\ \E w \in Workspaces :
                 /\ roleIn[UserOf[b]][w] # Nothing
                 /\ claims' = [claims EXCEPT ![b] =
                                [workspace |-> w, role |-> roleIn[UserOf[b]][w]]]
         \/ SignedFor(b, Nothing, {}) /\ UNCHANGED claims
  PROVE  AccessInv'
<1>. USE DEF AccessInv, memberVars, seedVars
<1>1. UserOf[b] \in Users
  BY AccessAssumption
<1>2. Current' /\ ServedWasEntitled' /\ RolesWhole'
  BY DEF Current, Entitled, AccessHolds, ServedWasEntitled, RolesWhole, Seeding, RoleAt
<1>3. CASE /\ UNCHANGED token
           /\ \E w \in Workspaces :
                /\ roleIn[UserOf[b]][w] # Nothing
                /\ claims' = [claims EXCEPT ![b] =
                               [workspace |-> w, role |-> roleIn[UserOf[b]][w]]]
  <2>1. PICK w \in Workspaces :
          /\ roleIn[UserOf[b]][w] # Nothing
          /\ claims' = [claims EXCEPT ![b] = [workspace |-> w, role |-> roleIn[UserOf[b]][w]]]
    BY <1>3
  <2>2. roleIn[UserOf[b]][w] \in RoleKeys
    BY <1>1, <2>1 DEF AccessTypeOK
  <2>3. AccessTypeOK'
    BY <1>3, <2>1, <2>2 DEF AccessTypeOK
  <2>4. ClaimsAge'
    BY <1>3 DEF AccessHolds, ClaimsAge, Usable
  <2>5. ReadingIsCurrent'
    <3>1. SUFFICES ASSUME NEW c \in Browsers, Reading(c)',
                          NEW n \in {"member"} \cup Matrix(claims'[c].role)
                   PROVE  ago[UserOf[c]][claims'[c].workspace][n] = 0
      BY DEF ReadingIsCurrent
    <3>2. CASE c = b
      <4>1. n \in Entitled(UserOf[b], w) /\ claims'[c].workspace = w
        BY <2>1, <3>1, <3>2 DEF AccessTypeOK, Entitled
      <4>. QED BY <1>1, <3>2, <4>1 DEF Current
    <3>3. CASE c # b
      BY <2>1, <3>1, <3>3 DEF AccessTypeOK, Reading, ReadingIsCurrent
    <3>. QED BY <3>2, <3>3
  <2>. QED BY <1>2, <2>3, <2>4, <2>5 DEF AccessHolds
<1>4. CASE SignedFor(b, Nothing, {}) /\ UNCHANGED claims
  <2>1. AccessTypeOK'
    BY <1>4, AccessAssumption DEF AccessTypeOK, SignedFor
  <2>2. ReadingIsCurrent'
    BY <1>4 DEF ReadingIsCurrent, Reading
  <2>3. ClaimsAge'
    BY <1>4 DEF AccessTypeOK, AccessHolds, ClaimsAge, Usable, SignedFor
  <2>. QED BY <1>2, <2>1, <2>2, <2>3 DEF AccessHolds
<1>. QED BY <1>3, <1>4

\* A token is signed: it has no permission that was not read with its claims.
LEMMA SignStep ==
  ASSUME AccessInv, NEW b \in Browsers, Sign(b)
  PROVE  AccessInv'
<1>. USE DEF AccessInv, Sign, memberVars, seedVars
<1>1. /\ claims[b].workspace \in Workspaces /\ claims[b].role \in RoleKeys
      /\ granted[claims[b].role] \subseteq Matrix(claims[b].role)
  BY DEF AccessTypeOK, Reading, AccessHolds, RolesWhole
<1>2. Current' /\ ServedWasEntitled' /\ RolesWhole'
  BY DEF Current, Entitled, AccessHolds, ServedWasEntitled, RolesWhole, Seeding, RoleAt
<1>3. token' = [token EXCEPT ![b] = [workspace |-> claims[b].workspace,
                                     perms |-> granted[claims[b].role], age |-> 0]]
  BY DEF SignedFor
<1>4. AccessTypeOK'
  <2>1. [workspace |-> claims[b].workspace, perms |-> granted[claims[b].role], age |-> 0]
          \in [workspace : Workspaces \cup {Nothing}, perms : SUBSET Permissions, age : 0..Lifetime]
    BY <1>1, AccessAssumption DEF AccessTypeOK
  <2>2. token' \in [Browsers -> [workspace : Workspaces \cup {Nothing}, perms : SUBSET Permissions,
                                 age : 0..Lifetime] \cup {Nothing}]
    BY <1>3, <2>1 DEF AccessTypeOK
  <2>. QED BY <2>2 DEF AccessTypeOK
<1>5. ReadingIsCurrent'
  BY DEF AccessTypeOK, ReadingIsCurrent, Reading
<1>6. ClaimsAge'
  <2>1. SUFFICES ASSUME NEW c \in Browsers, Usable(c)', token'[c].workspace # Nothing,
                        NEW n \in {"member"} \cup token'[c].perms
                 PROVE  ago[UserOf[c]][token'[c].workspace][n] <= token'[c].age
    BY DEF ClaimsAge
  <2>2. CASE c = b
    <3>1. /\ token'[c].workspace = claims[b].workspace /\ token'[c].age = 0
          /\ n \in {"member"} \cup Matrix(claims[b].role)
      BY <1>1, <1>3, <2>1, <2>2 DEF AccessTypeOK
    <3>2. ago[UserOf[b]][claims[b].workspace][n] = 0
      BY <3>1 DEF ReadingIsCurrent
    <3>. QED BY <2>2, <3>1, <3>2
  <2>3. CASE c # b
    <3>1. token'[c] = token[c]
      BY <1>3, <2>3 DEF AccessTypeOK
    <3>. QED BY <2>1, <3>1 DEF AccessHolds, ClaimsAge, Usable
  <2>. QED BY <2>2, <2>3
<1>. QED BY <1>2, <1>4, <1>5, <1>6 DEF AccessHolds

\* A request is admitted on claims that are younger than a lifetime.
LEMMA AdmitStep ==
  ASSUME AccessInv, NEW b \in Browsers, NEW w \in Workspaces, NEW n \in Asked, Admit(b, w, n)
  PROVE  AccessInv'
<1>. USE DEF AccessInv, Admit, memberVars, seedVars, tokenVars
<1>1. /\ Current' /\ ReadingIsCurrent' /\ ClaimsAge' /\ RolesWhole'
  BY DEF Current, Entitled, ReadingIsCurrent, Reading, AccessHolds, ClaimsAge, Usable,
         RolesWhole, Seeding, RoleAt
<1>2. n \in Needs
  BY AccessAssumption
<1>3. AccessTypeOK'
  BY <1>2 DEF AccessTypeOK
<1>4. ServedWasEntitled'
  <2>1. \A p \in {"member"} \cup token[b].perms : ago[UserOf[b]][w][p] <= token[b].age
    <3>1. token[b].workspace = w /\ w # Nothing
      BY AccessAssumption DEF PathMatches
    <3>. QED BY <3>1 DEF AccessHolds, ClaimsAge
  <2>2. token[b].age \in Nat /\ token[b].age < Lifetime /\ token[b].perms \subseteq Needs
    BY DEF AccessTypeOK, Usable, Needs
  <2>3. /\ UserOf[b] \in Users /\ Lifetime \in Nat
        /\ \A p \in Needs : ago[UserOf[b]][w][p] \in Int
    BY AccessAssumption DEF AccessTypeOK
  <2>4. "member" \in Needs
    BY DEF Needs
  <2>5. ago[UserOf[b]][w]["member"] < Lifetime
    BY <2>1, <2>2, <2>3, <2>4
  <2>6. ago[UserOf[b]][w][n] < Lifetime \/ UserOf[b] \in admins
    <3>1. CASE n \in token[b].perms
      <4>1. ago[UserOf[b]][w][n] <= token[b].age
        BY <2>1, <3>1
      <4>. QED BY <1>2, <2>2, <2>3, <4>1
    <3>2. CASE n = "member"
      BY <2>5, <3>2
    <3>. QED BY <3>1, <3>2 DEF Authorized
  <2>. QED BY <2>5, <2>6 DEF ServedWasEntitled
<1>. QED BY <1>1, <1>3, <1>4 DEF AccessHolds

\* A tick: the token is one older, the history no more than one.
LEMMA TickStep == ASSUME AccessInv, Tick PROVE AccessInv'
<1>. USE DEF AccessInv, Tick, memberVars, seedVars
<1>1. Lifetime \in Nat
  BY AccessAssumption
<1>2. /\ ago' \in [Users -> [Workspaces -> [Needs -> 0..Lifetime + 1]]]
      /\ \A u \in Users, w \in Workspaces, n \in Needs :
           /\ ago'[u][w][n] <= ago[u][w][n] + 1
           /\ n \in Entitled(u, w) => ago'[u][w][n] = 0
  <2>1. \A u \in Users, w \in Workspaces, n \in Needs : ago[u][w][n] \in 0..Lifetime + 1
    BY DEF AccessTypeOK
  <2>2. \A u \in Users, w \in Workspaces, n \in Needs :
          ago'[u][w][n] = IF n \in Entitled(u, w) THEN 0
                          ELSE IF ago[u][w][n] <= Lifetime THEN ago[u][w][n] + 1 ELSE ago[u][w][n]
    OBVIOUS
  <2>3. \A u \in Users, w \in Workspaces, n \in Needs :
          /\ ago'[u][w][n] \in 0..Lifetime + 1
          /\ ago'[u][w][n] <= ago[u][w][n] + 1
          /\ n \in Entitled(u, w) => ago'[u][w][n] = 0
    <3>. TAKE u \in Users, w \in Workspaces, n \in Needs
    <3>. QED BY <1>1, <2>1, <2>2
  <2>4. ago' \in [Users -> [Workspaces -> [Needs -> 0..Lifetime + 1]]]
    <3>1. \A u \in Users : \A w \in Workspaces :
            ago'[u][w] = [n \in Needs |-> ago'[u][w][n]]
      OBVIOUS
    <3>2. \A u \in Users : \A w \in Workspaces : ago'[u][w] \in [Needs -> 0..Lifetime + 1]
      BY <2>3, <3>1
    <3>3. \A u \in Users : ago'[u] = [w \in Workspaces |-> ago'[u][w]]
      OBVIOUS
    <3>4. ago' = [u \in Users |-> ago'[u]]
      OBVIOUS
    <3>. QED BY <3>2, <3>3, <3>4
  <2>. QED BY <2>3, <2>4
<1>3. token' \in [Browsers -> [workspace : Workspaces \cup {Nothing}, perms : SUBSET Permissions,
                               age : 0..Lifetime] \cup {Nothing}]
  <2>. DEFINE Signed == [workspace : Workspaces \cup {Nothing}, perms : SUBSET Permissions,
                         age : 0..Lifetime]
  <2>1. ASSUME NEW b \in Browsers PROVE token'[b] \in Signed \cup {Nothing}
    <3>1. CASE token[b] = Nothing
      BY <3>1
    <3>2. CASE token[b] # Nothing
      <4>1. token[b] \in Signed
        BY <3>2 DEF AccessTypeOK
      <4>2. token'[b] = [token[b] EXCEPT !.age = IF @ < Lifetime THEN @ + 1 ELSE @]
        BY <3>2
      <4>. QED BY <1>1, <4>1, <4>2
    <3>. QED BY <3>1, <3>2
  <2>2. token' = [b \in Browsers |-> token'[b]]
    OBVIOUS
  <2>. QED BY <2>1, <2>2
<1>4. AccessTypeOK'
  BY <1>2, <1>3 DEF AccessTypeOK
<1>5. Current'
  BY <1>2, MatrixType DEF Current, Entitled, Needs
<1>6. ReadingIsCurrent' /\ ServedWasEntitled' /\ RolesWhole'
  BY DEF ReadingIsCurrent, Reading, AccessHolds, ServedWasEntitled, RolesWhole, Seeding, RoleAt
<1>7. ClaimsAge'
  <2>1. SUFFICES ASSUME NEW b \in Browsers, Usable(b)', token'[b].workspace # Nothing,
                        NEW n \in {"member"} \cup token'[b].perms
                 PROVE  ago'[UserOf[b]][token'[b].workspace][n] <= token'[b].age
    BY DEF ClaimsAge
  <2>2. token[b] # Nothing
    BY <2>1 DEF Usable
  <2>3. token[b] \in [workspace : Workspaces \cup {Nothing}, perms : SUBSET Permissions,
                      age : 0..Lifetime]
    BY <2>2 DEF AccessTypeOK
  <2>4. token'[b] = [token[b] EXCEPT !.age = IF @ < Lifetime THEN @ + 1 ELSE @]
    BY <2>2
  <2>5. /\ token'[b].workspace = token[b].workspace /\ token'[b].perms = token[b].perms
        /\ token[b].age < Lifetime /\ token'[b].age = token[b].age + 1
    BY <1>1, <2>1, <2>3, <2>4 DEF Usable
  <2>6. /\ UserOf[b] \in Users /\ token[b].workspace \in Workspaces /\ n \in Needs
    BY <2>1, <2>3, <2>5, AccessAssumption DEF Needs
  <2>7. ago[UserOf[b]][token[b].workspace][n] <= token[b].age
    BY <2>1, <2>2, <2>5 DEF AccessHolds, ClaimsAge, Usable
  <2>. DEFINE before == ago[UserOf[b]][token[b].workspace][n]
              after == ago'[UserOf[b]][token[b].workspace][n]
  <2>. HIDE DEF Tick
  <2>8. before \in Int
    BY <2>6 DEF AccessTypeOK
  <2>. HIDE DEF AccessInv
  <2>9. after \in Int
    BY <1>2, <2>6
  <2>10. after <= before + 1
    BY <1>2, <2>6
  <2>11. token[b].age \in Int /\ token'[b].age = token[b].age + 1
    BY <2>3, <2>5
  <2>12. after <= token'[b].age
    <3>. HIDE DEF before, after
    <3>. QED BY <2>7, <2>8, <2>9, <2>10, <2>11 DEF before
  <2>. QED BY <2>5, <2>12
<1>. QED BY <1>4, <1>5, <1>6, <1>7 DEF AccessHolds

\* A seeder deletes and writes again the rows of one role after the other; another may be
\* between the same two statements, and it may be killed.
LEMMA SeedStep == ASSUME AccessInv, NEW s \in Seeders, Seed(s) PROVE AccessInv'
<1>. USE DEF AccessInv, memberVars, tokenVars
<1>1. UNCHANGED <<admins, memberVars, tokenVars, served, ago>>
  BY DEF Seed, SeedStart, SeedDelete, SeedCreate, SeedCut
<1>2. /\ Current' /\ ReadingIsCurrent' /\ ServedWasEntitled' /\ ClaimsAge'
  BY <1>1 DEF Current, Entitled, ReadingIsCurrent, Reading, AccessHolds, ServedWasEntitled,
              ClaimsAge, Usable
<1>3. DOMAIN SystemRoles = 1..6 /\ Len(SystemRoles) = 6
  BY DEF SystemRoles
<1>4. ASSUME Seeding(s) PROVE seeder[s] \in [at : 1..6, emptied : BOOLEAN] /\ RoleAt(s) \in RoleKeys
  BY <1>3, <1>4, RoleAtType DEF AccessTypeOK, Seeding
<1>5. CASE SeedStart(s)
  <2>1. AccessTypeOK'
    <3>1. granted' = granted /\ cuts' = cuts
      BY <1>5 DEF SeedStart
    <3>2. seeder' \in [Seeders -> [at : DOMAIN SystemRoles, emptied : BOOLEAN] \cup {Nothing}]
      BY <1>3, <1>5 DEF SeedStart, AccessTypeOK
    <3>. QED BY <1>1, <3>1, <3>2 DEF AccessTypeOK
  <2>2. \A t \in Seeders : Seeding(t) => seeder'[t] = seeder[t]
    BY <1>5 DEF SeedStart, AccessTypeOK, Seeding
  <2>3. RolesWhole'
    BY <1>5, <2>2 DEF SeedStart, AccessHolds, RolesWhole, Seeding, RoleAt
  <2>. QED BY <1>2, <2>1, <2>3 DEF AccessHolds
<1>6. CASE SeedDelete(s)
  <2>. USE <1>6 DEF SeedDelete
  <2>1. seeder'[s] = [seeder[s] EXCEPT !.emptied = TRUE] /\ \A t \in Seeders \ {s} : seeder'[t] = seeder[t]
    BY DEF AccessTypeOK
  <2>2. seeder'[s] \in [at : 1..6, emptied : BOOLEAN] /\ seeder'[s].at = seeder[s].at /\ seeder'[s].emptied
    <3>1. \A x \in [at : 1..6, emptied : BOOLEAN] : LET y == [x EXCEPT !.emptied = TRUE] IN
            y \in [at : 1..6, emptied : BOOLEAN] /\ y.at = x.at /\ y.emptied
      OBVIOUS
    <3>2. seeder[s] \in [at : 1..6, emptied : BOOLEAN]
      BY <1>4
    <3>. QED BY <2>1, <3>1, <3>2
  <2>3. AccessTypeOK'
    <3>1. granted' \in [RoleKeys -> SUBSET Permissions] /\ cuts' = cuts
      <4>1. granted' = [granted EXCEPT ![RoleAt(s)] = {}] /\ cuts' = cuts
        OBVIOUS
      <4>2. granted \in [RoleKeys -> SUBSET Permissions]
        BY DEF AccessTypeOK
      <4>. QED BY <4>1, <4>2
    <3>2. seeder' \in [Seeders -> [at : DOMAIN SystemRoles, emptied : BOOLEAN] \cup {Nothing}]
      BY <1>3, <2>2 DEF AccessTypeOK
    <3>. QED BY <1>1, <3>1, <3>2 DEF AccessTypeOK
  <2>4. seeder'[s] # Nothing
    BY <1>3, <2>2, AccessAssumption
  <2>5. RolesWhole'
    <3>1. SUFFICES ASSUME NEW r \in RoleKeys
                   PROVE  /\ granted'[r] \subseteq Matrix(r)
                          /\ \/ granted'[r] = Matrix(r) \/ cuts > 0
                             \/ \E t \in Seeders : seeder'[t] # Nothing /\ SystemRoles[seeder'[t].at] = r /\ seeder'[t].emptied
      BY DEF RolesWhole, Seeding, RoleAt
    <3>2. CASE r = RoleAt(s)
      BY <2>2, <2>4, <3>2 DEF AccessTypeOK, RoleAt
    <3>3. CASE r # RoleAt(s)
      BY <2>1, <3>3 DEF AccessTypeOK, AccessHolds, RolesWhole, Seeding, RoleAt
    <3>. QED BY <3>2, <3>3
  <2>. QED BY <1>2, <2>3, <2>5 DEF AccessHolds
<1>7. CASE SeedCreate(s)
  <2>. USE <1>7 DEF SeedCreate
  <2>1. \A t \in Seeders \ {s} : seeder'[t] = seeder[t]
    BY DEF AccessTypeOK
  <2>2. /\ seeder'[s] = Nothing \/ seeder'[s] \in [at : 1..6, emptied : BOOLEAN]
        /\ granted' = [granted EXCEPT ![RoleAt(s)] = @ \cup Matrix(RoleAt(s))]
    BY <1>3, <1>4 DEF AccessTypeOK, PermissionsFor
  <2>3. AccessTypeOK'
    BY <1>1, <1>3, <1>4, <2>1, <2>2, MatrixType DEF AccessTypeOK
  <2>4. RolesWhole'
    <3>1. SUFFICES ASSUME NEW r \in RoleKeys
                   PROVE  /\ granted'[r] \subseteq Matrix(r)
                          /\ \/ granted'[r] = Matrix(r) \/ cuts > 0
                             \/ \E t \in Seeders : seeder'[t] # Nothing /\ SystemRoles[seeder'[t].at] = r /\ seeder'[t].emptied
      BY DEF RolesWhole, Seeding, RoleAt
    <3>2. CASE r = RoleAt(s)
      BY <2>2, <3>2 DEF AccessTypeOK, AccessHolds, RolesWhole
    <3>3. CASE r # RoleAt(s)
      <4>1. granted'[r] = granted[r]
        BY <2>2, <3>3 DEF AccessTypeOK
      <4>2. ASSUME NEW t \in Seeders, Seeding(t), RoleAt(t) = r, seeder[t].emptied
            PROVE  seeder'[t] = seeder[t]
        BY <2>1, <3>3, <4>2
      <4>. QED BY <4>1, <4>2 DEF AccessHolds, RolesWhole, Seeding, RoleAt
    <3>. QED BY <3>2, <3>3
  <2>. QED BY <1>2, <2>3, <2>4 DEF AccessHolds
<1>8. CASE SeedCut(s)
  <2>1. AccessTypeOK'
    BY <1>1, <1>8, AccessAssumption DEF SeedCut, AccessTypeOK
  <2>2. RolesWhole'
    BY <1>8 DEF SeedCut, AccessTypeOK, AccessHolds, RolesWhole
  <2>. QED BY <1>2, <2>1, <2>2 DEF AccessHolds
<1>. QED BY <1>5, <1>6, <1>7, <1>8 DEF Seed

\* Every step keeps the inductive invariant.
LEMMA AccessNextInvariant == AccessInv /\ [AccessNext]_accessVars => AccessInv'
<1>. SUFFICES ASSUME AccessInv, [AccessNext]_accessVars PROVE AccessInv'
  OBVIOUS
<1>1. CASE \E u \in Users, w \in Workspaces, r \in RoleKeys \cup {Nothing} : SetRole(u, w, r)
  BY <1>1, SetRoleStep
<1>2. ASSUME NEW b \in Browsers, ReadOldest(b) PROVE AccessInv'
  <2>. DEFINE rows == joined[UserOf[b]]
              Read(i) ==
                /\ OldestAt(UserOf[b], i)
                /\ claims' = [claims EXCEPT ![b] =
                     [workspace |-> rows[i], role |-> roleIn[UserOf[b]][rows[i]]]]
                /\ UNCHANGED token
  <2>1. CASE \E i \in DOMAIN rows : Read(i)
    <3>1. PICK i \in DOMAIN rows : Read(i)
      BY <2>1
    <3>2. rows \in Seq(Workspaces)
      BY AccessAssumption DEF AccessInv, AccessTypeOK
    <3>3. rows[i] \in Workspaces
      BY <3>2
    <3>. QED BY <1>2, <3>1, <3>3, ClaimStep DEF ReadOldest, OldestAt, ActiveAt
  <2>2. CASE SignedFor(b, Nothing, {}) /\ UNCHANGED claims
    BY <1>2, <2>2, ClaimStep DEF ReadOldest
  <2>. QED BY <1>2, <2>1, <2>2 DEF ReadOldest
<1>3. ASSUME NEW b \in Browsers, Sign(b) PROVE AccessInv'
  BY <1>3, SignStep
<1>4. ASSUME NEW b \in Browsers, NEW w \in Workspaces, CreateWorkspace(b, w) PROVE AccessInv'
  BY <1>4, CreateWorkspaceStep
<1>5. ASSUME NEW b \in Browsers, NEW w \in Workspaces, ReadSelected(b, w) PROVE AccessInv'
  BY <1>5, ClaimStep DEF ReadSelected
<1>6. ASSUME NEW b \in Browsers, NEW w \in Workspaces, NEW n \in Asked, Admit(b, w, n)
      PROVE  AccessInv'
  BY <1>6, AdmitStep
<1>7. ASSUME NEW s \in Seeders, Seed(s) PROVE AccessInv'
  BY <1>7, SeedStep
<1>8. CASE Tick
  BY <1>8, TickStep
<1>9. CASE UNCHANGED accessVars
  <2>1. UNCHANGED <<admins, joined, roleIn, granted, seeder, cuts, claims, token, served, ago>>
    BY <1>9 DEF accessVars, memberVars, seedVars, tokenVars
  <2>2. AccessTypeOK'
    BY <2>1 DEF AccessInv, AccessTypeOK
  <2>3. Current' /\ ReadingIsCurrent'
    BY <2>1 DEF AccessInv, Current, Entitled, ReadingIsCurrent, Reading
  <2>4. ServedWasEntitled' /\ ClaimsAge'
    BY <2>1 DEF AccessInv, AccessHolds, ServedWasEntitled, ClaimsAge, Usable
  <2>5. RolesWhole'
    BY <2>1 DEF AccessInv, AccessHolds, RolesWhole, Seeding, RoleAt
  <2>. QED BY <2>2, <2>3, <2>4, <2>5 DEF AccessInv, AccessHolds
<1>. QED BY <1>1, <1>2, <1>3, <1>4, <1>5, <1>6, <1>7, <1>8, <1>9 DEF AccessNext

-------------------------------------------------------------------------------
\* The types of AccessControl, for every instance.
THEOREM AccessIsTyped == AccessSpec => []AccessTypeOK
<1>1. AccessInv => AccessTypeOK
  BY DEF AccessInv
<1>. QED BY AccessInitInvariant, AccessNextInvariant, <1>1, PTL DEF AccessSpec

\* However memberships, sign-ins, refreshes and requests interleave, and however many
\* processes write the roles, a request was entitled to within the last token lifetime, no
\* usable token claims what nobody had when it was signed, and roles have exactly their
\* permissions unless a seeder is, or was killed, between its two statements.
THEOREM AccessAlwaysHolds == AccessSpec => []AccessHolds
<1>1. AccessInv => AccessHolds
  BY DEF AccessInv
<1>. QED BY AccessInitInvariant, AccessNextInvariant, <1>1, PTL DEF AccessSpec

-------------------------------------------------------------------------------
(***************************************************************************)
(* The credit alerts.                                                      *)
(***************************************************************************)

\* What a check has read is a balance or a plan there was; what it has left to announce goes
\* on, from the lowest threshold, where the alerts end; who has made an alert is to audit it.
CheckHolds(c) ==
  /\ checker[c].do # "read" =>
       /\ checker[c].todo # {}
       /\ \A t, u \in Thresholds : t < u /\ u \in checker[c].todo => t \in checker[c].todo \cup alerts
  /\ checker[c].do = "audit" =>
       /\ checker[c].now \in checker[c].todo /\ checker[c].now \in alerts
       /\ audited[checker[c].now] = 0

ChecksHold ==
  /\ \A c \in Checkers : checker[c] # Asleep => CheckHolds(c)
  /\ \A c, d \in Checkers :
       Doing(c, "audit") /\ Doing(d, "audit") /\ checker[c].now = checker[d].now => c = d

Ascending == \A t, u \in Thresholds : t < u /\ u \in alerts => t \in alerts

\* Every alert is audited or about to be, unless something was cut short.
RaisedIsAudited ==
  alertFaults = 0 => \A t \in alerts :
    audited[t] = 1 \/ \E c \in Checkers : Doing(c, "audit") /\ checker[c].now = t

\* A threshold that has been reached is announced, or somebody will find out, unless nobody
\* has charged since the usage rose by other means.
ReadsCurrent(d) ==
  (d.plan = Unread \/ d.plan = allowance) /\ (d.left = Unread \/ d.left <= credits)
Finds(c, t) ==
  checker[c] # Asleep /\
    IF checker[c].do = "read" THEN ReadsCurrent(checker[c]) ELSE t \in checker[c].todo
ReachedIsRaised ==
  alertFaults = 0 /\ ~unseen => \A t \in Thresholds :
    Percent(allowance - credits, allowance) >= t => t \in alerts \/ \E c \in Checkers : Finds(c, t)

\* The inductive invariant.
AlertInv ==
  AlertTypeOK /\ ChecksHold /\ Ascending /\ RaisedIsAudited /\ ReachedIsRaised

\* The more was used, the higher the percentage.
LEMMA PercentGrows ==
  ASSUME NEW p \in Nat \ {0}, NEW a \in Int, NEW b \in Int, a <= b
  PROVE  Percent(a, p) \in Int /\ Percent(b, p) \in Int /\ Percent(a, p) <= Percent(b, p)
<1>1. PICK x \in Int, y \in Int, n \in Nat \ {0} : x = 200 * a + p /\ y = 200 * b + p /\ n = 2 * p
  OBVIOUS
<1>2. x <= y
  BY <1>1
<1>3. PICK q \in Int, r \in Int : q = x \div n /\ r = y \div n
  OBVIOUS
<1>4. n * q <= x /\ x < n * q + n /\ n * r <= y /\ y < n * r + n
  BY <1>3
<1>5. q <= r
  <2>1. SUFFICES ASSUME q >= r + 1 PROVE FALSE
    OBVIOUS
  <2>2. n * q >= n * (r + 1)
    BY <2>1
  <2>3. n * (r + 1) = n * r + n
    OBVIOUS
  <2>4. n * q \in Int /\ n * r \in Int
    OBVIOUS
  <2>. QED BY <1>2, <1>4, <2>2, <2>3, <2>4
<1>. QED BY <1>1, <1>3, <1>5 DEF Percent

\* The first of some thresholds is among them, and the lowest.
LEMMA NextIs ==
  ASSUME NEW T, T \subseteq Thresholds, T # {}
  PROVE  NextOf(T) \in T /\ \A u \in T : NextOf(T) <= u
<1>1. \E t \in T : \A u \in T : t <= u
  <2>1. \A u \in T : u = 80 \/ u = 90 \/ u = 100
    BY DEF Thresholds
  <2>2. CASE 80 \in T
    BY <2>1, <2>2
  <2>3. CASE 80 \notin T /\ 90 \in T
    <3>1. \A u \in T : 90 <= u
      BY <2>1, <2>3
    <3>. QED BY <2>3, <3>1
  <2>4. CASE 80 \notin T /\ 90 \notin T
    <3>1. \A u \in T : u = 100
      BY <2>1, <2>4
    <3>. QED BY <3>1
  <2>. QED BY <2>2, <2>3, <2>4
<1>. QED BY <1>1 DEF NextOf

\* A check moves on.
LEMMA BecomesIs ==
  ASSUME AlertTypeOK, NEW c \in Checkers, NEW d \in Checks \cup {Asleep}, Becomes(c, d)
  PROVE  /\ checker' \in [Checkers -> Checks \cup {Asleep}] /\ checker'[c] = d
         /\ \A x \in Checkers \ {c} : checker'[x] = checker[x]
BY DEF AlertTypeOK, Becomes

LEMMA GoesToIs ==
  ASSUME AlertTypeOK, NEW c \in Checkers, checker[c] # Asleep, NEW T, T \subseteq Thresholds, GoesTo(c, T)
  PROVE  /\ checker' \in [Checkers -> Checks \cup {Asleep}]
         /\ \A x \in Checkers \ {c} : checker'[x] = checker[x]
         /\ T = {} => checker'[c] = Asleep
         /\ T # {} => /\ checker'[c] # Asleep
                      /\ checker'[c].do = "notify" /\ checker'[c].todo = T
                      /\ checker'[c].plan = checker[c].plan /\ checker'[c].left = checker[c].left
<1>1. checker[c] \in Checks
  BY DEF AlertTypeOK
<1>2. PICK d : d = IF T = {} THEN Asleep ELSE [checker[c] EXCEPT !.do = "notify", !.todo = T]
  OBVIOUS
<1>3. T # {} => /\ d \in Checks /\ d.do = "notify" /\ d.todo = T
                /\ d.plan = checker[c].plan /\ d.left = checker[c].left
  <2>1. \A x \in Checks : LET y == [x EXCEPT !.do = "notify", !.todo = T] IN
          y \in Checks /\ y.do = "notify" /\ y.todo = T /\ y.plan = x.plan /\ y.left = x.left
    BY DEF Checks
  <2>. QED BY <1>1, <1>2, <2>1
<1>4. d \in Checks \cup {Asleep} /\ Becomes(c, d)
  BY <1>2, <1>3 DEF GoesTo
<1>5. /\ checker' \in [Checkers -> Checks \cup {Asleep}] /\ checker'[c] = d
      /\ \A x \in Checkers \ {c} : checker'[x] = checker[x]
  BY <1>4, BecomesIs
<1>. QED BY <1>2, <1>3, <1>5, AlertAssumption

LEMMA AlertStart == AlertInit => AlertInv
<1>. SUFFICES ASSUME AlertInit PROVE AlertInv
  OBVIOUS
<1>. USE AlertAssumption DEF AlertInit
<1>1. AlertTypeOK
  <2>1. checker \in [Checkers -> Checks \cup {Asleep}] /\ audited \in [Thresholds -> 0..1]
    OBVIOUS
  <2>2. 0 \in 0..MaxAdjustments /\ 0 \in 0..MaxAlertFaults
    OBVIOUS
  <2>3. allowance \in {FirstPlan, BiggerPlan} /\ credits \in Int /\ charged \in Nat
    OBVIOUS
  <2>4. alerts \subseteq Thresholds /\ \A t \in Thresholds \ alerts : audited[t] = 0
    OBVIOUS
  <2>5. adjustments = 0 /\ alertFaults = 0 /\ unseen = FALSE
    OBVIOUS
  <2>. HIDE DEF AlertInit
  <2>. QED BY <2>1, <2>2, <2>3, <2>4, <2>5 DEF AlertTypeOK
<1>2. ChecksHold /\ Ascending /\ RaisedIsAudited
  BY DEF ChecksHold, Doing, Ascending, RaisedIsAudited
<1>3. ReachedIsRaised
  <2>1. (200 * 0 + FirstPlan) \div (2 * FirstPlan) < 80
    <3>1. PICK p \in Nat \ {0} : p = FirstPlan
      OBVIOUS
    <3>2. p \div (2 * p) = 0
      OBVIOUS
    <3>. QED BY <3>1, <3>2
  <2>2. Percent(FirstPlan - credits, FirstPlan) < 80
    BY <2>1 DEF Percent
  <2>. QED BY <2>2 DEF ReachedIsRaised, Thresholds, Percent
<1>. QED BY <1>1, <1>2, <1>3 DEF AlertInv

\* A charge starts a check, which will find out all there is.
LEMMA ChargeStepKeeps ==
  ASSUME AlertInv, NEW c \in Checkers, NEW k \in Costs, ChargeStep(c, k) PROVE AlertInv'
<1>. USE DEF AlertInv
<1>1. PICK d : d = [do |-> "read", plan |-> Unread, left |-> Unread, todo |-> {}, now |-> 0]
  OBVIOUS
<1>2. d \in Checks /\ d # Asleep /\ d.do = "read" /\ d.left = Unread /\ d.plan = Unread
  <2>1. d \in Checks
    BY <1>1 DEF Checks
  <2>. QED BY <1>1, <2>1, AlertAssumption
<1>3. /\ checker[c] = Asleep /\ credits >= k /\ credits' = credits - k /\ charged' = charged + k
      /\ Becomes(c, d) /\ unseen' = FALSE
      /\ UNCHANGED <<allowance, alerts, audited, adjustments, alertFaults>>
  BY <1>1 DEF ChargeStep
<1>4. /\ checker' \in [Checkers -> Checks \cup {Asleep}] /\ checker'[c] = d
      /\ \A x \in Checkers \ {c} : checker'[x] = checker[x]
  BY <1>2, <1>3, BecomesIs
<1>5. credits' \in Int /\ charged' \in Nat
  BY <1>3, AlertAssumption DEF AlertTypeOK
<1>6. AlertTypeOK'
  BY <1>3, <1>4, <1>5 DEF AlertTypeOK
<1>7. ChecksHold'
  BY <1>2, <1>3, <1>4 DEF ChecksHold, CheckHolds, Doing
<1>8. RaisedIsAudited'
  BY <1>2, <1>3, <1>4 DEF RaisedIsAudited, Doing
<1>9. ReachedIsRaised'
  <2>1. \A t : Finds(c, t)'
    BY <1>2, <1>4 DEF Finds, ReadsCurrent
  <2>. QED BY <2>1 DEF ReachedIsRaised
<1>. QED BY <1>3, <1>5, <1>6, <1>7, <1>8, <1>9 DEF Ascending

\* The plan, or the balance, is read.
LEMMA ReadUsageKeeps == ASSUME AlertInv, NEW c \in Checkers, ReadUsage(c) PROVE AlertInv'
<1>. USE DEF AlertInv
<1>1. /\ checker[c] # Asleep /\ checker[c] \in Checks /\ checker[c].do = "read" /\ CheckHolds(c)
      /\ UNCHANGED <<allowance, credits, charged, alerts, audited, adjustments, alertFaults, unseen>>
  BY DEF ReadUsage, Doing, ChecksHold, AlertTypeOK
<1>2. PICK d : /\ Becomes(c, d)
               /\ \/ d = [checker[c] EXCEPT !.plan = allowance]
                  \/ d = [checker[c] EXCEPT !.left = credits]
  BY DEF ReadUsage
<1>3. /\ d \in Checks /\ d.do = "read" /\ (d.left = checker[c].left \/ d.left = credits)
      /\ d.plan = checker[c].plan \/ d.plan = allowance
  <2>1. \A x \in Checks : \A a \in {FirstPlan, BiggerPlan} : LET y == [x EXCEPT !.plan = a] IN
          y \in Checks /\ y.do = x.do /\ y.left = x.left /\ y.plan = a
    BY DEF Checks
  <2>2. \A x \in Checks : \A a \in Int : LET y == [x EXCEPT !.left = a] IN
          y \in Checks /\ y.do = x.do /\ y.left = a /\ y.plan = x.plan
    BY DEF Checks
  <2>3. allowance \in {FirstPlan, BiggerPlan} /\ credits \in Int
    BY DEF AlertTypeOK
  <2>4. CASE d = [checker[c] EXCEPT !.plan = allowance]
    BY <1>1, <2>1, <2>3, <2>4
  <2>5. CASE d = [checker[c] EXCEPT !.left = credits]
    BY <1>1, <2>2, <2>3, <2>5
  <2>. QED BY <1>2, <2>4, <2>5
<1>4. /\ checker' \in [Checkers -> Checks \cup {Asleep}] /\ checker'[c] = d /\ d # Asleep
      /\ \A x \in Checkers \ {c} : checker'[x] = checker[x]
  BY <1>2, <1>3, BecomesIs, AlertAssumption
<1>5. AlertTypeOK'
  BY <1>1, <1>4 DEF AlertTypeOK
<1>6. ChecksHold'
  <2>1. CheckHolds(c)'
    BY <1>1, <1>3, <1>4 DEF CheckHolds
  <2>. QED BY <1>1, <1>3, <1>4, <2>1 DEF ChecksHold, CheckHolds, Doing
<1>7. RaisedIsAudited'
  BY <1>1, <1>3, <1>4 DEF RaisedIsAudited, Doing
<1>8. ReachedIsRaised'
  <2>1. \A x \in Checkers : \A t : Finds(x, t) => Finds(x, t)'
    <3>1. \A t : Finds(c, t) => Finds(c, t)'
      <4>1. ReadsCurrent(checker[c]) => ReadsCurrent(d)
        BY <1>3 DEF ReadsCurrent, AlertTypeOK
      <4>. QED BY <1>1, <1>3, <1>4, <4>1 DEF Finds, ReadsCurrent
    <3>. QED BY <1>1, <1>4, <3>1 DEF Finds, ReadsCurrent
  <2>. QED BY <1>1, <2>1 DEF ReachedIsRaised
<1>. QED BY <1>1, <1>5, <1>6, <1>7, <1>8 DEF Ascending

\* What was read is compared: every threshold the balance has reached is to be announced.
LEMMA CompareKeeps == ASSUME AlertInv, NEW c \in Checkers, Compare(c) PROVE AlertInv'
<1>. USE DEF AlertInv
<1>1. /\ checker[c] # Asleep /\ checker[c] \in Checks /\ checker[c].do = "read" /\ CheckHolds(c)
      /\ checker[c].plan # Unread /\ checker[c].left # Unread
      /\ UNCHANGED <<allowance, credits, charged, alerts, audited, adjustments, alertFaults, unseen>>
  BY DEF Compare, Doing, ChecksHold, AlertTypeOK
<1>2. PICK R : R = Reached(Percent(checker[c].plan - checker[c].left, checker[c].plan))
  OBVIOUS
<1>3. R \subseteq Thresholds /\ GoesTo(c, R)
  BY <1>2 DEF Compare, Reached
<1>4. /\ checker' \in [Checkers -> Checks \cup {Asleep}]
      /\ \A x \in Checkers \ {c} : checker'[x] = checker[x]
      /\ R = {} => checker'[c] = Asleep
      /\ R # {} => /\ checker'[c] # Asleep /\ checker'[c].do = "notify" /\ checker'[c].todo = R
                   /\ checker'[c].plan = checker[c].plan /\ checker'[c].left = checker[c].left
  BY <1>1, <1>3, GoesToIs
<1>5. \A t, u \in Thresholds : t < u /\ u \in R => t \in R
  <2>1. checker[c].left \in Int /\ checker[c].plan \in Nat \ {0}
    BY <1>1, AlertAssumption DEF Checks
  <2>2. Percent(checker[c].plan - checker[c].left, checker[c].plan) \in Int
    BY <2>1 DEF Percent
  <2>. QED BY <1>2, <2>2 DEF Reached, Thresholds
<1>6. AlertTypeOK'
  BY <1>1, <1>4 DEF AlertTypeOK
<1>7. ChecksHold'
  <2>1. checker'[c] # Asleep => CheckHolds(c)'
    BY <1>1, <1>4, <1>5 DEF CheckHolds
  <2>2. ~Doing(c, "audit")'
    BY <1>4 DEF Doing
  <2>. QED BY <1>1, <1>4, <2>1, <2>2 DEF ChecksHold, CheckHolds, Doing
<1>8. RaisedIsAudited'
  BY <1>1, <1>4 DEF RaisedIsAudited, Doing
<1>9. ReachedIsRaised'
  <2>1. ASSUME NEW t \in Thresholds, Percent(allowance - credits, allowance) >= t, Finds(c, t)
        PROVE  Finds(c, t)'
    <3>1. /\ checker[c].plan = allowance /\ checker[c].left <= credits
          /\ checker[c].left \in Int /\ credits \in Int /\ allowance \in Nat \ {0}
      BY <1>1, <2>1, AlertAssumption DEF Finds, ReadsCurrent, AlertTypeOK, Checks
    <3>2. allowance - credits \in Int /\ allowance - checker[c].left \in Int
          /\ allowance - credits <= allowance - checker[c].left
      BY <3>1
    <3>3. /\ Percent(allowance - credits, allowance) \in Int
          /\ Percent(allowance - checker[c].left, allowance) \in Int
          /\ Percent(allowance - credits, allowance) <= Percent(allowance - checker[c].left, allowance)
      BY <3>1, <3>2, PercentGrows
    <3>4. t \in Int
      BY DEF Thresholds
    <3>5. t \in R
      BY <1>2, <2>1, <3>1, <3>3, <3>4 DEF Reached
    <3>. QED BY <1>4, <3>5 DEF Finds
  <2>2. \A x \in Checkers \ {c} : \A t : Finds(x, t) => Finds(x, t)'
    BY <1>1, <1>4 DEF Finds, ReadsCurrent
  <2>. QED BY <1>1, <2>1, <2>2 DEF ReachedIsRaised
<1>. QED BY <1>1, <1>6, <1>7, <1>8, <1>9 DEF Ascending

\* The lowest threshold is announced, unless it is already.
LEMMA NotifyOwnerKeeps == ASSUME AlertInv, NEW c \in Checkers, NotifyOwner(c) PROVE AlertInv'
<1>. USE DEF AlertInv
<1>1. /\ checker[c] # Asleep /\ checker[c] \in Checks /\ checker[c].do = "notify" /\ CheckHolds(c)
      /\ UNCHANGED <<allowance, credits, charged, audited, adjustments, alertFaults, unseen>>
  BY DEF NotifyOwner, Doing, ChecksHold, AlertTypeOK
<1>2. PICK T : T = checker[c].todo
  OBVIOUS
<1>3. T \subseteq Thresholds /\ T # {}
  BY <1>1, <1>2 DEF CheckHolds, Checks
<1>4. PICK t \in T : t = NextOf(T) /\ \A u \in T : t <= u
  BY <1>3, NextIs
<1>5. /\ alerts' = alerts \cup {t}
      /\ IF Created(t) THEN Becomes(c, [checker[c] EXCEPT !.do = "audit", !.now = t])
         ELSE GoesTo(c, T \ {t})
  BY <1>2, <1>4 DEF NotifyOwner
<1>6. \A u \in Thresholds : u < t => u \in alerts
  <2>1. \A u \in Thresholds : u < t => u \in T \cup alerts
    BY <1>1, <1>2, <1>3, <1>4 DEF CheckHolds
  <2>. QED BY <1>3, <1>4, <2>1 DEF Thresholds
<1>7. Ascending' /\ alerts' \subseteq Thresholds /\ alerts \subseteq Thresholds
  BY <1>3, <1>4, <1>5, <1>6 DEF Ascending, AlertTypeOK
<1>8. PICK d : d = checker'[c]
  OBVIOUS
<1>9. /\ checker' \in [Checkers -> Checks \cup {Asleep}]
      /\ \A x \in Checkers \ {c} : checker'[x] = checker[x]
      /\ Created(t) => d # Asleep /\ d.do = "audit" /\ d.now = t /\ d.todo = T
                       /\ d.left = checker[c].left /\ d.plan = checker[c].plan
      /\ ~Created(t) /\ T \ {t} # {} =>
           d # Asleep /\ d.do = "notify" /\ d.todo = T \ {t}
           /\ d.left = checker[c].left /\ d.plan = checker[c].plan
      /\ ~Created(t) /\ T \ {t} = {} => d = Asleep
  <2>1. CASE Created(t)
    <3>1. PICK e : e = [checker[c] EXCEPT !.do = "audit", !.now = t]
      OBVIOUS
    <3>2. e \in Checks /\ e.do = "audit" /\ e.now = t /\ e.todo = T
          /\ e.left = checker[c].left /\ e.plan = checker[c].plan
      <4>1. \A x \in Checks : LET y == [x EXCEPT !.do = "audit", !.now = t] IN
              y \in Checks /\ y.do = "audit" /\ y.now = t /\ y.todo = x.todo /\ y.left = x.left
              /\ y.plan = x.plan
        BY <1>3, <1>4 DEF Checks
      <4>. QED BY <1>1, <1>2, <3>1, <4>1
    <3>3. Becomes(c, e) /\ e # Asleep
      BY <1>5, <2>1, <3>1, <3>2, AlertAssumption
    <3>4. /\ checker' \in [Checkers -> Checks \cup {Asleep}] /\ checker'[c] = e
          /\ \A x \in Checkers \ {c} : checker'[x] = checker[x]
      BY <3>2, <3>3, BecomesIs
    <3>. QED BY <1>8, <2>1, <3>2, <3>3, <3>4
  <2>2. CASE ~Created(t)
    <3>1. PICK S : S = T \ {t}
      OBVIOUS
    <3>2. GoesTo(c, S) /\ S \subseteq Thresholds
      BY <1>3, <1>5, <2>2, <3>1
    <3>3. /\ checker' \in [Checkers -> Checks \cup {Asleep}]
          /\ \A x \in Checkers \ {c} : checker'[x] = checker[x]
          /\ S = {} => checker'[c] = Asleep
          /\ S # {} => /\ checker'[c] # Asleep /\ checker'[c].do = "notify" /\ checker'[c].todo = S
                       /\ checker'[c].plan = checker[c].plan /\ checker'[c].left = checker[c].left
      BY <1>1, <3>2, GoesToIs
    <3>. QED BY <1>8, <2>2, <3>1, <3>3
  <2>. QED BY <2>1, <2>2
<1>10. Created(t) => audited[t] = 0 /\ \A x \in Checkers : ~(Doing(x, "audit") /\ checker[x].now = t)
  <2>1. Created(t) => audited[t] = 0
    BY <1>3, <1>4 DEF AlertTypeOK, Created
  <2>2. \A x \in Checkers : Doing(x, "audit") => checker[x].now \in alerts
    BY DEF ChecksHold, CheckHolds, Doing
  <2>. QED BY <2>1, <2>2 DEF Created
<1>11. AlertTypeOK'
  <2>1. \A u \in Thresholds \ alerts' : audited'[u] = 0
    BY <1>1, <1>5 DEF AlertTypeOK
  <2>. QED BY <1>1, <1>7, <1>9, <2>1 DEF AlertTypeOK
<1>12. CheckHolds(c)' \/ d = Asleep
  <2>1. \A v, u \in Thresholds : v < u /\ u \in T => v \in T \cup alerts
    BY <1>1, <1>2 DEF CheckHolds
  <2>3. CASE Created(t)
    BY <1>1, <1>3, <1>4, <1>5, <1>8, <1>9, <1>10, <2>1, <2>3 DEF CheckHolds
  <2>4. CASE ~Created(t)
    BY <1>1, <1>3, <1>4, <1>5, <1>8, <1>9, <2>1, <2>4 DEF CheckHolds
  <2>. QED BY <2>3, <2>4
<1>13. ChecksHold'
  <2>1. \A x \in Checkers \ {c} : checker'[x] # Asleep => CheckHolds(x)'
    BY <1>1, <1>5, <1>9 DEF ChecksHold, CheckHolds
  <2>2. \A x, y \in Checkers :
          Doing(x, "audit")' /\ Doing(y, "audit")' /\ checker'[x].now = checker'[y].now => x = y
    BY <1>8, <1>9, <1>10 DEF ChecksHold, Doing
  <2>. QED BY <1>8, <1>12, <2>1, <2>2 DEF ChecksHold, Doing
<1>14. RaisedIsAudited'
  <2>1. Created(t) => Doing(c, "audit")' /\ checker'[c].now = t
    BY <1>8, <1>9 DEF Doing
  <2>2. \A x \in Checkers : Doing(x, "audit") =>
          Doing(x, "audit")' /\ checker'[x].now = checker[x].now
    BY <1>1, <1>9 DEF Doing
  <2>3. ~Created(t) => alerts' = alerts
    BY <1>5 DEF Created
  <2>. QED BY <1>1, <1>5, <2>1, <2>2, <2>3 DEF RaisedIsAudited
<1>15. ReachedIsRaised'
  <2>1. \A x \in Checkers \ {c} : \A u : Finds(x, u) => Finds(x, u)'
    BY <1>1, <1>9 DEF Finds, ReadsCurrent
  <2>2. \A u : Finds(c, u) => Finds(c, u)' \/ u \in alerts'
    BY <1>1, <1>2, <1>5, <1>8, <1>9 DEF Finds
  <2>3. alerts \subseteq alerts'
    BY <1>5
  <2>. QED BY <1>1, <2>1, <2>2, <2>3 DEF ReachedIsRaised
<1>. QED BY <1>1, <1>7, <1>11, <1>13, <1>14, <1>15

\* The alert is audited by the check that made it.
LEMMA AuditAlertKeeps == ASSUME AlertInv, NEW c \in Checkers, AuditAlert(c) PROVE AlertInv'
<1>. USE DEF AlertInv
<1>1. /\ checker[c] # Asleep /\ checker[c] \in Checks /\ checker[c].do = "audit" /\ CheckHolds(c)
      /\ UNCHANGED <<allowance, credits, charged, alerts, adjustments, alertFaults, unseen>>
  BY DEF AuditAlert, Doing, ChecksHold, AlertTypeOK
<1>2. PICK t, S : t = checker[c].now /\ S = checker[c].todo \ {t}
  OBVIOUS
<1>3. t \in alerts /\ t \in Thresholds /\ audited[t] = 0 /\ S \subseteq Thresholds
      /\ t \in checker[c].todo
  BY <1>1, <1>2 DEF CheckHolds, Checks, AlertTypeOK
<1>4. audited' = [audited EXCEPT ![t] = @ + 1] /\ GoesTo(c, S)
  BY <1>2 DEF AuditAlert
<1>5. /\ checker' \in [Checkers -> Checks \cup {Asleep}]
      /\ \A x \in Checkers \ {c} : checker'[x] = checker[x]
      /\ S = {} => checker'[c] = Asleep
      /\ S # {} => /\ checker'[c] # Asleep /\ checker'[c].do = "notify" /\ checker'[c].todo = S
                   /\ checker'[c].plan = checker[c].plan /\ checker'[c].left = checker[c].left
  BY <1>1, <1>3, <1>4, GoesToIs
<1>6. /\ audited' \in [Thresholds -> 0..1] /\ audited'[t] = 1
      /\ \A u \in Thresholds \ {t} : audited'[u] = audited[u]
  BY <1>3, <1>4 DEF AlertTypeOK
<1>7. AlertTypeOK'
  BY <1>1, <1>3, <1>5, <1>6 DEF AlertTypeOK
<1>8. ChecksHold'
  <2>1. checker'[c] # Asleep => CheckHolds(c)'
    BY <1>1, <1>2, <1>3, <1>5 DEF CheckHolds
  <2>2. ASSUME NEW x \in Checkers \ {c}, checker'[x] # Asleep PROVE CheckHolds(x)'
    <3>1. CheckHolds(x) /\ checker'[x] = checker[x]
      BY <1>5, <2>2 DEF ChecksHold
    <3>2. ASSUME checker[x].do = "audit" PROVE checker[x].now \in Thresholds \ {t}
      <4>1. Doing(x, "audit") /\ Doing(c, "audit")
        BY <1>1, <1>5, <2>2, <3>2 DEF Doing
      <4>2. checker[x].now # t
        BY <1>2, <4>1 DEF ChecksHold
      <4>. QED BY <3>1, <3>2, <4>2 DEF CheckHolds, AlertTypeOK
    <3>. QED BY <1>1, <1>6, <3>1, <3>2 DEF CheckHolds
  <2>3. ~Doing(c, "audit")'
    BY <1>5 DEF Doing
  <2>. QED BY <1>5, <2>1, <2>2, <2>3 DEF ChecksHold, Doing
<1>9. RaisedIsAudited'
  <2>1. ASSUME NEW u \in alerts \ {t}, NEW x \in Checkers, Doing(x, "audit"), checker[x].now = u
        PROVE  Doing(x, "audit")' /\ checker'[x].now = u
    BY <1>2, <1>5, <2>1 DEF Doing
  <2>2. alerts \subseteq Thresholds
    BY DEF AlertTypeOK
  <2>. QED BY <1>1, <1>6, <2>1, <2>2 DEF RaisedIsAudited
<1>10. ReachedIsRaised'
  <2>1. \A x \in Checkers \ {c} : \A u : Finds(x, u) => Finds(x, u)'
    BY <1>1, <1>5 DEF Finds, ReadsCurrent
  <2>2. \A u : Finds(c, u) => Finds(c, u)' \/ u \in alerts
    BY <1>1, <1>2, <1>3, <1>5 DEF Finds
  <2>. QED BY <1>1, <2>1, <2>2 DEF ReachedIsRaised
<1>. QED BY <1>1, <1>7, <1>8, <1>9, <1>10 DEF Ascending

\* A check is cut short; then nothing is owed any more.
LEMMA CheckFailsKeeps == ASSUME AlertInv, NEW c \in Checkers, CheckFails(c) PROVE AlertInv'
<1>. USE DEF AlertInv
<1>1. /\ alertFaults < MaxAlertFaults /\ alertFaults' = alertFaults + 1 /\ Becomes(c, Asleep)
      /\ UNCHANGED <<allowance, credits, charged, alerts, audited, adjustments, unseen>>
  BY DEF CheckFails
<1>2. /\ checker' \in [Checkers -> Checks \cup {Asleep}] /\ checker'[c] = Asleep
      /\ \A x \in Checkers \ {c} : checker'[x] = checker[x]
  BY <1>1, BecomesIs
<1>3. alertFaults' \in 0..MaxAlertFaults /\ alertFaults' # 0
  BY <1>1, AlertAssumption DEF AlertTypeOK
<1>4. AlertTypeOK'
  BY <1>1, <1>2, <1>3 DEF AlertTypeOK
<1>5. ChecksHold'
  BY <1>1, <1>2 DEF ChecksHold, CheckHolds, Doing
<1>. QED BY <1>1, <1>3, <1>4, <1>5 DEF Ascending, RaisedIsAudited, ReachedIsRaised

\* Credits are granted, and less of the allowance is used than was; or they are taken away,
\* which nobody has seen yet.
LEMMA AdjustKeeps == ASSUME AlertInv, NEW k \in Adjustments, Adjust(k) PROVE AlertInv'
<1>. USE DEF AlertInv
<1>1. /\ adjustments < MaxAdjustments /\ adjustments' = adjustments + 1 /\ credits' = credits + k
      /\ unseen' = (unseen \/ k < 0) /\ k \in Int
      /\ UNCHANGED <<allowance, charged, checker, alerts, audited, alertFaults>>
  BY AlertAssumption DEF Adjust
<1>2. k \in Int /\ credits' = credits + k /\ credits \in Int /\ credits' \in Int
  BY AlertAssumption DEF Adjust, AlertTypeOK
<1>3. AlertTypeOK'
  <2>1. adjustments' \in 0..MaxAdjustments
    BY <1>1, AlertAssumption DEF AlertTypeOK
  <2>2. unseen' \in BOOLEAN
    BY <1>1
  <2>. QED BY <1>1, <1>2, <2>1, <2>2 DEF AlertTypeOK
<1>4. ChecksHold' /\ RaisedIsAudited'
  BY <1>1 DEF ChecksHold, CheckHolds, Doing, RaisedIsAudited
<1>5. ReachedIsRaised'
  <2>1. SUFFICES ASSUME ~unseen' PROVE ReachedIsRaised'
    BY DEF ReachedIsRaised
  <2>2. ~unseen /\ ~(k < 0)
    BY <1>1, <2>1, Zenon
  <2>3. allowance \in Nat \ {0}
    BY AlertAssumption DEF AlertTypeOK
  <2>4. /\ allowance - credits' \in Int /\ allowance - credits \in Int
        /\ allowance - credits' <= allowance - credits
    <3>1. ~(k < 0)
      BY <2>2
    <3>. QED BY <1>2, <2>3, <3>1
  <2>6. /\ Percent(allowance - credits', allowance) \in Int
        /\ Percent(allowance - credits, allowance) \in Int
        /\ Percent(allowance - credits', allowance) <= Percent(allowance - credits, allowance)
    BY <2>3, <2>4, PercentGrows
  <2>7. \A c \in Checkers : \A t : Finds(c, t) => Finds(c, t)'
    <3>1. \A c \in Checkers : checker[c] # Asleep => checker[c].left \in Int \cup {Unread}
      BY DEF AlertTypeOK, Checks
    <3>2. credits <= credits' /\ UNCHANGED <<checker, allowance>>
      <4>1. ~(k < 0) /\ UNCHANGED <<checker, allowance>>
        BY <1>1, <2>2
      <4>. QED BY <1>2, <4>1
    <3>. QED BY <1>2, <3>1, <3>2 DEF Finds, ReadsCurrent
  <2>8. \A t \in Thresholds : t \in Int
    BY DEF Thresholds
  <2>9. ASSUME NEW t \in Thresholds, (Percent(allowance - credits, allowance) >= t)'
        PROVE  Percent(allowance - credits, allowance) >= t
    <3>1. Percent(allowance - credits', allowance) >= t
      BY <1>1, <2>9 DEF Percent
    <3>. QED BY <2>6, <2>8, <3>1
  <2>. QED BY <1>1, <2>2, <2>7, <2>9 DEF ReachedIsRaised
<1>. QED BY <1>1, <1>3, <1>4, <1>5 DEF Ascending

LEMMA UpgradeKeeps == ASSUME AlertInv, Upgrade PROVE AlertInv'
<1>. USE DEF AlertInv
<1>1. /\ unseen' = TRUE /\ allowance' = BiggerPlan
      /\ UNCHANGED <<credits, charged, checker, alerts, audited, adjustments, alertFaults>>
  BY DEF Upgrade
<1>2. AlertTypeOK'
  BY <1>1 DEF AlertTypeOK
<1>. QED BY <1>1, <1>2 DEF ChecksHold, CheckHolds, Doing, Ascending, RaisedIsAudited, ReachedIsRaised

LEMMA AlertStepKeeps == AlertInv /\ [AlertStep]_alertVars => AlertInv'
<1>1. ASSUME AlertInv, UNCHANGED alertVars PROVE AlertInv'
  <2>1. UNCHANGED <<allowance, credits, charged, checker, alerts, audited, adjustments, alertFaults, unseen>>
    BY <1>1 DEF alertVars
  <2>2. AlertTypeOK'
    BY <1>1, <2>1 DEF AlertInv, AlertTypeOK
  <2>3. ChecksHold' /\ Ascending'
    BY <1>1, <2>1 DEF AlertInv, ChecksHold, CheckHolds, Doing, Ascending
  <2>4. RaisedIsAudited' /\ ReachedIsRaised'
    BY <1>1, <2>1 DEF AlertInv, RaisedIsAudited, ReachedIsRaised, Finds, ReadsCurrent, Doing, Percent
  <2>. QED BY <2>2, <2>3, <2>4 DEF AlertInv
<1>. QED BY <1>1, ChargeStepKeeps, ReadUsageKeeps, CompareKeeps, NotifyOwnerKeeps, AuditAlertKeeps,
            CheckFailsKeeps, AdjustKeeps, UpgradeKeeps DEF AlertStep

\* When nobody is at work, what is announced is what was reached.
LEMMA AlertsSay == AlertInv => AlertTypeOK /\ AlertsMatchUsage
<1>. SUFFICES ASSUME AlertInv PROVE AlertTypeOK /\ AlertsMatchUsage
  OBVIOUS
<1>. USE DEF AlertInv
<1>1. ASSUME alertFaults = 0, \A c \in Checkers : checker[c] = Asleep, NEW t \in Thresholds
      PROVE  /\ audited[t] = 1 <=> t \in alerts
             /\ ~unseen /\ Percent(allowance - credits, allowance) >= t => t \in alerts
  <2>1. audited[t] = 1 <=> t \in alerts
    BY <1>1 DEF AlertTypeOK, RaisedIsAudited, Doing
  <2>2. ~unseen /\ Percent(allowance - credits, allowance) >= t => t \in alerts
    BY <1>1 DEF ReachedIsRaised, Finds
  <2>. QED BY <2>1, <2>2
<1>. QED BY <1>1 DEF AlertsMatchUsage, Ascending

-------------------------------------------------------------------------------
(***************************************************************************)
(* Onboarding and content review.                                          *)
(***************************************************************************)

\* What a request has read, and what it is about to announce.
ClientHolds(c) ==
  /\ clientCall[c].do = "advance" => clientCall[c].was < clientCall[c].to
  /\ clientCall[c].do = "skip" => clientCall[c].was = "IN_PROGRESS"
  /\ clientCall[c].do \in {"notify", "completed"} => onboardingStatus = "COMPLETED" \/ overwritten
  /\ clientCall[c].do = "completed" => notices = 1
  /\ clientCall[c].do = "review" => clientCall[c].to \in NextReviews(clientCall[c].was)
  /\ clientCall[c].do = "record" /\ ~clientCall[c].first => firsts > 0
ClientsHold == \A c \in Clients : clientCall[c] # NoCall => ClientHolds(c)

\* Every first approval was an approval, or one whose insert was lost.
Recorders == {c \in Clients : Calling(c, "first")}
FirstsCounted == IsFiniteSet(Recorders) /\ firsts + Cardinality(Recorders) <= approvals + callFaults

\* Unless two looked at once, nobody else records a first one.
Firsting(c) == Calling(c, "first") \/ (Calling(c, "record") /\ clientCall[c].first)
OneFirst ==
  ~raced => \A c, d \in Clients : Firsting(c) => firsts = 0 /\ (Firsting(d) => c = d)

\* The inductive invariant.
ActivationInv ==
  /\ ActivationTypeOK /\ ClientsHold /\ FirstsCounted /\ OneFirst
  /\ CompletionAnnounced /\ FirstApprovalOnce

\* What a request holds has the type of what it does.
LEMMA ClientCallType ==
  ASSUME NEW x \in ClientCalls
  PROVE  /\ x.do \in {"advance", "skip", "notify", "completed", "review", "look", "record", "first"}
         /\ x.do = "advance" => x.was \in 0..LastStep /\ x.to \in 0..LastStep
         /\ x.do = "review" => x.on \in Assets /\ x.was \in AssetStatuses /\ x.to \in AssetStatuses
         /\ x.do = "record" => x.first \in BOOLEAN
  BY DEF ClientCalls

LEMMA ClientMoves ==
  ASSUME ActivationInv, NEW c \in Clients, NEW d \in ClientCalls \cup {NoCall}, Then(c, d)
  PROVE  /\ clientCall' \in [Clients -> ClientCalls \cup {NoCall}] /\ clientCall'[c] = d
         /\ \A x \in Clients \ {c} : clientCall'[x] = clientCall[x]
  BY DEF ActivationInv, ActivationTypeOK, Then

\* What the other requests have read is still so, and so is what this one has.
LEMMA ClientsStillHold ==
  ASSUME ActivationInv, NEW c \in Clients, NEW d \in ClientCalls \cup {NoCall}, Then(c, d),
         d # NoCall => ClientHolds(c)',
         onboardingStatus = "COMPLETED" \/ overwritten => onboardingStatus' = "COMPLETED" \/ overwritten',
         notices = 1 => notices' = 1, firsts > 0 => firsts' > 0
  PROVE  ClientsHold'
<1>1. \A x \in Clients \ {c} : clientCall'[x] = clientCall[x]
  BY ClientMoves
<1>2. clientCall'[c] = d
  BY ClientMoves
<1>3. ASSUME NEW x \in Clients \ {c}, clientCall[x] # NoCall PROVE ClientHolds(x)'
  <2>1. ClientHolds(x)
    BY <1>3 DEF ActivationInv, ClientsHold
  <2>. QED BY <1>1, <2>1 DEF ClientHolds
<1>. QED BY <1>1, <1>2, <1>3 DEF ClientsHold

\* A step of the approvals' leaves the onboarding as it was announced.
LEMMA OnboardingKept ==
  ASSUME ActivationInv, NEW c \in Clients, NEW d \in ClientCalls \cup {NoCall}, Then(c, d),
         UNCHANGED onboardingVars, overwritten => overwritten',
         callFaults' \in {callFaults, callFaults + 1}, Calling(c, "notify") => callFaults' # callFaults
  PROVE  CompletionAnnounced'
<1>1. \A x \in Clients \ {c} : Calling(x, "notify") => Calling(x, "notify")'
  BY ClientMoves DEF Calling
<1>2. /\ callFaults' = 0 => callFaults = 0 /\ ~Calling(c, "notify")
      /\ UNCHANGED <<onboardingStatus, notices, completed>>
  BY DEF ActivationInv, ActivationTypeOK, onboardingVars
<1>. QED BY <1>1, <1>2 DEF ActivationInv, CompletionAnnounced

\* A step of the onboarding's leaves the approvals as they were counted.
LEMMA ApprovalsKept ==
  ASSUME ActivationInv, NEW c \in Clients, NEW d \in ClientCalls \cup {NoCall}, Then(c, d),
         d # NoCall => d.do \notin {"first", "record"},
         UNCHANGED <<approvals, firsts, raced>>,
         callFaults' \in {callFaults, callFaults + 1}, Calling(c, "first") => callFaults' # callFaults
  PROVE  FirstsCounted' /\ OneFirst' /\ FirstApprovalOnce'
<1>1. /\ clientCall'[c] = d
      /\ \A x \in Clients \ {c} : clientCall'[x] = clientCall[x]
  BY ClientMoves
<1>2. /\ ~Firsting(c)' /\ ~Calling(c, "first")'
      /\ \A x \in Clients \ {c} : /\ Calling(x, "first")' = Calling(x, "first")
                                  /\ Firsting(x)' = Firsting(x)
  BY <1>1 DEF Firsting, Calling
<1>3. FirstsCounted'
  <2>1. Recorders' = Recorders \ {c}
    BY <1>2 DEF Recorders
  <2>2. IsFiniteSet(Recorders) /\ Cardinality(Recorders) \in Nat
    BY FS_CardinalityType DEF ActivationInv, FirstsCounted
  <2>3. IsFiniteSet(Recorders \ {c}) /\ Cardinality(Recorders \ {c}) \in Nat
        /\ Cardinality(Recorders \ {c}) <= Cardinality(Recorders)
    BY <2>2, OneFewer
  <2>4. firsts \in Nat /\ approvals \in Nat /\ callFaults \in Nat
    BY DEF ActivationInv, ActivationTypeOK
  <2>. QED BY <2>1, <2>2, <2>3, <2>4 DEF ActivationInv, FirstsCounted
<1>4. OneFirst'
  BY <1>2 DEF ActivationInv, OneFirst
<1>5. FirstApprovalOnce'
  <2>1. callFaults' = 0 => callFaults = 0 /\ ~Calling(c, "first")
    BY DEF ActivationInv, ActivationTypeOK
  <2>. QED BY <1>2, <2>1 DEF ActivationInv, FirstApprovalOnce
<1>. QED BY <1>3, <1>4, <1>5

\* The step, or the status, is read and the request allowed.
LEMMA ReadStepKeeps ==
  ASSUME ActivationInv, NEW c \in Clients, NEW to \in 0..LastStep, ReadStep(c, to)
  PROVE  ActivationInv'
<1>1. PICK d : d = [do |-> "advance", was |-> onboardingStep, to |-> to]
  OBVIOUS
<1>2. /\ d \in ClientCalls \cup {NoCall} /\ Then(c, d) /\ d.do = "advance" /\ d.was < d.to
      /\ clientCall[c] = NoCall
      /\ UNCHANGED <<onboardingStep, onboardingStatus, notices, completed, asset, approvals, firsts,
                     raced, callFaults, overwritten>>
  BY <1>1 DEF ReadStep, Forward, ClientCalls, ActivationInv, ActivationTypeOK, onboardingVars,
              assetVars, LastStep
<1>3. clientCall' \in [Clients -> ClientCalls \cup {NoCall}] /\ clientCall'[c] = d
  BY <1>2, ClientMoves
<1>4. ActivationTypeOK'
  BY <1>2, <1>3 DEF ActivationInv, ActivationTypeOK
<1>5. ClientHolds(c)'
  BY <1>2, <1>3 DEF ClientHolds
<1>6. ClientsHold'
  BY <1>2, <1>5, ClientsStillHold
<1>7. CompletionAnnounced'
  BY <1>2, OnboardingKept DEF onboardingVars, Calling
<1>8. FirstsCounted' /\ OneFirst' /\ FirstApprovalOnce'
  BY <1>2, ApprovalsKept DEF Calling
<1>. QED BY <1>4, <1>6, <1>7, <1>8 DEF ActivationInv

LEMMA ReadStatusKeeps == ASSUME ActivationInv, NEW c \in Clients, ReadStatus(c) PROVE ActivationInv'
<1>1. PICK d : d = [do |-> "skip", was |-> onboardingStatus]
  OBVIOUS
<1>2. /\ d \in ClientCalls \cup {NoCall} /\ Then(c, d) /\ d.do = "skip" /\ d.was = "IN_PROGRESS"
      /\ clientCall[c] = NoCall
      /\ UNCHANGED <<onboardingStep, onboardingStatus, notices, completed, asset, approvals, firsts,
                     raced, callFaults, overwritten>>
  BY <1>1 DEF ReadStatus, MaySkip, ClientCalls, onboardingVars, assetVars
<1>3. clientCall' \in [Clients -> ClientCalls \cup {NoCall}] /\ clientCall'[c] = d
  BY <1>2, ClientMoves
<1>4. ActivationTypeOK'
  BY <1>2, <1>3 DEF ActivationInv, ActivationTypeOK
<1>5. ClientHolds(c)'
  BY <1>2, <1>3 DEF ClientHolds
<1>6. ClientsHold'
  BY <1>2, <1>5, ClientsStillHold
<1>7. CompletionAnnounced'
  BY <1>2, OnboardingKept DEF onboardingVars, Calling
<1>8. FirstsCounted' /\ OneFirst' /\ FirstApprovalOnce'
  BY <1>2, ApprovalsKept DEF Calling
<1>. QED BY <1>4, <1>6, <1>7, <1>8 DEF ActivationInv

LEMMA ReadAssetKeeps ==
  ASSUME ActivationInv, NEW c \in Clients, NEW a \in Assets, NEW s \in AssetStatuses, ReadAsset(c, a, s)
  PROVE  ActivationInv'
<1>1. PICK d : d = [do |-> "review", on |-> a, was |-> asset[a], to |-> s]
  OBVIOUS
<1>2. /\ d \in ClientCalls \cup {NoCall} /\ Then(c, d) /\ d.do = "review" /\ d.to \in NextReviews(d.was)
      /\ clientCall[c] = NoCall
      /\ UNCHANGED <<onboardingStep, onboardingStatus, notices, completed, asset, approvals, firsts,
                     raced, callFaults, overwritten>>
  <2>1. asset[a] \in AssetStatuses
    BY DEF ActivationInv, ActivationTypeOK
  <2>2. d \in ClientCalls
    BY <1>1, <2>1 DEF ClientCalls
  <2>. QED BY <1>1, <2>2 DEF ReadAsset, onboardingVars, assetVars
<1>3. clientCall' \in [Clients -> ClientCalls \cup {NoCall}] /\ clientCall'[c] = d
  BY <1>2, ClientMoves
<1>4. ActivationTypeOK'
  BY <1>2, <1>3 DEF ActivationInv, ActivationTypeOK
<1>5. ClientHolds(c)'
  BY <1>2, <1>3 DEF ClientHolds
<1>6. ClientsHold'
  BY <1>2, <1>5, ClientsStillHold
<1>7. CompletionAnnounced'
  BY <1>2, OnboardingKept DEF onboardingVars, Calling
<1>8. FirstsCounted' /\ OneFirst' /\ FirstApprovalOnce'
  BY <1>2, ApprovalsKept DEF Calling
<1>. QED BY <1>4, <1>6, <1>7, <1>8 DEF ActivationInv

\* The step is written, and with the last one the status.
LEMMA WriteStepKeeps == ASSUME ActivationInv, NEW c \in Clients, WriteStep(c) PROVE ActivationInv'
<1>1. PICK d : d = IF clientCall[c].to = LastStep THEN [do |-> "notify"] ELSE NoCall
  OBVIOUS
<1>2. /\ clientCall[c] # NoCall /\ clientCall[c] \in ClientCalls /\ clientCall[c].do = "advance"
      /\ clientCall[c].to \in 0..LastStep
  BY ClientCallType DEF WriteStep, Calling, ActivationInv, ActivationTypeOK
<1>3. /\ d \in ClientCalls \cup {NoCall} /\ Then(c, d) /\ (d # NoCall => d.do = "notify")
      /\ onboardingStep' = clientCall[c].to
      /\ UNCHANGED <<notices, completed, asset, approvals, firsts, raced, callFaults>>
      /\ overwritten' = (overwritten \/ clientCall[c].was # onboardingStep)
      /\ IF d = NoCall THEN onboardingStatus' = onboardingStatus ELSE onboardingStatus' = "COMPLETED"
  BY <1>1, <1>2, ActivationAssumption DEF WriteStep, Outdated, Calling, ClientCalls, assetVars
<1>4. clientCall' \in [Clients -> ClientCalls \cup {NoCall}] /\ clientCall'[c] = d
  BY <1>3, ClientMoves
<1>5. ActivationTypeOK'
  BY <1>2, <1>3, <1>4 DEF ActivationInv, ActivationTypeOK
<1>6. ClientsHold'
  <2>1. d # NoCall => ClientHolds(c)'
    BY <1>3, <1>4 DEF ClientHolds
  <2>. QED BY <1>3, <2>1, ClientsStillHold
<1>7. CompletionAnnounced'
  <2>1. \A x \in Clients : Calling(x, "notify") => Calling(x, "notify")'
    BY <1>2, <1>3, ClientMoves DEF Calling
  <2>2. d # NoCall => Calling(c, "notify")'
    BY <1>3, <1>4 DEF Calling
  <2>. QED BY <1>3, <2>1, <2>2 DEF ActivationInv, CompletionAnnounced
<1>8. FirstsCounted' /\ OneFirst' /\ FirstApprovalOnce'
  <2>1. ~Calling(c, "first") /\ callFaults' \in {callFaults, callFaults + 1}
    BY <1>2, <1>3 DEF Calling
  <2>. QED BY <1>3, <2>1, ApprovalsKept
<1>. QED BY <1>5, <1>6, <1>7, <1>8 DEF ActivationInv

LEMMA NotifyKeeps == ASSUME ActivationInv, NEW c \in Clients, Notify(c) PROVE ActivationInv'
<1>1. PICK d : d = [do |-> "completed"]
  OBVIOUS
<1>2. /\ clientCall[c] # NoCall /\ clientCall[c].do = "notify"
      /\ d \in ClientCalls \cup {NoCall} /\ Then(c, d) /\ d.do = "completed" /\ notices' = 1
      /\ onboardingStatus = "COMPLETED" \/ overwritten
      /\ UNCHANGED <<onboardingStep, onboardingStatus, completed, asset, approvals, firsts,
                     raced, callFaults, overwritten>>
  BY <1>1 DEF Notify, Calling, ClientCalls, assetVars, Announced, ActivationInv, ActivationTypeOK,
              ClientsHold, ClientHolds
<1>3. clientCall' \in [Clients -> ClientCalls \cup {NoCall}] /\ clientCall'[c] = d
  BY <1>2, ClientMoves
<1>4. ActivationTypeOK'
  BY <1>2, <1>3 DEF ActivationInv, ActivationTypeOK
<1>5. ClientsHold'
  <2>1. ClientHolds(c)'
    BY <1>2, <1>3 DEF ClientHolds
  <2>. QED BY <1>2, <2>1, ClientsStillHold
<1>6. CompletionAnnounced'
  BY <1>2 DEF CompletionAnnounced
<1>7. FirstsCounted' /\ OneFirst' /\ FirstApprovalOnce'
  BY <1>2, ApprovalsKept DEF Calling
<1>. QED BY <1>4, <1>5, <1>6, <1>7 DEF ActivationInv

LEMMA TrackCompletionKeeps ==
  ASSUME ActivationInv, NEW c \in Clients, TrackCompletion(c) PROVE ActivationInv'
<1>1. /\ clientCall[c] # NoCall /\ clientCall[c].do = "completed" /\ notices = 1 /\ Then(c, NoCall)
      /\ onboardingStatus = "COMPLETED" \/ overwritten
      /\ completed' \in BOOLEAN
      /\ UNCHANGED <<onboardingStep, onboardingStatus, notices, asset, approvals, firsts,
                     raced, callFaults, overwritten>>
  BY DEF TrackCompletion, Calling, assetVars, ActivationInv, ActivationTypeOK, ClientsHold, ClientHolds
<1>2. clientCall' \in [Clients -> ClientCalls \cup {NoCall}]
  BY <1>1, ClientMoves
<1>3. ActivationTypeOK'
  BY <1>1, <1>2 DEF ActivationInv, ActivationTypeOK
<1>4. ClientsHold'
  BY <1>1, ClientsStillHold
<1>5. CompletionAnnounced'
  BY <1>1 DEF CompletionAnnounced
<1>6. FirstsCounted' /\ OneFirst' /\ FirstApprovalOnce'
  BY <1>1, ApprovalsKept DEF Calling
<1>. QED BY <1>3, <1>4, <1>5, <1>6 DEF ActivationInv

\* A skip that overtakes a completion shows.
LEMMA WriteSkipKeeps == ASSUME ActivationInv, NEW c \in Clients, WriteSkip(c) PROVE ActivationInv'
<1>1. /\ clientCall[c] # NoCall /\ clientCall[c].do = "skip" /\ clientCall[c].was = "IN_PROGRESS"
      /\ Then(c, NoCall) /\ onboardingStatus' = "SKIPPED"
      /\ overwritten' = (overwritten \/ clientCall[c].was # onboardingStatus)
      /\ UNCHANGED <<onboardingStep, notices, completed, asset, approvals, firsts, raced, callFaults>>
  BY DEF WriteSkip, Outdated, Calling, assetVars, ActivationInv, ClientsHold, ClientHolds
<1>2. clientCall' \in [Clients -> ClientCalls \cup {NoCall}]
  BY <1>1, ClientMoves
<1>3. ActivationTypeOK'
  BY <1>1, <1>2 DEF ActivationInv, ActivationTypeOK
<1>4. onboardingStatus = "COMPLETED" \/ overwritten => overwritten'
  BY <1>1
<1>5. ClientsHold'
  BY <1>1, <1>4, ClientsStillHold
<1>6. CompletionAnnounced'
  BY <1>1, <1>4 DEF ActivationInv, CompletionAnnounced
<1>7. FirstsCounted' /\ OneFirst' /\ FirstApprovalOnce'
  BY <1>1, ApprovalsKept DEF Calling
<1>. QED BY <1>3, <1>5, <1>6, <1>7 DEF ActivationInv

LEMMA WriteAssetKeeps == ASSUME ActivationInv, NEW c \in Clients, WriteAsset(c) PROVE ActivationInv'
<1>1. PICK d : d = IF clientCall[c].to = "APPROVED" THEN [do |-> "look"] ELSE NoCall
  OBVIOUS
<1>2. /\ clientCall[c] # NoCall /\ clientCall[c] \in ClientCalls /\ clientCall[c].do = "review"
      /\ clientCall[c].on \in Assets /\ clientCall[c].to \in AssetStatuses
  BY ClientCallType DEF WriteAsset, Calling, ActivationInv, ActivationTypeOK
<1>3. /\ d \in ClientCalls \cup {NoCall} /\ Then(c, d) /\ (d # NoCall => d.do = "look")
      /\ asset' = [asset EXCEPT ![clientCall[c].on] = clientCall[c].to]
      /\ overwritten' = (overwritten \/ clientCall[c].was # asset[clientCall[c].on])
      /\ UNCHANGED <<onboardingStep, onboardingStatus, notices, completed, approvals, firsts, raced,
                     callFaults>>
  <2>1. overwritten' = (overwritten \/ clientCall[c].was # asset[clientCall[c].on])
    BY <1>2 DEF WriteAsset, Outdated, Calling
  <2>. QED BY <1>1, <2>1 DEF WriteAsset, ClientCalls, onboardingVars
<1>4. clientCall' \in [Clients -> ClientCalls \cup {NoCall}] /\ clientCall'[c] = d
  BY <1>3, ClientMoves
<1>5. ActivationTypeOK'
  BY <1>2, <1>3, <1>4 DEF ActivationInv, ActivationTypeOK
<1>6. ClientsHold'
  <2>1. d # NoCall => ClientHolds(c)'
    BY <1>3, <1>4 DEF ClientHolds
  <2>. QED BY <1>3, <2>1, ClientsStillHold
<1>7. ~Calling(c, "notify") /\ ~Calling(c, "first") /\ callFaults' \in {callFaults, callFaults + 1}
  BY <1>2, <1>3 DEF Calling
<1>8. CompletionAnnounced'
  BY <1>3, <1>7, OnboardingKept DEF onboardingVars
<1>9. FirstsCounted' /\ OneFirst' /\ FirstApprovalOnce'
  BY <1>3, <1>7, ApprovalsKept
<1>. QED BY <1>5, <1>6, <1>8, <1>9 DEF ActivationInv

\* Two that find no first approval at once show.
LEMMA LookForFirstKeeps == ASSUME ActivationInv, NEW c \in Clients, LookForFirst(c) PROVE ActivationInv'
<1>1. PICK d : d = [do |-> "record", first |-> NoneYet]
  OBVIOUS
<1>2. /\ clientCall[c] # NoCall /\ clientCall[c].do = "look"
      /\ d \in ClientCalls \cup {NoCall} /\ d # NoCall /\ Then(c, d)
      /\ d.do = "record" /\ (d.first <=> firsts = 0)
      /\ UNCHANGED <<onboardingStep, onboardingStatus, notices, completed, asset, approvals, firsts,
                     callFaults, overwritten>>
  <2>1. d \in ClientCalls /\ d.do = "record" /\ (d.first <=> firsts = 0)
    BY <1>1 DEF NoneYet, ClientCalls
  <2>. QED BY <1>1, <2>1, ActivationAssumption DEF LookForFirst, Calling, onboardingVars
<1>3. /\ raced' \in BOOLEAN /\ (raced => raced')
      /\ firsts = 0 /\ ~raced' => \A x \in Clients \ {c} : ~Firsting(x)
  BY DEF LookForFirst, NoneYet, Firsting, ActivationInv, ActivationTypeOK
<1>4. /\ clientCall' \in [Clients -> ClientCalls \cup {NoCall}] /\ clientCall'[c] = d
      /\ \A x \in Clients \ {c} : clientCall'[x] = clientCall[x]
  BY <1>2, ClientMoves
<1>5. ActivationTypeOK'
  BY <1>2, <1>3, <1>4 DEF ActivationInv, ActivationTypeOK
<1>6. ClientsHold'
  <2>1. ClientHolds(c)'
    BY <1>2, <1>4 DEF ClientHolds, ActivationInv, ActivationTypeOK
  <2>. QED BY <1>2, <2>1, ClientsStillHold
<1>7. CompletionAnnounced'
  BY <1>2, OnboardingKept DEF onboardingVars, Calling
<1>8. \A x \in Clients : Calling(x, "first")' = Calling(x, "first")
  BY <1>2, <1>4 DEF Calling
<1>9. FirstsCounted' /\ FirstApprovalOnce'
  <2>1. Recorders' = Recorders
    BY <1>8 DEF Recorders
  <2>. QED BY <1>2, <1>3, <1>8, <2>1 DEF ActivationInv, FirstsCounted, FirstApprovalOnce
<1>10. OneFirst'
  <2>1. \A x \in Clients \ {c} : Firsting(x)' = Firsting(x)
    BY <1>4 DEF Firsting, Calling
  <2>2. Firsting(c)' => firsts = 0
    BY <1>2, <1>4 DEF Firsting, Calling
  <2>. QED BY <1>2, <1>3, <2>1, <2>2 DEF ActivationInv, OneFirst
<1>. QED BY <1>5, <1>6, <1>7, <1>9, <1>10 DEF ActivationInv

\* An approval, or a lost insert, is counted.
LEMMA OneCounted ==
  ASSUME NEW f \in Nat, NEW a \in Nat, NEW k \in Nat, NEW x \in Nat, NEW y \in Nat, f <= a + k,
         (x = a + 1 /\ y = k) \/ (x = a /\ y = k + 1)
  PROVE  f \in 0..x + y
OBVIOUS

LEMMA TrackApprovalKeeps ==
  ASSUME ActivationInv, NEW c \in Clients, TrackApproval(c) PROVE ActivationInv'
<1>1. PICK d : d = IF clientCall[c].first THEN [do |-> "first"] ELSE NoCall
  OBVIOUS
<1>2. /\ clientCall[c] # NoCall /\ clientCall[c].do = "record" /\ clientCall[c].first \in BOOLEAN
      /\ ~clientCall[c].first => firsts > 0
  BY ClientCallType DEF TrackApproval, Calling, ActivationInv, ActivationTypeOK, ClientsHold, ClientHolds
<1>3. /\ d \in ClientCalls \cup {NoCall} /\ Then(c, d)
      /\ clientCall[c].first => d # NoCall /\ d.do = "first"
      /\ ~clientCall[c].first => d = NoCall
      /\ UNCHANGED <<onboardingStep, onboardingStatus, notices, completed, asset, firsts, raced,
                     overwritten>>
  BY <1>1, <1>2, ActivationAssumption DEF TrackApproval, ClientCalls, onboardingVars
<1>4. /\ approvals' \in 0..MaxApprovals /\ callFaults' \in 0..MaxCallFaults
      /\ approvals' \in Nat /\ callFaults' \in Nat
  BY ActivationAssumption DEF TrackApproval, Fault, ActivationInv, ActivationTypeOK
<1>5. /\ firsts' = firsts /\ firsts \in Nat /\ approvals \in Nat /\ callFaults \in Nat
      /\ callFaults' \in {callFaults, callFaults + 1}
      /\ \/ approvals' = approvals + 1 /\ callFaults' = callFaults
         \/ approvals' = approvals /\ callFaults' = callFaults + 1
  BY ActivationAssumption DEF TrackApproval, Fault, ActivationInv, ActivationTypeOK
<1>6. /\ clientCall' \in [Clients -> ClientCalls \cup {NoCall}] /\ clientCall'[c] = d
      /\ \A x \in Clients \ {c} : clientCall'[x] = clientCall[x]
  BY <1>3, ClientMoves
<1>7. ActivationTypeOK'
  <2>1. firsts <= approvals + callFaults
    BY DEF ActivationInv, ActivationTypeOK
  <2>2. firsts' \in 0..approvals' + callFaults'
    BY <1>4, <1>5, <2>1, OneCounted
  <2>3. UNCHANGED <<onboardingStep, onboardingStatus, notices, completed, asset, raced, overwritten>>
    BY <1>3
  <2>. QED BY <1>4, <1>6, <2>2, <2>3 DEF ActivationInv, ActivationTypeOK
<1>8. ClientsHold'
  <2>1. d # NoCall => ClientHolds(c)'
    BY <1>3, <1>6 DEF ClientHolds
  <2>. QED BY <1>3, <2>1, ClientsStillHold
<1>9. CompletionAnnounced'
  BY <1>2, <1>3, <1>5, OnboardingKept DEF onboardingVars, Calling
<1>10. /\ \A x \in Clients \ {c} : Calling(x, "first")' = Calling(x, "first") /\ Firsting(x)' = Firsting(x)
      /\ ~Calling(c, "first") /\ Calling(c, "first")' = clientCall[c].first
      /\ Firsting(c)' = clientCall[c].first /\ Firsting(c) = clientCall[c].first
  BY <1>2, <1>3, <1>6 DEF Calling, Firsting
<1>11. FirstsCounted'
  <2>1. Recorders' = Recorders \/ (Recorders' = Recorders \cup {c} /\ c \notin Recorders)
    BY <1>10 DEF Recorders
  <2>2. IsFiniteSet(Recorders) /\ firsts + Cardinality(Recorders) <= approvals + callFaults
    BY DEF ActivationInv, FirstsCounted
  <2>3. IsFiniteSet(Recorders \cup {c}) /\ Cardinality(Recorders) \in Nat
        /\ (c \notin Recorders => Cardinality(Recorders \cup {c}) = Cardinality(Recorders) + 1)
    BY <2>2, OneMore, FS_CardinalityType
  <2>5. CASE Recorders' = Recorders
    BY <1>4, <1>5, <2>2, <2>3, <2>5 DEF FirstsCounted
  <2>6. CASE Recorders' = Recorders \cup {c} /\ c \notin Recorders
    BY <1>4, <1>5, <2>2, <2>3, <2>6 DEF FirstsCounted
  <2>. QED BY <2>1, <2>5, <2>6
<1>12. OneFirst'
  BY <1>3, <1>10 DEF ActivationInv, OneFirst
<1>13. FirstApprovalOnce'
  <2>1. callFaults' = 0 => callFaults = 0
    BY <1>5
  <2>. QED BY <1>2, <1>3, <1>10, <2>1 DEF ActivationInv, FirstApprovalOnce
<1>. QED BY <1>7, <1>8, <1>9, <1>11, <1>12, <1>13 DEF ActivationInv

\* The one that records the first was alone, or raced.
LEMMA TrackFirstKeeps == ASSUME ActivationInv, NEW c \in Clients, TrackFirst(c) PROVE ActivationInv'
<1>1. /\ clientCall[c] # NoCall /\ clientCall[c].do = "first" /\ Calling(c, "first") /\ Firsting(c)
      /\ Then(c, NoCall)
      /\ UNCHANGED <<onboardingStep, onboardingStatus, notices, completed, asset, approvals, raced,
                     overwritten>>
  BY DEF TrackFirst, Calling, Firsting, onboardingVars
<1>2. /\ \/ firsts' = firsts + 1 /\ callFaults' = callFaults
         \/ firsts' = firsts /\ callFaults' = callFaults + 1
      /\ callFaults' \in 0..MaxCallFaults /\ callFaults' \in {callFaults, callFaults + 1}
  BY ActivationAssumption DEF TrackFirst, Fault, ActivationInv, ActivationTypeOK
<1>3. /\ clientCall' \in [Clients -> ClientCalls \cup {NoCall}] /\ clientCall'[c] = NoCall
      /\ \A x \in Clients \ {c} : clientCall'[x] = clientCall[x]
  BY <1>1, ClientMoves
<1>4. /\ ~Calling(c, "first")' /\ ~Firsting(c)'
      /\ \A x \in Clients \ {c} : Calling(x, "first")' = Calling(x, "first") /\ Firsting(x)' = Firsting(x)
  BY <1>3 DEF Calling, Firsting
<1>5. firsts \in Nat /\ approvals \in Nat /\ callFaults \in Nat
  BY DEF ActivationInv, ActivationTypeOK
<1>6. FirstsCounted' /\ firsts' <= approvals + callFaults'
  <2>1. Recorders' = Recorders \ {c} /\ c \in Recorders
    BY <1>1, <1>4 DEF Recorders
  <2>2. IsFiniteSet(Recorders) /\ firsts + Cardinality(Recorders) <= approvals + callFaults
    BY DEF ActivationInv, FirstsCounted
  <2>3. /\ IsFiniteSet(Recorders \ {c}) /\ Cardinality(Recorders) \in Nat
        /\ Cardinality(Recorders \ {c}) \in Nat
        /\ Cardinality(Recorders \ {c}) = Cardinality(Recorders) - 1
    BY <2>1, <2>2, OneFewer, FS_CardinalityType
  <2>4. firsts' + Cardinality(Recorders \ {c}) <= approvals + callFaults'
        /\ firsts' <= approvals + callFaults'
    BY <1>2, <1>5, <2>2, <2>3
  <2>. QED BY <1>1, <2>1, <2>3, <2>4 DEF FirstsCounted
<1>7. ActivationTypeOK'
  <2>1. firsts' \in 0..approvals' + callFaults'
    BY <1>1, <1>2, <1>5, <1>6
  <2>. QED BY <1>1, <1>2, <1>3, <2>1 DEF ActivationInv, ActivationTypeOK
<1>8. ClientsHold'
  BY <1>1, <1>2, <1>5, ClientsStillHold
<1>9. CompletionAnnounced'
  BY <1>1, <1>2, OnboardingKept DEF onboardingVars, Calling
<1>10. OneFirst' /\ FirstApprovalOnce'
  <2>1. ~raced => firsts = 0 /\ \A x \in Clients \ {c} : ~Firsting(x)
    BY <1>1 DEF ActivationInv, OneFirst
  <2>2. OneFirst'
    BY <1>1, <1>4, <2>1 DEF OneFirst
  <2>3. callFaults' = 0 => firsts' > 0
    BY <1>2, <1>5
  <2>4. raced' \/ firsts' <= 1
    BY <1>1, <1>2, <1>5, <2>1
  <2>. QED BY <2>2, <2>3, <2>4 DEF FirstApprovalOnce
<1>. QED BY <1>6, <1>7, <1>8, <1>9, <1>10 DEF ActivationInv

LEMMA CutCallKeeps == ASSUME ActivationInv, NEW c \in Clients, CutCall(c) PROVE ActivationInv'
<1>1. /\ Then(c, NoCall) /\ callFaults' = callFaults + 1 /\ callFaults' \in 0..MaxCallFaults
      /\ callFaults' # callFaults
      /\ UNCHANGED <<onboardingStep, onboardingStatus, notices, completed, asset, approvals, firsts,
                     raced, overwritten>>
  BY ActivationAssumption
     DEF CutCall, Fault, onboardingVars, assetVars, ActivationInv, ActivationTypeOK
<1>2. clientCall' \in [Clients -> ClientCalls \cup {NoCall}]
  BY <1>1, ClientMoves
<1>3. ActivationTypeOK'
  <2>1. firsts' \in 0..approvals' + callFaults'
    BY <1>1 DEF ActivationInv, ActivationTypeOK
  <2>. QED BY <1>1, <1>2, <2>1 DEF ActivationInv, ActivationTypeOK
<1>4. ClientsHold'
  BY <1>1, ClientsStillHold
<1>5. CompletionAnnounced'
  BY <1>1, OnboardingKept DEF onboardingVars
<1>6. FirstsCounted' /\ OneFirst' /\ FirstApprovalOnce'
  BY <1>1, ApprovalsKept
<1>. QED BY <1>3, <1>4, <1>5, <1>6 DEF ActivationInv

LEMMA ActivationStart == ActivationInit => ActivationInv
<1>. SUFFICES ASSUME ActivationInit PROVE ActivationInv
  OBVIOUS
<1>. USE DEF ActivationInit
<1>1. ActivationTypeOK
  <2>1. /\ asset \in [Assets -> AssetStatuses] /\ clientCall \in [Clients -> ClientCalls \cup {NoCall}]
        /\ onboardingStep \in 0..LastStep
    BY DEF AssetStatuses, LastStep
  <2>2. 0 \in 0..MaxApprovals /\ 0 \in 0..MaxCallFaults /\ 0 \in 0..1 /\ 0 \in 0..0 + 0
    BY ActivationAssumption
  <2>. QED BY <2>1, <2>2 DEF ActivationTypeOK
<1>2. Recorders = {}
  BY DEF Recorders, Calling
<1>3. FirstsCounted
  <2>1. IsFiniteSet({}) /\ Cardinality({}) = 0
    BY FS_EmptySet
  <2>. QED BY <1>2, <2>1 DEF FirstsCounted
<1>4. ClientsHold /\ OneFirst /\ CompletionAnnounced /\ FirstApprovalOnce
  BY DEF ClientsHold, OneFirst, Firsting, Calling, CompletionAnnounced, FirstApprovalOnce
<1>. QED BY <1>1, <1>3, <1>4 DEF ActivationInv

LEMMA ActivationStepKeeps == ActivationInv /\ [ActivationStep]_activationVars => ActivationInv'
<1>1. ASSUME ActivationInv, UNCHANGED activationVars PROVE ActivationInv'
  <2>1. /\ UNCHANGED <<onboardingStep, onboardingStatus, notices, completed, asset, approvals, firsts>>
        /\ UNCHANGED <<raced, clientCall, callFaults, overwritten>>
    BY <1>1 DEF activationVars, onboardingVars, assetVars
  <2>2. ActivationTypeOK' /\ ClientsHold'
    BY <1>1, <2>1 DEF ActivationInv, ActivationTypeOK, ClientsHold, ClientHolds
  <2>3. FirstsCounted' /\ OneFirst'
    BY <1>1, <2>1 DEF ActivationInv, FirstsCounted, Recorders, OneFirst, Firsting, Calling
  <2>4. CompletionAnnounced' /\ FirstApprovalOnce'
    BY <1>1, <2>1 DEF ActivationInv, CompletionAnnounced, FirstApprovalOnce, Calling
  <2>. QED BY <2>2, <2>3, <2>4 DEF ActivationInv
<1>. QED BY <1>1, ReadStepKeeps, ReadStatusKeeps, ReadAssetKeeps, WriteStepKeeps, NotifyKeeps,
            TrackCompletionKeeps, WriteSkipKeeps, WriteAssetKeeps, LookForFirstKeeps,
            TrackApprovalKeeps, TrackFirstKeeps, CutCallKeeps DEF ActivationStep, CallGoesOn

\* A step of the onboarding goes forward, and a review follows the transitions, but for the
\* write of a request whose value was overtaken; that request moves on with it.
LEMMA ActivationStepsForward ==
  ActivationInv /\ [ActivationStep]_activationVars => StepsForward /\ WalksBack
<1>. SUFFICES ASSUME ActivationInv, [ActivationStep]_activationVars PROVE StepsForward /\ WalksBack
  OBVIOUS
<1>1. onboardingStep \in Int /\ asset \in [Assets -> AssetStatuses]
  BY DEF ActivationInv, ActivationTypeOK
<1>2. CASE UNCHANGED <<onboardingStep, onboardingStatus, asset>>
  BY <1>1, <1>2 DEF AssetStatuses, StepsForward, WalksBack
<1>3. ASSUME NEW c \in Clients, WriteStep(c) PROVE StepsForward /\ WalksBack
  <2>1. /\ clientCall[c].was < clientCall[c].to /\ Calling(c, "advance")
        /\ clientCall[c].was \in 0..LastStep /\ clientCall[c].to \in 0..LastStep
    BY <1>3, ClientCallType
       DEF WriteStep, Calling, ActivationInv, ActivationTypeOK, ClientsHold, ClientHolds
  <2>2. clientCall[c].to > onboardingStep \/ Outdated(c)
    BY <1>1, <2>1 DEF Outdated
  <2>3. /\ onboardingStep' = clientCall[c].to /\ asset' = asset
        /\ onboardingStatus = "COMPLETED" => onboardingStatus' = "COMPLETED"
    BY <1>3 DEF WriteStep, assetVars
  <2>4. clientCall'[c] # clientCall[c]
    <3>1. PICK d : d = IF clientCall[c].to = LastStep THEN [do |-> "notify"] ELSE NoCall
      OBVIOUS
    <3>2. d \in ClientCalls \cup {NoCall} /\ Then(c, d) /\ (d = NoCall \/ d.do = "notify")
      BY <1>3, <3>1 DEF WriteStep, ClientCalls
    <3>3. clientCall'[c] = d
      BY <3>2, ClientMoves
    <3>. QED BY <2>1, <3>2, <3>3 DEF Calling
  <2>. QED BY <1>1, <2>1, <2>2, <2>3, <2>4 DEF StepsForward, WalksBack, AssetStatuses
<1>4. ASSUME NEW c \in Clients, WriteSkip(c) PROVE StepsForward /\ WalksBack
  <2>1. /\ onboardingStep' = onboardingStep /\ asset' = asset
        /\ Calling(c, "skip") /\ clientCall[c].was = "IN_PROGRESS" /\ Then(c, NoCall)
    BY <1>4 DEF WriteSkip, Calling, assetVars, ActivationInv, ClientsHold, ClientHolds
  <2>2. clientCall'[c] # clientCall[c]
    BY <2>1, ClientMoves DEF Calling
  <2>3. onboardingStatus = "COMPLETED" => Outdated(c)
    BY <2>1 DEF Outdated
  <2>. QED BY <1>1, <2>1, <2>2, <2>3 DEF StepsForward, WalksBack
<1>5. ASSUME NEW c \in Clients, WriteAsset(c) PROVE StepsForward /\ WalksBack
  <2>1. clientCall[c].to \in NextReviews(clientCall[c].was) /\ Calling(c, "review")
    BY <1>5 DEF WriteAsset, Calling, ActivationInv, ClientsHold, ClientHolds
  <2>2. clientCall[c].was = "APPROVED" => clientCall[c].to # "DRAFT"
    BY <2>1 DEF NextReviews
  <2>3. /\ asset' = [asset EXCEPT ![clientCall[c].on] = clientCall[c].to]
        /\ onboardingStep' = onboardingStep /\ onboardingStatus' = onboardingStatus
    BY <1>5 DEF WriteAsset, onboardingVars
  <2>4. clientCall'[c] # clientCall[c]
    <3>1. PICK d : d = IF clientCall[c].to = "APPROVED" THEN [do |-> "look"] ELSE NoCall
      OBVIOUS
    <3>2. d \in ClientCalls \cup {NoCall} /\ Then(c, d) /\ (d = NoCall \/ d.do = "look")
      BY <1>5, <3>1 DEF WriteAsset, ClientCalls
    <3>3. clientCall'[c] = d
      BY <3>2, ClientMoves
    <3>. QED BY <2>1, <3>2, <3>3 DEF Calling
  <2>5. ASSUME NEW a \in Assets, asset[a] = "APPROVED", asset'[a] = "DRAFT"
        PROVE  clientCall[c].on = a /\ Outdated(c)
    <3>1. clientCall[c].on = a /\ clientCall[c].to = "DRAFT"
      BY <1>1, <2>3, <2>5
    <3>. QED BY <2>1, <2>2, <2>5, <3>1 DEF Outdated
  <2>. QED BY <1>1, <2>1, <2>3, <2>4, <2>5 DEF StepsForward, WalksBack
<1>6. \/ UNCHANGED <<onboardingStep, onboardingStatus, asset>>
      \/ \E c \in Clients : WriteStep(c) \/ WriteSkip(c) \/ WriteAsset(c)
  BY DEF ActivationStep, CallGoesOn, activationVars, onboardingVars, assetVars, ReadStep, ReadStatus,
         ReadAsset, Notify, TrackCompletion, LookForFirst, TrackApproval, TrackFirst, CutCall
<1>. QED BY <1>2, <1>3, <1>4, <1>5, <1>6

-------------------------------------------------------------------------------
(***************************************************************************)
(* The sessions of an account, and its browser.                            *)
(***************************************************************************)

\* The requests about to add a session, and about to change the password, have room to.
Busy(ops) == {c \in Callers : call[c] # None /\ call[c].op \in ops}
Issuing == {"create", "issue", "revoke"}
Changing == {"hash", "claim"}
RoomKept ==
  /\ IsFiniteSet(Busy(Issuing)) /\ sessions + Cardinality(Busy(Issuing)) <= MaxSessions
  /\ IsFiniteSet(Busy(Changing)) /\ password + Cardinality(Busy(Changing)) <= MaxPasswords

\* What a request has read: a session it is about to issue rests on a password no older
\* than the one enforced, unless a revocation of all sessions overtook it; the token it
\* exchanges is revoked by then.
CallHolds(d) ==
  /\ d.op = "create" \/ account
  /\ d.id <= sessions /\ d.kills <= kills
  /\ d.op = "create" => d.id = 0
  /\ d.op = "revoke" => d.id # 0
  /\ d.via # "other" => d.op \in {"issue", "revoke", "done"}
  /\ d.op = "done" => d.via # "other"
  /\ d.op = "claim" => d.token \in 1..resets
  /\ d.op = "kill" => d.cred <= password
  /\ d.op \in Issuing /\ d.kills = kills /\ d.id \notin late => d.cred >= enforced
  /\ d.op = "issue" /\ d.id # 0 => d.id \in revoked
CallsHold == \A c \in Callers : call[c] # None => CallHolds(call[c])

\* The newest password is enforced, or about to be.
Enforcing(c) == At(c, "kill") /\ call[c].cred = password
EnforcementComes == crashes = 0 => enforced = password \/ \E c \in Callers : Enforcing(c)

\* A reset token that has not been claimed has changed nothing.
UnusedIsUnspent == \A t \in Tokens : t \notin used => spent[t] = 0

AuthInv ==
  /\ AuthTypeOK /\ RoomKept /\ CallsHold /\ EnforcementComes /\ UnusedIsUnspent
  /\ OldSessionsEnd /\ ExchangedIsRevoked /\ ResetOnce

\* The stored token, unless it is being refreshed, and every new one on its way to the
\* store have not been presented; and each is another.
Got(c) == At(c, "done") /\ call[c].got # 0
StoreIsNew == flight = None /\ store # None => store \notin presented
GotIsNew ==
  \A c \in Callers : Got(c) =>
    /\ call[c].got <= sessions /\ call[c].got \notin presented /\ call[c].got # store
    /\ \A d \in Callers : Got(d) /\ call[d].got = call[c].got => d = c

TabInv == BrowserTypeOK /\ StoreIsNew /\ GotIsNew

\* What a step of a request leaves: nothing is taken back, and what is enforced changes
\* only with a revocation of all sessions.
Grows ==
  /\ account => account'
  /\ sessions <= sessions' /\ resets <= resets' /\ password <= password' /\ kills <= kills'
  /\ revoked \subseteq revoked' /\ late \subseteq late'
  /\ enforced' = enforced \/ kills < kills'
Weight(d, ops) == IF d # None /\ d.op \in ops THEN 1 ELSE 0

LEMMA CallMoves ==
  ASSUME AuthInv, NEW c \in Callers, NEW d \in AuthCalls \cup {None}, Do(c, d)
  PROVE  /\ call' \in [Callers -> AuthCalls \cup {None}] /\ call'[c] = d
         /\ \A x \in Callers \ {c} : call'[x] = call[x]
  BY DEF AuthInv, AuthTypeOK, Do

\* The bounds of the tables.
LEMMA CountsType ==
  ASSUME AuthInv
  PROVE  /\ sessions \in Nat /\ password \in Nat /\ resets \in Nat /\ kills \in Nat /\ enforced \in Nat
         /\ enforced <= password /\ password <= MaxPasswords /\ sessions <= MaxSessions
         /\ MaxSessions \in Nat /\ MaxPasswords \in Nat /\ crashes \in Nat
  BY AuthAssumption DEF AuthInv, AuthTypeOK, Passwords

LEMMA BusyMoves ==
  ASSUME AuthInv, NEW c \in Callers, NEW d \in AuthCalls \cup {None}, Do(c, d)
  PROVE  \A ops : IsFiniteSet(Busy(ops)) =>
           /\ IsFiniteSet(Busy(ops)') /\ Cardinality(Busy(ops)') \in Nat /\ Cardinality(Busy(ops)) \in Nat
           /\ Cardinality(Busy(ops)') + Weight(call[c], ops) = Cardinality(Busy(ops)) + Weight(d, ops)
<1>1. TAKE ops
<1>2. HAVE IsFiniteSet(Busy(ops))
<1>3. call'[c] = d /\ \A x \in Callers \ {c} : call'[x] = call[x]
  BY CallMoves
<1>4. Cardinality(Busy(ops)) \in Nat
  BY <1>2, FS_CardinalityType
<1>5. c \in Busy(ops) <=> Weight(call[c], ops) = 1
  BY DEF Busy, Weight
<1>6. Weight(call[c], ops) \in {0, 1} /\ Weight(d, ops) \in {0, 1}
  BY DEF Weight
<1>7. CASE Weight(d, ops) = 1
  <2>1. Busy(ops)' = Busy(ops) \cup {c}
    BY <1>3, <1>7 DEF Busy, Weight
  <2>2. /\ IsFiniteSet(Busy(ops) \cup {c}) /\ Cardinality(Busy(ops) \cup {c}) \in Nat
        /\ Cardinality(Busy(ops) \cup {c}) =
             IF c \in Busy(ops) THEN Cardinality(Busy(ops)) ELSE Cardinality(Busy(ops)) + 1
    BY <1>2, OneMore
  <2>. QED BY <1>4, <1>5, <1>6, <1>7, <2>1, <2>2
<1>8. CASE Weight(d, ops) = 0
  <2>1. Busy(ops)' = Busy(ops) \ {c}
    BY <1>3, <1>8 DEF Busy, Weight
  <2>2. /\ IsFiniteSet(Busy(ops) \ {c}) /\ Cardinality(Busy(ops) \ {c}) \in Nat
        /\ Cardinality(Busy(ops) \ {c}) =
             IF c \in Busy(ops) THEN Cardinality(Busy(ops)) - 1 ELSE Cardinality(Busy(ops))
    BY <1>2, OneFewer
  <2>. QED BY <1>4, <1>5, <1>6, <1>8, <2>1, <2>2
<1>. QED BY <1>6, <1>7, <1>8

\* A request that begins has found room; one that goes on keeps its own.
LEMMA RoomStillKept ==
  ASSUME AuthInv, NEW c \in Callers, NEW d \in AuthCalls \cup {None}, Do(c, d),
         sessions' \in Nat, password' \in Nat,
         \/ sessions' + Weight(d, Issuing) <= sessions + Weight(call[c], Issuing)
         \/ sessions' = sessions /\ RoomToIssue,
         \/ password' + Weight(d, Changing) <= password + Weight(call[c], Changing)
         \/ password' = password /\ RoomToChange
  PROVE  RoomKept'
<1>1. /\ IsFiniteSet(Busy(Issuing)) /\ sessions + Cardinality(Busy(Issuing)) <= MaxSessions
      /\ IsFiniteSet(Busy(Changing)) /\ password + Cardinality(Busy(Changing)) <= MaxPasswords
  BY DEF AuthInv, RoomKept
<1>2. /\ Going({"create", "issue", "revoke"}) = Cardinality(Busy(Issuing))
      /\ Going({"hash", "claim"}) = Cardinality(Busy(Changing))
  BY DEF Going, Busy, Issuing, Changing
<1>3. \A ops : Weight(call[c], ops) \in {0, 1} /\ Weight(d, ops) \in {0, 1}
  BY DEF Weight
<1>4. PICK I : I = Issuing
  OBVIOUS
<1>5. PICK C : C = Changing
  OBVIOUS
<1>6. /\ IsFiniteSet(Busy(I)') /\ Cardinality(Busy(I)') \in Nat /\ Cardinality(Busy(I)) \in Nat
      /\ Cardinality(Busy(I)') + Weight(call[c], I) = Cardinality(Busy(I)) + Weight(d, I)
  BY <1>1, <1>4, BusyMoves
<1>7. /\ IsFiniteSet(Busy(C)') /\ Cardinality(Busy(C)') \in Nat /\ Cardinality(Busy(C)) \in Nat
      /\ Cardinality(Busy(C)') + Weight(call[c], C) = Cardinality(Busy(C)) + Weight(d, C)
  BY <1>1, <1>5, BusyMoves
<1>8. sessions' + Cardinality(Busy(I)') <= MaxSessions
  <2>1. \/ sessions' + Weight(d, I) <= sessions + Weight(call[c], I)
        \/ sessions' = sessions /\ sessions + Cardinality(Busy(I)) < MaxSessions
    BY <1>2, <1>4 DEF RoomToIssue
  <2>. QED BY <1>1, <1>3, <1>4, <1>6, <2>1, CountsType
<1>9. password' + Cardinality(Busy(C)') <= MaxPasswords
  <2>1. \/ password' + Weight(d, C) <= password + Weight(call[c], C)
        \/ password' = password /\ password + Cardinality(Busy(C)) < MaxPasswords
    BY <1>2, <1>5 DEF RoomToChange
  <2>. QED BY <1>1, <1>3, <1>5, <1>7, <2>1, CountsType
<1>10. Busy(Issuing)' = Busy(I)' /\ Busy(Changing)' = Busy(C)'
  BY <1>4, <1>5 DEF Busy, Issuing, Changing
<1>. QED BY <1>6, <1>7, <1>8, <1>9, <1>10 DEF RoomKept

\* What a request has read stays so.
LEMMA HoldsStays ==
  ASSUME AuthInv, Grows, sessions' \in Nat, kills' \in Nat, password' \in Nat, resets' \in Nat,
         NEW y \in AuthCalls, CallHolds(y)
  PROVE  CallHolds(y)'
<1>1. y.id \in Nat /\ y.token \in Int /\ y.cred \in Nat /\ y.kills \in Nat
  BY AuthAssumption DEF AuthCalls, Passwords, Tokens
<1>2. /\ y.id <= sessions' /\ y.kills <= kills'
      /\ y.op = "kill" => y.cred <= password'
      /\ y.op = "claim" => y.token \in 1..resets'
  BY <1>1, CountsType DEF CallHolds, Grows
<1>3. y.op \in Issuing /\ y.kills = kills' /\ y.id \notin late' => y.cred >= enforced'
  BY <1>1, CountsType DEF CallHolds, Grows
<1>. QED BY <1>2, <1>3 DEF CallHolds, Grows

LEMMA CallsStillHold ==
  ASSUME AuthInv, NEW c \in Callers, NEW d \in AuthCalls \cup {None}, Do(c, d), Grows,
         d # None => CallHolds(d)',
         sessions' \in Nat, kills' \in Nat, password' \in Nat, resets' \in Nat
  PROVE  CallsHold'
<1>1. call'[c] = d /\ \A x \in Callers \ {c} : call'[x] = call[x]
  BY CallMoves
<1>2. ASSUME NEW x \in Callers, call'[x] # None PROVE CallHolds(call[x])'
  <2>1. CASE x = c
    BY <1>1, <1>2, <2>1 DEF CallHolds
  <2>2. CASE x # c
    <3>1. PICK y \in AuthCalls : y = call[x]
      BY <1>1, <1>2, <2>2 DEF AuthInv, AuthTypeOK
    <3>2. CallHolds(y)'
      BY <1>1, <1>2, <2>2, <3>1, HoldsStays DEF AuthInv, CallsHold
    <3>. QED BY <1>1, <2>2, <3>1, <3>2 DEF CallHolds
  <2>. QED BY <2>1, <2>2
<1>. QED BY <1>2 DEF CallsHold

LEMMA CallsHoldByThemselves ==
  ASSUME AuthInv, Grows, UNCHANGED call,
         sessions' \in Nat, kills' \in Nat, password' \in Nat, resets' \in Nat
  PROVE  CallsHold'
<1>1. ASSUME NEW x \in Callers, call'[x] # None PROVE CallHolds(call[x])'
  <2>1. PICK y \in AuthCalls : y = call[x]
    BY <1>1 DEF AuthInv, AuthTypeOK
  <2>2. CallHolds(y)'
    BY <1>1, <2>1, HoldsStays DEF AuthInv, CallsHold
  <2>. QED BY <2>1, <2>2 DEF CallHolds
<1>. QED BY <1>1 DEF CallsHold

LEMMA EnforcementStillComes ==
  ASSUME AuthInv, NEW c \in Callers, NEW d \in AuthCalls \cup {None}, Do(c, d),
         UNCHANGED <<password, enforced>>, crashes' = 0 => crashes = 0 /\ ~At(c, "kill")
  PROVE  EnforcementComes'
<1>1. \A x \in Callers \ {c} : call'[x] = call[x]
  BY CallMoves
<1>2. \A x \in Callers : Enforcing(x) /\ ~At(c, "kill") => Enforcing(x)'
  BY <1>1 DEF Enforcing, At
<1>. QED BY <1>2 DEF AuthInv, EnforcementComes

\* Sessions that end, with none added, rest on what they did.
LEMMA SessionsStillEnd ==
  ASSUME AuthInv, UNCHANGED <<sessions, parent, cred, late, enforced>>,
         revoked \subseteq revoked', overdue \subseteq overdue'
  PROVE  OldSessionsEnd' /\ ExchangedIsRevoked'
<1>1. Live' \subseteq Live
  BY DEF Live, Refreshable
<1>. QED BY <1>1 DEF AuthInv, OldSessionsEnd, ExchangedIsRevoked

\* A step that only moves the request.
LEMMA CallGoesOnKeeps ==
  ASSUME AuthInv, NEW c \in Callers, NEW d \in AuthCalls \cup {None}, Do(c, d),
         UNCHANGED <<account, password, sessionVars, resetVars, killVars, crashes>>,
         d # None => CallHolds(d), ~At(c, "kill"),
         Weight(d, Issuing) <= Weight(call[c], Issuing) \/ RoomToIssue,
         Weight(d, Changing) <= Weight(call[c], Changing) \/ RoomToChange
  PROVE  AuthInv'
<1>1. /\ UNCHANGED <<account, password, sessions, revoked, overdue, parent, cred, late>>
      /\ UNCHANGED <<resets, used, lapsed, spent, kills, enforced, crashes>>
  BY DEF sessionVars, resetVars, killVars
<1>2. AuthTypeOK'
  BY <1>1, CallMoves DEF AuthInv, AuthTypeOK
<1>3. RoomKept'
  <2>1. \A ops : Weight(call[c], ops) \in {0, 1} /\ Weight(d, ops) \in {0, 1}
    BY DEF Weight
  <2>2. /\ \/ sessions' + Weight(d, Issuing) <= sessions + Weight(call[c], Issuing)
           \/ sessions' = sessions /\ RoomToIssue
        /\ \/ password' + Weight(d, Changing) <= password + Weight(call[c], Changing)
           \/ password' = password /\ RoomToChange
    BY <1>1, <2>1, CountsType
  <2>. QED BY <1>1, <2>2, CountsType, RoomStillKept
<1>4. CallsHold'
  <2>1. Grows
    BY <1>1, CountsType DEF Grows
  <2>2. d # None => CallHolds(d)'
    BY <1>1 DEF CallHolds
  <2>. QED BY <1>1, <2>1, <2>2, CountsType, CallsStillHold
<1>5. EnforcementComes'
  BY <1>1, EnforcementStillComes
<1>6. OldSessionsEnd' /\ ExchangedIsRevoked'
  BY <1>1, SessionsStillEnd
<1>7. UnusedIsUnspent' /\ ResetOnce'
  BY <1>1 DEF AuthInv, UnusedIsUnspent, ResetOnce
<1>. QED BY <1>2, <1>3, <1>4, <1>5, <1>6, <1>7 DEF AuthInv

\* A request that begins, with the newest password and no revocation since.
LEMMA FreshHolds ==
  ASSUME AuthInv
  PROVE  /\ Fresh \in AuthCalls
         /\ Fresh.op = "create" /\ Fresh.id = 0 /\ Fresh.token = 0 /\ Fresh.cred = password
         /\ Fresh.kills = kills /\ Fresh.via = "other" /\ Fresh.got = 0
<1>1. /\ 0 \in 0..MaxSessions /\ 0 \in Tokens \cup {0} /\ password \in Passwords /\ kills \in Nat
      /\ "create" \in Ops
  BY AuthAssumption DEF AuthInv, AuthTypeOK, Ops
<1>. QED BY <1>1 DEF Fresh, AuthCalls

\* A call with another operation is the same otherwise.
LEMMA OtherOp ==
  \A x \in AuthCalls : \A o \in Ops : LET y == [x EXCEPT !.op = o] IN
    /\ y \in AuthCalls /\ y.op = o /\ y.id = x.id /\ y.token = x.token /\ y.cred = x.cred
    /\ y.kills = x.kills /\ y.via = x.via /\ y.got = x.got
  BY DEF AuthCalls

LEMMA OtherAnswer ==
  \A x \in AuthCalls : \A i \in 0..MaxSessions : LET y == [x EXCEPT !.op = "done", !.got = i] IN
    /\ y \in AuthCalls /\ y.op = "done" /\ y.id = x.id /\ y.token = x.token /\ y.cred = x.cred
    /\ y.kills = x.kills /\ y.via = x.via /\ y.got = i
  BY DEF AuthCalls, Ops

LEMMA RegisterReadKeeps == ASSUME AuthInv, NEW c \in Callers, RegisterRead(c) PROVE AuthInv'
<1>1. PICK d : d = Fresh
  OBVIOUS
<1>2. /\ d \in AuthCalls /\ d.op = "create" /\ d.id = 0 /\ d.cred = password /\ d.kills = kills
      /\ d.via = "other"
  BY <1>1, FreshHolds
<1>3. CallHolds(d)
  BY <1>2, CountsType DEF CallHolds
<1>4. /\ Do(c, d) /\ call[c] = None /\ RoomToIssue
      /\ UNCHANGED <<account, password, sessionVars, resetVars, killVars, crashes>>
  BY <1>1 DEF RegisterRead
<1>5. ~At(c, "kill") /\ Weight(d, Changing) = 0 /\ Weight(call[c], Changing) = 0
  BY <1>2, <1>4 DEF At, Weight, Changing
<1>6. Weight(d, Changing) <= Weight(call[c], Changing)
  BY <1>5
<1>. QED BY <1>2, <1>3, <1>4, <1>5, <1>6, CallGoesOnKeeps

LEMMA LoginReadKeeps ==
  ASSUME AuthInv, NEW c \in Callers, NEW via \in {"other", "login"}, LoginRead(c, via) PROVE AuthInv'
<1>1. PICK d : d = [Fresh EXCEPT !.op = "issue", !.via = via]
  OBVIOUS
<1>2. /\ d \in AuthCalls /\ d.op = "issue" /\ d.id = 0 /\ d.cred = password /\ d.kills = kills
      /\ d.via = via
  <2>1. \A x \in AuthCalls : LET y == [x EXCEPT !.op = "issue", !.via = via] IN
          /\ y \in AuthCalls /\ y.op = "issue" /\ y.id = x.id /\ y.cred = x.cred
          /\ y.kills = x.kills /\ y.via = via
    BY DEF AuthCalls, Ops
  <2>. QED BY <1>1, <2>1, FreshHolds
<1>3. /\ Do(c, d) /\ call[c] = None /\ account /\ RoomToIssue
      /\ UNCHANGED <<account, password, sessionVars, resetVars, killVars, crashes>>
  BY <1>1 DEF LoginRead, Found
<1>4. CallHolds(d)
  BY <1>2, <1>3, CountsType DEF CallHolds
<1>5. ~At(c, "kill") /\ Weight(d, Changing) = 0 /\ Weight(call[c], Changing) = 0
  BY <1>2, <1>3 DEF At, Weight, Changing
<1>6. Weight(d, Changing) <= Weight(call[c], Changing)
  BY <1>5
<1>. QED BY <1>2, <1>3, <1>4, <1>5, <1>6, CallGoesOnKeeps

\* A token is exchanged while it is good: its session rests on the password enforced.
LEMMA RefreshReadKeeps ==
  ASSUME AuthInv, NEW c \in Callers, NEW i \in 1..sessions, NEW via \in {"other", "tab"},
         RefreshRead(c, i, via)
  PROVE  AuthInv'
<1>1. /\ call[c] = None /\ RoomToIssue
      /\ UNCHANGED <<account, password, sessionVars, resetVars, killVars, crashes>>
  BY DEF RefreshRead
<1>2. i \in Nat /\ i # 0 /\ i <= sessions /\ i \in Rows /\ i \in 0..MaxSessions /\ account
      /\ cred[i] \in Passwords
  <2>1. i \in Nat /\ i # 0 /\ i <= sessions /\ i \in Rows /\ i \in 0..MaxSessions
    BY CountsType DEF Rows
  <2>. QED BY <2>1 DEF AuthInv, AuthTypeOK
<1>3. CASE Refreshable(i)
  <2>1. PICK d : d = [Fresh EXCEPT !.op = RotationStart, !.id = i, !.cred = cred[i], !.via = via]
    OBVIOUS
  <2>2. /\ d \in AuthCalls /\ d.op = "revoke" /\ d.id = i /\ d.cred = cred[i] /\ d.kills = kills
        /\ d.via = via
    <3>1. \A x \in AuthCalls : LET y == [x EXCEPT !.op = "revoke", !.id = i, !.cred = cred[i], !.via = via] IN
            /\ y \in AuthCalls /\ y.op = "revoke" /\ y.id = i /\ y.cred = cred[i]
            /\ y.kills = x.kills /\ y.via = via
      BY <1>2 DEF AuthCalls, Ops
    <3>. QED BY <2>1, <3>1, FreshHolds DEF RotationStart
  <2>3. Do(c, d)
    BY <1>3, <2>1 DEF RefreshRead
  <2>4. i \notin late => cred[i] >= enforced
    BY <1>3 DEF AuthInv, OldSessionsEnd, Live
  <2>5. CallHolds(d)
    BY <1>2, <2>2, <2>4, CountsType DEF CallHolds
  <2>6. ~At(c, "kill") /\ Weight(d, Changing) = 0 /\ Weight(call[c], Changing) = 0
    BY <1>1, <2>2 DEF At, Weight, Changing
  <2>7. Weight(d, Changing) <= Weight(call[c], Changing)
    BY <2>6
  <2>. QED BY <1>1, <2>2, <2>3, <2>5, <2>6, <2>7, CallGoesOnKeeps
<1>4. CASE ~Refreshable(i)
  <2>1. PICK d : d = [Fresh EXCEPT !.op = "done", !.id = i, !.via = via]
    OBVIOUS
  <2>2. d \in AuthCalls /\ d.op = "done" /\ d.id = i /\ d.kills = kills /\ d.via = via
    <3>1. \A x \in AuthCalls : LET y == [x EXCEPT !.op = "done", !.id = i, !.via = via] IN
            y \in AuthCalls /\ y.op = "done" /\ y.id = i /\ y.kills = x.kills /\ y.via = via
      BY <1>2 DEF AuthCalls, Ops
    <3>. QED BY <2>1, <3>1, FreshHolds
  <2>3. Do(c, d) /\ via = "tab"
    BY <1>4, <2>1 DEF RefreshRead
  <2>4. CallHolds(d)
    BY <1>2, <2>2, <2>3, CountsType DEF CallHolds, Issuing
  <2>5. /\ ~At(c, "kill") /\ Weight(d, Changing) = 0 /\ Weight(call[c], Changing) = 0
    BY <1>1, <2>2 DEF At, Weight, Changing
  <2>6. Weight(d, Changing) <= Weight(call[c], Changing)
    BY <2>5
  <2>. QED BY <1>1, <2>2, <2>3, <2>4, <2>5, <2>6, CallGoesOnKeeps
<1>. QED BY <1>3, <1>4

LEMMA ChangeReadKeeps == ASSUME AuthInv, NEW c \in Callers, ChangeRead(c) PROVE AuthInv'
<1>1. PICK d : d = [Fresh EXCEPT !.op = "hash", !.id = sessions]
  OBVIOUS
<1>2. d \in AuthCalls /\ d.op = "hash" /\ d.id = sessions /\ d.kills = kills /\ d.via = "other"
  <2>1. \A x \in AuthCalls : LET y == [x EXCEPT !.op = "hash", !.id = sessions] IN
          y \in AuthCalls /\ y.op = "hash" /\ y.id = sessions /\ y.kills = x.kills /\ y.via = x.via
    BY DEF AuthCalls, Ops, AuthInv, AuthTypeOK
  <2>. QED BY <1>1, <2>1, FreshHolds
<1>3. /\ Do(c, d) /\ call[c] = None /\ account /\ RoomToChange
      /\ UNCHANGED <<account, password, sessionVars, resetVars, killVars, crashes>>
  BY <1>1 DEF ChangeRead, Found
<1>4. CallHolds(d)
  BY <1>2, <1>3, CountsType DEF CallHolds, Issuing
<1>5. ~At(c, "kill") /\ Weight(d, Issuing) = 0 /\ Weight(call[c], Issuing) = 0
  BY <1>2, <1>3 DEF At, Weight, Issuing
<1>6. Weight(d, Issuing) <= Weight(call[c], Issuing)
  BY <1>5
<1>. QED BY <1>2, <1>3, <1>4, <1>5, <1>6, CallGoesOnKeeps

LEMMA ResetReadKeeps ==
  ASSUME AuthInv, NEW c \in Callers, NEW t \in Tokens, ResetRead(c, t) PROVE AuthInv'
<1>1. PICK d : d = [Fresh EXCEPT !.op = "claim", !.token = t, !.id = sessions]
  OBVIOUS
<1>2. /\ d \in AuthCalls /\ d.op = "claim" /\ d.id = sessions /\ d.kills = kills /\ d.via = "other"
      /\ d.token = t
  <2>1. \A x \in AuthCalls : LET y == [x EXCEPT !.op = "claim", !.token = t, !.id = sessions] IN
          /\ y \in AuthCalls /\ y.op = "claim" /\ y.id = sessions /\ y.kills = x.kills /\ y.via = x.via
          /\ y.token = t
    BY DEF AuthCalls, Ops, AuthInv, AuthTypeOK
  <2>. QED BY <1>1, <2>1, FreshHolds
<1>3. /\ Do(c, d) /\ call[c] = None /\ t \in 1..resets /\ RoomToChange
      /\ UNCHANGED <<account, password, sessionVars, resetVars, killVars, crashes>>
  BY <1>1 DEF ResetRead
<1>4. account
  BY <1>3, CountsType DEF AuthInv, AuthTypeOK
<1>5. CallHolds(d)
  BY <1>2, <1>3, <1>4, CountsType DEF CallHolds, Issuing
<1>6. ~At(c, "kill") /\ Weight(d, Issuing) = 0 /\ Weight(call[c], Issuing) = 0
  BY <1>2, <1>3 DEF At, Weight, Issuing
<1>7. Weight(d, Issuing) <= Weight(call[c], Issuing)
  BY <1>6
<1>. QED BY <1>2, <1>3, <1>5, <1>6, <1>7, CallGoesOnKeeps

\* A browser takes its answer.
LEMMA TakeAnswerKeeps ==
  ASSUME AuthInv, NEW c \in Callers, At(c, "done"), Do(c, None),
         UNCHANGED <<account, password, sessionVars, resetVars, killVars, crashes>>
  PROVE  AuthInv'
<1>1. PICK d : d = None
  OBVIOUS
<1>2. ~At(c, "kill") /\ Weight(d, Issuing) = 0 /\ Weight(call[c], Issuing) = 0
      /\ Weight(d, Changing) = 0 /\ Weight(call[c], Changing) = 0
  BY <1>1 DEF At, Weight, Issuing, Changing
<1>3. Weight(d, Issuing) <= Weight(call[c], Issuing) /\ Weight(d, Changing) <= Weight(call[c], Changing)
  BY <1>2
<1>. QED BY <1>1, <1>2, <1>3, CallGoesOnKeeps

\* What an operation under way is.
LEMMA CallIs ==
  ASSUME AuthInv, NEW c \in Callers, call[c] # None
  PROVE  call[c] \in AuthCalls /\ CallHolds(call[c])
  BY DEF AuthInv, AuthTypeOK, CallsHold

\* An answer is taken only by a browser.
LEMMA AnswerIs ==
  ASSUME AuthInv, NEW c \in Callers, call[c] # None, NEW i \in 0..MaxSessions, Answer(c, i)
  PROVE  \E d \in AuthCalls \cup {None} :
           /\ Do(c, d) /\ (d # None => CallHolds(d) /\ d.op = "done" /\ d.via = call[c].via /\ d.got = i)
           /\ d = None <=> call[c].via = "other"
<1>1. PICK x \in AuthCalls : x = call[c] /\ CallHolds(x)
  BY CallIs
<1>2. PICK d : d = IF x.via = "other" THEN None ELSE [x EXCEPT !.op = "done", !.got = i]
  OBVIOUS
<1>3. Do(c, d)
  BY <1>1, <1>2 DEF Answer
<1>4. CASE x.via = "other"
  BY <1>1, <1>2, <1>3, <1>4
<1>5. CASE x.via # "other"
  <2>1. /\ d \in AuthCalls /\ d.op = "done" /\ d.id = x.id /\ d.kills = x.kills
        /\ d.via = x.via /\ d.got = i
    BY <1>2, <1>5, OtherAnswer
  <2>2. CallHolds(d)
    BY <1>1, <1>5, <2>1 DEF CallHolds, Issuing
  <2>. QED BY <1>1, <1>3, <1>5, <2>1, <2>2, AuthAssumption
<1>. QED BY <1>4, <1>5

\* The second registration of an email fails.
LEMMA RegisterCreateKeeps == ASSUME AuthInv, NEW c \in Callers, RegisterCreate(c) PROVE AuthInv'
<1>1. /\ call[c] # None /\ call[c].op = "create" /\ account'
      /\ UNCHANGED <<password, sessions, revoked, overdue, parent, cred, late>>
      /\ UNCHANGED <<resets, used, lapsed, spent, kills, enforced, crashes>>
  BY DEF RegisterCreate, At, sessionVars, resetVars, killVars
<1>2. PICK x \in AuthCalls : x = call[c] /\ CallHolds(x)
  BY <1>1, CallIs
<1>3. x.op = "create" /\ x.id = 0 /\ x.via = "other"
  BY <1>1, <1>2 DEF CallHolds
<1>4. PICK d : d = IF account THEN None ELSE [x EXCEPT !.op = "issue"]
  OBVIOUS
<1>5. d \in AuthCalls \cup {None} /\ Do(c, d)
      /\ (d # None => d.op = "issue" /\ d.id = 0 /\ d.via = "other" /\ d.kills = x.kills /\ d.cred = x.cred)
  <2>1. CASE account
    BY <1>2, <1>3, <1>4, <2>1 DEF RegisterCreate, Answer
  <2>2. CASE ~account
    BY <1>2, <1>3, <1>4, <2>2, OtherOp DEF RegisterCreate, Is, Ops
  <2>. QED BY <2>1, <2>2
<1>6. d # None => CallHolds(d)'
  BY <1>1, <1>2, <1>3, <1>5, CountsType DEF CallHolds, Issuing
<1>7. AuthTypeOK'
  <2>1. call' \in [Callers -> AuthCalls \cup {None}] /\ account' \in BOOLEAN
    BY <1>5, CallMoves DEF RegisterCreate
  <2>. QED BY <1>1, <2>1 DEF AuthInv, AuthTypeOK
<1>8. RoomKept'
  <2>1. /\ Weight(call[c], Issuing) = 1 /\ Weight(d, Issuing) \in {0, 1}
        /\ Weight(d, Changing) = 0 /\ Weight(call[c], Changing) = 0
    BY <1>1, <1>5 DEF Weight, Issuing, Changing
  <2>2. /\ sessions' + Weight(d, Issuing) <= sessions + Weight(call[c], Issuing)
        /\ password' + Weight(d, Changing) <= password + Weight(call[c], Changing)
    BY <1>1, <2>1, CountsType
  <2>. QED BY <1>1, <1>5, <2>2, CountsType, RoomStillKept
<1>9. CallsHold'
  <2>1. Grows
    BY <1>1, CountsType DEF Grows
  <2>. QED BY <1>1, <1>5, <1>6, <2>1, CountsType, CallsStillHold
<1>10. EnforcementComes'
  <2>1. ~At(c, "kill")
    BY <1>1 DEF At
  <2>. QED BY <1>1, <1>5, <2>1, EnforcementStillComes
<1>11. OldSessionsEnd' /\ ExchangedIsRevoked'
  BY <1>1, SessionsStillEnd
<1>12. UnusedIsUnspent' /\ ResetOnce'
  BY <1>1 DEF AuthInv, UnusedIsUnspent, ResetOnce
<1>. QED BY <1>7, <1>8, <1>9, <1>10, <1>11, <1>12 DEF AuthInv

LEMMA RotateOldKeeps == ASSUME AuthInv, NEW c \in Callers, RotateOld(c) PROVE AuthInv'
<1>1. /\ call[c] # None /\ call[c].op = "revoke"
      /\ UNCHANGED <<account, password, sessions, overdue, parent, cred, late>>
      /\ UNCHANGED <<resets, used, lapsed, spent, kills, enforced, crashes>>
  BY DEF RotateOld, At, resetVars, killVars
<1>2. PICK x \in AuthCalls : x = call[c] /\ CallHolds(x)
  BY <1>1, CallIs
<1>3. x.op = "revoke" /\ x.id \in 1..sessions
  <2>1. x.id \in Nat
    BY AuthAssumption DEF AuthCalls
  <2>. QED BY <1>1, <1>2, <2>1, CountsType DEF CallHolds
<1>4. PICK d : d = [x EXCEPT !.op = "issue"]
  OBVIOUS
<1>5. d \in AuthCalls /\ d.op = "issue" /\ d.id = x.id /\ d.via = x.via /\ d.kills = x.kills /\ d.cred = x.cred
  BY <1>4, OtherOp DEF Ops
<1>6. Do(c, d) /\ revoked' = revoked \cup {x.id}
  BY <1>2, <1>4 DEF RotateOld, Is
<1>7. CallHolds(d)'
  BY <1>1, <1>2, <1>3, <1>5, <1>6 DEF CallHolds, Issuing
<1>8. AuthTypeOK'
  <2>1. call' \in [Callers -> AuthCalls \cup {None}]
    BY <1>5, <1>6, CallMoves
  <2>. QED BY <1>1, <1>3, <1>6, <2>1 DEF AuthInv, AuthTypeOK
<1>9. RoomKept'
  <2>1. /\ Weight(call[c], Issuing) = 1 /\ Weight(d, Issuing) \in {0, 1}
        /\ Weight(d, Changing) = 0 /\ Weight(call[c], Changing) = 0
    BY <1>1, <1>5 DEF Weight, Issuing, Changing
  <2>2. /\ sessions' + Weight(d, Issuing) <= sessions + Weight(call[c], Issuing)
        /\ password' + Weight(d, Changing) <= password + Weight(call[c], Changing)
    BY <1>1, <2>1, CountsType
  <2>. QED BY <1>1, <1>5, <1>6, <2>2, CountsType, RoomStillKept
<1>10. CallsHold'
  <2>1. Grows
    BY <1>1, <1>6, CountsType DEF Grows
  <2>. QED BY <1>1, <1>5, <1>6, <1>7, <2>1, CountsType, CallsStillHold
<1>11. EnforcementComes'
  <2>1. ~At(c, "kill")
    BY <1>1 DEF At
  <2>. QED BY <1>1, <1>5, <1>6, <2>1, EnforcementStillComes
<1>12. OldSessionsEnd' /\ ExchangedIsRevoked'
  BY <1>1, <1>6, SessionsStillEnd
<1>13. UnusedIsUnspent' /\ ResetOnce'
  BY <1>1 DEF AuthInv, UnusedIsUnspent, ResetOnce
<1>. QED BY <1>8, <1>9, <1>10, <1>11, <1>12, <1>13 DEF AuthInv

\* A request about to add a session, or to change the password, finds the room it kept.
LEMMA RoomLeft ==
  ASSUME AuthInv, NEW c \in Callers, call[c] # None
  PROVE  /\ call[c].op \in Issuing => sessions + 1 <= MaxSessions
         /\ call[c].op \in Changing => password + 1 <= MaxPasswords
<1>1. \A S : IsFiniteSet(S) /\ c \in S => Cardinality(S) \in Nat /\ Cardinality(S) >= 1
  <2>1. TAKE S
  <2>2. HAVE IsFiniteSet(S) /\ c \in S
  <2>3. Cardinality(S \ {c}) \in Nat /\ Cardinality(S \ {c}) = Cardinality(S) - 1
    BY <2>2, OneFewer
  <2>4. Cardinality(S) \in Nat
    BY <2>2, FS_CardinalityType
  <2>. QED BY <2>3, <2>4
<1>2. /\ IsFiniteSet(Busy(Issuing)) /\ sessions + Cardinality(Busy(Issuing)) <= MaxSessions
      /\ IsFiniteSet(Busy(Changing)) /\ password + Cardinality(Busy(Changing)) <= MaxPasswords
  BY DEF AuthInv, RoomKept
<1>3. ASSUME call[c].op \in Issuing PROVE sessions + 1 <= MaxSessions
  <2>1. c \in Busy(Issuing)
    BY <1>3 DEF Busy
  <2>. QED BY <1>1, <1>2, <2>1, CountsType
<1>4. ASSUME call[c].op \in Changing PROVE password + 1 <= MaxPasswords
  <2>1. c \in Busy(Changing)
    BY <1>4 DEF Busy
  <2>. QED BY <1>1, <1>2, <2>1, CountsType
<1>. QED BY <1>3, <1>4

\* A new session: it rests on the password enforced, unless a revocation overtook it.
LEMMA IssueKeeps == ASSUME AuthInv, NEW c \in Callers, Issue(c) PROVE AuthInv'
<1>1. /\ call[c] # None /\ call[c].op = "issue" /\ sessions' = sessions + 1
      /\ UNCHANGED <<account, password, revoked, overdue, resets, used, lapsed, spent>>
      /\ UNCHANGED <<kills, enforced, crashes>>
  BY DEF Issue, At, resetVars, killVars
<1>2. PICK x \in AuthCalls : x = call[c] /\ CallHolds(x)
  BY <1>1, CallIs
<1>3. /\ x.op = "issue" /\ x.id \in Nat /\ x.id <= sessions /\ x.cred \in Passwords /\ account
      /\ x.id # 0 => x.id \in revoked
      /\ x.kills = kills /\ x.id \notin late => x.cred >= enforced
  BY <1>1, <1>2, AuthAssumption DEF CallHolds, AuthCalls, Issuing
<1>4. PICK n : n = sessions + 1
  OBVIOUS
<1>5. n \in Rows /\ n \in 0..MaxSessions /\ n \in Nat /\ n > sessions
  BY <1>1, <1>4, RoomLeft, CountsType DEF Issuing, Rows
<1>6. /\ parent' = [parent EXCEPT ![n] = x.id] /\ cred' = [cred EXCEPT ![n] = x.cred]
      /\ late' = (IF x.kills # kills \/ x.id \in late THEN late \cup {n} ELSE late)
      /\ Answer(c, n) /\ sessions' = n
  BY <1>1, <1>2, <1>4 DEF Issue
<1>7. PICK d \in AuthCalls \cup {None} : Do(c, d) /\ (d # None => CallHolds(d) /\ d.op = "done")
  BY <1>1, <1>5, <1>6, AnswerIs
<1>8. /\ parent \in [Rows -> 0..MaxSessions] /\ cred \in [Rows -> Passwords]
      /\ (\A i \in Rows : parent[i] < i)
      /\ late \subseteq 1..sessions /\ revoked \subseteq 1..sessions /\ overdue \subseteq 1..sessions
  BY DEF AuthInv, AuthTypeOK
<1>9. 1..n = (1..sessions) \cup {n} /\ n \notin 1..sessions
  BY <1>4, CountsType
<1>10. /\ parent' \in [Rows -> 0..MaxSessions] /\ cred' \in [Rows -> Passwords]
       /\ parent'[n] = x.id /\ cred'[n] = x.cred
       /\ \A i \in Rows \ {n} : parent'[i] = parent[i] /\ cred'[i] = cred[i]
  <2>1. x.id \in 0..MaxSessions
    BY <1>3, CountsType
  <2>. QED BY <1>3, <1>5, <1>6, <1>8, <2>1
<1>11. AuthTypeOK'
  <2>1. call' \in [Callers -> AuthCalls \cup {None}]
    BY <1>7, CallMoves
  <2>2. \A i \in Rows : parent'[i] < i
    BY <1>3, <1>5, <1>8, <1>10, CountsType
  <2>3. late' \subseteq 1..n /\ revoked \subseteq 1..n /\ overdue \subseteq 1..n
    BY <1>6, <1>8, <1>9
  <2>. QED BY <1>1, <1>3, <1>5, <1>6, <1>10, <2>1, <2>2, <2>3 DEF AuthInv, AuthTypeOK
<1>12. RoomKept'
  <2>1. /\ Weight(call[c], Issuing) = 1 /\ Weight(d, Issuing) = 0
        /\ Weight(d, Changing) = 0 /\ Weight(call[c], Changing) = 0
    BY <1>1, <1>7 DEF Weight, Issuing, Changing
  <2>2. /\ sessions' + Weight(d, Issuing) <= sessions + Weight(call[c], Issuing)
        /\ password' + Weight(d, Changing) <= password + Weight(call[c], Changing)
    BY <1>1, <2>1, CountsType
  <2>. QED BY <1>1, <1>7, <2>2, CountsType, RoomStillKept
<1>13. CallsHold'
  <2>1. Grows
    BY <1>1, <1>6, CountsType DEF Grows
  <2>2. d # None => CallHolds(d)'
    BY <1>1, <1>7, <2>1, CountsType, HoldsStays
  <2>. QED BY <1>1, <1>7, <2>1, <2>2, CountsType, CallsStillHold
<1>14. EnforcementComes'
  <2>1. ~At(c, "kill")
    BY <1>1 DEF At
  <2>. QED BY <1>1, <1>7, <2>1, EnforcementStillComes
<1>15. OldSessionsEnd'
  <2>1. ASSUME NEW i \in Live', i \notin late' PROVE cred'[i] >= enforced'
    <3>1. i \in 1..n /\ i \in Rows /\ i \notin revoked /\ i \notin overdue
      BY <1>1, <1>5, <1>6, <2>1, CountsType DEF Live, Refreshable, Rows
    <3>2. CASE i = n
      BY <1>1, <1>3, <1>6, <1>10, <2>1, <3>2
    <3>3. CASE i # n
      <4>1. i \in Live /\ i \notin late
        BY <1>6, <1>9, <2>1, <3>1, <3>3 DEF Live, Refreshable
      <4>. QED BY <1>1, <1>10, <3>1, <3>3, <4>1 DEF AuthInv, OldSessionsEnd
    <3>. QED BY <3>2, <3>3
  <2>. QED BY <2>1 DEF OldSessionsEnd
<1>16. ExchangedIsRevoked'
  <2>1. ASSUME NEW i \in 1..n, parent'[i] # 0 PROVE parent'[i] \in revoked
    <3>1. CASE i = n
      BY <1>3, <1>10, <2>1, <3>1
    <3>2. CASE i # n
      <4>1. i \in 1..sessions /\ i \in Rows
        BY <1>9, <3>2, CountsType DEF Rows
      <4>. QED BY <1>10, <2>1, <3>2, <4>1 DEF AuthInv, ExchangedIsRevoked
    <3>. QED BY <3>1, <3>2
  <2>. QED BY <1>1, <1>6, <2>1 DEF ExchangedIsRevoked
<1>17. UnusedIsUnspent' /\ ResetOnce'
  BY <1>1 DEF AuthInv, UnusedIsUnspent, ResetOnce
<1>. QED BY <1>11, <1>12, <1>13, <1>14, <1>15, <1>16, <1>17 DEF AuthInv

\* A step that moves no request: a session or a token more or less.
LEMMA TableStepKeeps ==
  ASSUME AuthInv, UNCHANGED <<account, password, sessions, parent, cred, late, used, spent>>,
         UNCHANGED <<kills, enforced, call, crashes>>,
         revoked \subseteq revoked', overdue \subseteq overdue', resets <= resets', AuthTypeOK'
  PROVE  AuthInv'
<1>1. resets' \in Nat
  BY AuthAssumption DEF AuthTypeOK
<1>2. RoomKept'
  BY DEF AuthInv, RoomKept, Busy
<1>3. CallsHold'
  <2>1. Grows
    BY CountsType DEF Grows
  <2>. QED BY <1>1, <2>1, CountsType, CallsHoldByThemselves
<1>4. EnforcementComes'
  BY DEF AuthInv, EnforcementComes, Enforcing, At
<1>5. OldSessionsEnd' /\ ExchangedIsRevoked'
  BY SessionsStillEnd
<1>6. UnusedIsUnspent' /\ ResetOnce'
  BY DEF AuthInv, UnusedIsUnspent, ResetOnce
<1>. QED BY <1>2, <1>3, <1>4, <1>5, <1>6 DEF AuthInv

LEMMA LogoutKeeps == ASSUME AuthInv, NEW i \in Rows, Logout(i) PROVE AuthInv'
<1>1. /\ i \in 1..sessions /\ revoked' = revoked \cup {i}
      /\ UNCHANGED <<account, password, sessions, overdue, parent, cred, late, call, crashes>>
      /\ UNCHANGED <<resets, used, lapsed, spent, kills, enforced>>
  BY DEF Logout, resetVars, killVars
<1>2. AuthTypeOK'
  BY <1>1 DEF AuthInv, AuthTypeOK
<1>. QED BY <1>1, <1>2, CountsType, TableStepKeeps

LEMMA ResetAskKeeps == ASSUME AuthInv, ResetAsk PROVE AuthInv'
<1>1. /\ account /\ resets < MaxResets /\ resets' = resets + 1
      /\ UNCHANGED <<account, password, sessions, revoked, overdue, parent, cred, late, call, crashes>>
      /\ UNCHANGED <<used, lapsed, spent, kills, enforced>>
  BY DEF ResetAsk, Found, sessionVars, killVars
<1>2. resets' \in 0..MaxResets /\ 1..resets \subseteq 1..resets' /\ resets <= resets'
  BY <1>1, CountsType, AuthAssumption
<1>3. AuthTypeOK'
  BY <1>1, <1>2 DEF AuthInv, AuthTypeOK
<1>. QED BY <1>1, <1>2, <1>3, TableStepKeeps

LEMMA TimeRunsOutKeeps == ASSUME AuthInv, TimeRunsOut PROVE AuthInv'
<1>1. /\ UNCHANGED <<account, password, sessions, revoked, parent, cred, late, call, crashes>>
      /\ UNCHANGED <<resets, used, spent, kills, enforced>>
      /\ overdue \subseteq overdue' /\ overdue' \subseteq overdue \cup Live
      /\ lapsed' \subseteq lapsed \cup (1..resets)
  BY DEF TimeRunsOut, killVars
<1>2. Live \subseteq 1..sessions
  BY DEF Live
<1>3. AuthTypeOK'
  <2>1. overdue' \subseteq 1..sessions /\ lapsed' \subseteq 1..resets
    BY <1>1, <1>2 DEF AuthInv, AuthTypeOK
  <2>. QED BY <1>1, <2>1 DEF AuthInv, AuthTypeOK
<1>. QED BY <1>1, <1>3, CountsType, TableStepKeeps

\* The call that has changed the password goes on to revoke.
LEMMA AfterHashIs ==
  ASSUME AuthInv, NEW x \in AuthCalls, CallHolds(x), x.op \in Changing, password + 1 <= MaxPasswords
  PROVE  /\ AfterHash(x) \in AuthCalls /\ AfterHash(x).op = "kill" /\ AfterHash(x).cred = password + 1
         /\ AfterHash(x).id = x.id /\ AfterHash(x).kills = x.kills /\ AfterHash(x).via = "other"
<1>1. password + 1 \in Passwords /\ "kill" \in Ops
  BY CountsType DEF Passwords, Ops
<1>2. \A n \in Passwords : LET y == [x EXCEPT !.op = "kill", !.cred = n] IN
        /\ y \in AuthCalls /\ y.op = "kill" /\ y.cred = n
        /\ y.id = x.id /\ y.kills = x.kills /\ y.via = x.via
  BY <1>1 DEF AuthCalls
<1>3. x.via = "other"
  BY DEF CallHolds, Changing
<1>. QED BY <1>1, <1>2, <1>3 DEF AfterHash

LEMMA ChangeHashKeeps == ASSUME AuthInv, NEW c \in Callers, ChangeHash(c) PROVE AuthInv'
<1>1. /\ call[c] # None /\ call[c].op = "hash" /\ password' = password + 1
      /\ UNCHANGED <<account, sessions, revoked, overdue, parent, cred, late, crashes>>
      /\ UNCHANGED <<resets, used, lapsed, spent, kills, enforced>>
  BY DEF ChangeHash, At, sessionVars, resetVars, killVars
<1>2. PICK x \in AuthCalls : x = call[c] /\ CallHolds(x)
  BY <1>1, CallIs
<1>3. x.op \in Changing /\ password + 1 <= MaxPasswords /\ account /\ x.id <= sessions /\ x.kills <= kills
  BY <1>1, <1>2, RoomLeft DEF Changing, CallHolds
<1>4. PICK d : d = AfterHash(x)
  OBVIOUS
<1>5. /\ d \in AuthCalls /\ d.op = "kill" /\ d.cred = password + 1
      /\ d.id = x.id /\ d.kills = x.kills /\ d.via = "other"
  BY <1>2, <1>3, <1>4, AfterHashIs
<1>6. Do(c, d)
  BY <1>2, <1>4 DEF ChangeHash
<1>7. call' \in [Callers -> AuthCalls \cup {None}] /\ call'[c] = d
  BY <1>5, <1>6, CallMoves
<1>8. password' \in Passwords /\ password' \in Nat /\ enforced \in 0..password'
  BY <1>1, <1>3, CountsType DEF Passwords
<1>9. AuthTypeOK'
  BY <1>1, <1>3, <1>7, <1>8 DEF AuthInv, AuthTypeOK
<1>10. RoomKept'
  <2>1. /\ Weight(call[c], Issuing) = 0 /\ Weight(d, Issuing) = 0
        /\ Weight(d, Changing) = 0 /\ Weight(call[c], Changing) = 1
    BY <1>1, <1>5 DEF Weight, Issuing, Changing
  <2>2. /\ sessions' + Weight(d, Issuing) <= sessions + Weight(call[c], Issuing)
        /\ password' + Weight(d, Changing) <= password + Weight(call[c], Changing)
    BY <1>1, <2>1, CountsType
  <2>. QED BY <1>1, <1>5, <1>6, <1>8, <2>2, CountsType, RoomStillKept
<1>11. CallsHold'
  <2>1. Grows
    BY <1>1, CountsType DEF Grows
  <2>2. CallHolds(d)'
    BY <1>1, <1>3, <1>5, CountsType DEF CallHolds, Issuing
  <2>. QED BY <1>1, <1>5, <1>6, <1>8, <2>1, <2>2, CountsType, CallsStillHold
<1>12. EnforcementComes'
  <2>1. Enforcing(c)'
    BY <1>1, <1>5, <1>7, AuthAssumption DEF Enforcing, At
  <2>. QED BY <2>1 DEF EnforcementComes
<1>13. OldSessionsEnd' /\ ExchangedIsRevoked'
  BY <1>1, SessionsStillEnd
<1>14. UnusedIsUnspent' /\ ResetOnce'
  BY <1>1 DEF AuthInv, UnusedIsUnspent, ResetOnce
<1>. QED BY <1>9, <1>10, <1>11, <1>12, <1>13, <1>14 DEF AuthInv

\* Every session there is ends; a request under way is overtaken.
LEMMA KillSessionsKeeps == ASSUME AuthInv, NEW c \in Callers, KillSessions(c) PROVE AuthInv'
<1>1. /\ call[c] # None /\ call[c].op = "kill" /\ Do(c, None) /\ kills' = kills + 1
      /\ revoked' = revoked \cup (1..sessions)
      /\ enforced' = IF call[c].cred > enforced THEN call[c].cred ELSE enforced
      /\ UNCHANGED <<account, password, sessions, overdue, parent, cred, late, crashes>>
      /\ UNCHANGED <<resets, used, lapsed, spent>>
  BY DEF KillSessions, Killed, At, resetVars
<1>2. PICK x \in AuthCalls : x = call[c] /\ CallHolds(x)
  BY <1>1, CallIs
<1>3. x.cred \in Nat /\ x.cred <= password /\ account
  BY <1>1, <1>2, AuthAssumption DEF CallHolds, AuthCalls, Passwords
<1>4. kills' \in Nat /\ enforced' \in 0..password /\ enforced' >= x.cred
      /\ (enforced = password => enforced' = password)
  BY <1>1, <1>2, <1>3, CountsType
<1>5. call' \in [Callers -> AuthCalls \cup {None}] /\ \A y \in Callers \ {c} : call'[y] = call[y]
  BY <1>1, CallMoves
<1>6. AuthTypeOK'
  BY <1>1, <1>4, <1>5 DEF AuthInv, AuthTypeOK
<1>7. PICK d \in AuthCalls \cup {None} : d = None
  OBVIOUS
<1>8. RoomKept'
  <2>1. /\ Weight(call[c], Issuing) = 0 /\ Weight(d, Issuing) = 0
        /\ Weight(d, Changing) = 0 /\ Weight(call[c], Changing) = 0
    BY <1>1, <1>7 DEF Weight, Issuing, Changing
  <2>2. /\ sessions' + Weight(d, Issuing) <= sessions + Weight(call[c], Issuing)
        /\ password' + Weight(d, Changing) <= password + Weight(call[c], Changing)
    BY <1>1, <2>1, CountsType
  <2>. QED BY <1>1, <1>7, <2>2, CountsType, RoomStillKept
<1>9. CallsHold'
  <2>1. Grows
    BY <1>1, CountsType DEF Grows
  <2>. QED BY <1>1, <1>4, <1>7, <2>1, CountsType, CallsStillHold
<1>10. EnforcementComes'
  <2>1. CASE x.cred = password
    <3>1. enforced' = password
      BY <1>3, <1>4, <2>1, CountsType
    <3>. QED BY <1>1, <3>1 DEF EnforcementComes
  <2>2. CASE x.cred # password
    <3>1. \A y \in Callers : Enforcing(y) => Enforcing(y)'
      BY <1>1, <1>2, <1>5, <2>2 DEF Enforcing, At
    <3>. QED BY <1>1, <1>4, <3>1 DEF AuthInv, EnforcementComes
  <2>. QED BY <2>1, <2>2
<1>11. OldSessionsEnd' /\ ExchangedIsRevoked'
  <2>1. Live' = {}
    BY <1>1 DEF Live, Refreshable
  <2>. QED BY <1>1, <2>1 DEF OldSessionsEnd, AuthInv, ExchangedIsRevoked
<1>12. UnusedIsUnspent' /\ ResetOnce'
  BY <1>1 DEF AuthInv, UnusedIsUnspent, ResetOnce
<1>. QED BY <1>6, <1>8, <1>9, <1>10, <1>11, <1>12 DEF AuthInv

\* A token that was claimed changes nothing again.
LEMMA ResetClaimKeeps == ASSUME AuthInv, NEW c \in Callers, ResetClaim(c) PROVE AuthInv'
<1>1. /\ call[c] # None /\ call[c].op = "claim"
      /\ UNCHANGED <<account, sessions, revoked, overdue, parent, cred, late, crashes>>
      /\ UNCHANGED <<resets, lapsed, kills, enforced>>
  BY DEF ResetClaim, At, sessionVars, killVars
<1>2. PICK x \in AuthCalls : x = call[c] /\ CallHolds(x)
  BY <1>1, CallIs
<1>3. /\ x.op \in Changing /\ password + 1 <= MaxPasswords /\ account /\ x.id <= sessions /\ x.kills <= kills
      /\ x.token \in 1..resets
  BY <1>1, <1>2, RoomLeft DEF Changing, CallHolds
<1>4. x.token \in Tokens
  BY <1>3, AuthAssumption DEF AuthInv, AuthTypeOK, Tokens
<1>5. PICK d : d = IF x.token \notin used THEN AfterHash(x) ELSE None
  OBVIOUS
<1>6. d # None => /\ d \in AuthCalls /\ d.op = "kill" /\ d.cred = password + 1
                  /\ d.id = x.id /\ d.kills = x.kills /\ d.via = "other"
  BY <1>2, <1>3, <1>5, AfterHashIs
<1>7. d \in AuthCalls \cup {None}
  BY <1>6
<1>8. /\ Do(c, d) /\ used' = used \cup {x.token}
      /\ password' = (IF x.token \notin used THEN password + 1 ELSE password)
      /\ spent' = (IF x.token \notin used THEN [spent EXCEPT ![x.token] = @ + 1] ELSE spent)
  BY <1>2, <1>5 DEF ResetClaim, ClaimHits
<1>9. call' \in [Callers -> AuthCalls \cup {None}] /\ call'[c] = d
  BY <1>7, <1>8, CallMoves
<1>10. password' \in Passwords /\ password' \in Nat /\ enforced \in 0..password' /\ password <= password'
  BY <1>3, <1>8, CountsType DEF Passwords
<1>11. spent \in [Tokens -> Nat] /\ spent' \in [Tokens -> Nat]
  BY <1>4, <1>8 DEF AuthInv, AuthTypeOK
<1>12. AuthTypeOK'
  <2>1. used' \subseteq 1..resets
    BY <1>3, <1>8 DEF AuthInv, AuthTypeOK
  <2>. QED BY <1>1, <1>3, <1>9, <1>10, <1>11, <2>1 DEF AuthInv, AuthTypeOK
<1>13. AfterHash(x) \in AuthCalls
  BY <1>2, <1>3, AfterHashIs
<1>14. RoomKept'
  <2>1. /\ Weight(call[c], Issuing) = 0 /\ Weight(d, Issuing) = 0
        /\ Weight(d, Changing) = 0 /\ Weight(call[c], Changing) = 1
    BY <1>1, <1>6 DEF Weight, Issuing, Changing
  <2>2. /\ sessions' + Weight(d, Issuing) <= sessions + Weight(call[c], Issuing)
        /\ password' + Weight(d, Changing) <= password + Weight(call[c], Changing)
    BY <1>1, <1>8, <2>1, CountsType
  <2>. QED BY <1>1, <1>7, <1>8, <1>10, <2>2, CountsType, RoomStillKept
<1>15. CallsHold'
  <2>1. Grows
    BY <1>1, <1>10, CountsType DEF Grows
  <2>2. d # None => CallHolds(d)'
    <3>1. d # None => password' = password + 1
      BY <1>5, <1>8
    <3>. QED BY <1>1, <1>3, <1>6, <3>1, CountsType DEF CallHolds, Issuing
  <2>. QED BY <1>1, <1>7, <1>8, <1>10, <2>1, <2>2, CountsType, CallsStillHold
<1>16. EnforcementComes'
  <2>1. CASE x.token \notin used
    <3>1. d # None /\ password' = password + 1
      BY <1>5, <1>8, <1>13, <2>1, AuthAssumption
    <3>2. Enforcing(c)'
      BY <1>6, <1>9, <3>1 DEF Enforcing, At
    <3>. QED BY <3>2 DEF EnforcementComes
  <2>2. CASE x.token \in used
    <3>1. ~At(c, "kill") /\ password' = password
      BY <1>1, <1>8, <2>2 DEF At
    <3>. QED BY <1>1, <1>7, <1>8, <3>1, EnforcementStillComes
  <2>. QED BY <2>1, <2>2
<1>17. OldSessionsEnd' /\ ExchangedIsRevoked'
  BY <1>1, SessionsStillEnd
<1>18. UnusedIsUnspent' /\ ResetOnce'
  <2>1. ASSUME NEW t \in Tokens PROVE spent'[t] <= 1 /\ (t \notin used' => spent'[t] = 0)
    <3>1. spent[t] \in Nat /\ spent[t] <= 1 /\ (t \notin used => spent[t] = 0)
      BY <1>11, <2>1 DEF AuthInv, UnusedIsUnspent, ResetOnce
    <3>2. spent'[t] = IF t = x.token /\ t \notin used THEN spent[t] + 1 ELSE spent[t]
      BY <1>4, <1>8, <1>11, <2>1
    <3>. QED BY <1>8, <3>1, <3>2
  <2>. QED BY <2>1 DEF UnusedIsUnspent, ResetOnce
<1>. QED BY <1>12, <1>14, <1>15, <1>16, <1>17, <1>18 DEF AuthInv

\* A request cut short leaves what it has done, and the rest undone.
LEMMA CrashCallKeeps == ASSUME AuthInv, NEW c \in Callers, CrashCall(c) PROVE AuthInv'
<1>1. /\ call[c] # None /\ call[c].op # "done" /\ crashes < MaxCrashes /\ crashes' = crashes + 1
      /\ Answer(c, 0)
      /\ UNCHANGED <<account, password, sessions, revoked, overdue, parent, cred, late>>
      /\ UNCHANGED <<resets, used, lapsed, spent, kills, enforced>>
  BY DEF CrashCall, sessionVars, resetVars, killVars
<1>2. 0 \in 0..MaxSessions
  BY AuthAssumption
<1>3. PICK d \in AuthCalls \cup {None} : Do(c, d) /\ (d # None => CallHolds(d) /\ d.op = "done")
  BY <1>1, <1>2, AnswerIs
<1>4. crashes' \in 0..MaxCrashes /\ crashes' # 0
  BY <1>1, AuthAssumption DEF AuthInv, AuthTypeOK
<1>5. AuthTypeOK'
  <2>1. call' \in [Callers -> AuthCalls \cup {None}]
    BY <1>3, CallMoves
  <2>. QED BY <1>1, <1>4, <2>1 DEF AuthInv, AuthTypeOK
<1>6. RoomKept'
  <2>1. /\ Weight(call[c], Issuing) \in {0, 1} /\ Weight(d, Issuing) = 0
        /\ Weight(d, Changing) = 0 /\ Weight(call[c], Changing) \in {0, 1}
    BY <1>3 DEF Weight, Issuing, Changing
  <2>2. /\ sessions' + Weight(d, Issuing) <= sessions + Weight(call[c], Issuing)
        /\ password' + Weight(d, Changing) <= password + Weight(call[c], Changing)
    BY <1>1, <2>1, CountsType
  <2>. QED BY <1>1, <1>3, <2>2, CountsType, RoomStillKept
<1>7. CallsHold'
  <2>1. Grows
    BY <1>1, CountsType DEF Grows
  <2>2. d # None => CallHolds(d)'
    BY <1>1, <1>3, <2>1, CountsType, HoldsStays
  <2>. QED BY <1>1, <1>3, <2>1, <2>2, CountsType, CallsStillHold
<1>8. EnforcementComes'
  BY <1>4 DEF EnforcementComes
<1>9. OldSessionsEnd' /\ ExchangedIsRevoked'
  BY <1>1, SessionsStillEnd
<1>10. UnusedIsUnspent' /\ ResetOnce'
  BY <1>1 DEF AuthInv, UnusedIsUnspent, ResetOnce
<1>. QED BY <1>5, <1>6, <1>7, <1>8, <1>9, <1>10 DEF AuthInv

\* A step of a request leaves it the tab's or another's; an answer with a session is new.
TabKept(c, d) ==
  /\ (d # None /\ d.via = "tab") <=> (call[c] # None /\ call[c].via = "tab")
  /\ d # None /\ d.op = "done" /\ d.got # 0 => d.got = sessions + 1 /\ sessions' = sessions + 1

LEMMA BeginIsTabKept ==
  ASSUME AuthInv, NEW c \in Callers,
         \/ RegisterRead(c) \/ ChangeRead(c)
         \/ \E via \in {"other", "login"} : LoginRead(c, via)
         \/ \E i \in 1..sessions : RefreshRead(c, i, "other")
         \/ \E t \in Tokens : ResetRead(c, t)
  PROVE  sessions <= sessions' /\ \E d \in AuthCalls \cup {None} : Do(c, d) /\ TabKept(c, d)
<1>1. call[c] = None /\ sessions' = sessions /\ sessions <= sessions'
  <2>1. call[c] = None /\ UNCHANGED sessionVars
    BY DEF RegisterRead, LoginRead, ChangeRead, RefreshRead, ResetRead
  <2>. QED BY <2>1, CountsType DEF sessionVars
<1>2. \E d \in AuthCalls : Do(c, d) /\ d.via # "tab" /\ d.op # "done"
  <2>1. CASE RegisterRead(c)
    BY <2>1, FreshHolds DEF RegisterRead
  <2>2. ASSUME NEW via \in {"other", "login"}, LoginRead(c, via)
        PROVE  \E d \in AuthCalls : Do(c, d) /\ d.via # "tab" /\ d.op # "done"
    <3>1. \A x \in AuthCalls : LET y == [x EXCEPT !.op = "issue", !.via = via] IN
            y \in AuthCalls /\ y.op = "issue" /\ y.via = via
      BY DEF AuthCalls, Ops
    <3>2. PICK d : d = [Fresh EXCEPT !.op = "issue", !.via = via]
      OBVIOUS
    <3>. QED BY <2>2, <3>1, <3>2, FreshHolds DEF LoginRead
  <2>3. CASE ChangeRead(c)
    <3>1. \A x \in AuthCalls : LET y == [x EXCEPT !.op = "hash", !.id = sessions] IN
            y \in AuthCalls /\ y.op = "hash" /\ y.via = x.via
      BY DEF AuthCalls, Ops, AuthInv, AuthTypeOK
    <3>2. PICK d : d = [Fresh EXCEPT !.op = "hash", !.id = sessions]
      OBVIOUS
    <3>. QED BY <2>3, <3>1, <3>2, FreshHolds DEF ChangeRead
  <2>4. ASSUME NEW i \in 1..sessions, RefreshRead(c, i, "other")
        PROVE  \E d \in AuthCalls : Do(c, d) /\ d.via # "tab" /\ d.op # "done"
    <3>1. i \in Rows /\ i \in 0..MaxSessions
      BY CountsType DEF Rows
    <3>2. cred[i] \in Passwords
      BY <3>1 DEF AuthInv, AuthTypeOK
    <3>3. \A x \in AuthCalls :
            LET y == [x EXCEPT !.op = "revoke", !.id = i, !.cred = cred[i], !.via = "other"] IN
            y \in AuthCalls /\ y.op = "revoke" /\ y.via = "other"
      BY <3>1, <3>2 DEF AuthCalls, Ops
    <3>4. PICK d : d = [Fresh EXCEPT !.op = RotationStart, !.id = i, !.cred = cred[i], !.via = "other"]
      OBVIOUS
    <3>5. Do(c, d)
      BY <2>4, <3>4 DEF RefreshRead
    <3>6. d \in AuthCalls /\ d.op = "revoke" /\ d.via = "other"
      BY <3>3, <3>4, FreshHolds DEF RotationStart
    <3>. QED BY <3>5, <3>6
  <2>5. ASSUME NEW t \in Tokens, ResetRead(c, t)
        PROVE  \E d \in AuthCalls : Do(c, d) /\ d.via # "tab" /\ d.op # "done"
    <3>1. \A x \in AuthCalls : LET y == [x EXCEPT !.op = "claim", !.token = t, !.id = sessions] IN
            y \in AuthCalls /\ y.op = "claim" /\ y.via = x.via
      BY DEF AuthCalls, Ops, AuthInv, AuthTypeOK
    <3>2. PICK d : d = [Fresh EXCEPT !.op = "claim", !.token = t, !.id = sessions]
      OBVIOUS
    <3>. QED BY <2>5, <3>1, <3>2, FreshHolds DEF ResetRead
  <2>. QED BY <2>1, <2>2, <2>3, <2>4, <2>5
<1>. QED BY <1>1, <1>2 DEF TabKept

LEMMA AnswerIsTabKept ==
  ASSUME AuthInv, NEW c \in Callers, call[c] # None, NEW n \in 0..MaxSessions, Answer(c, n),
         n = 0 \/ (n = sessions + 1 /\ sessions' = sessions + 1)
  PROVE  \E d \in AuthCalls \cup {None} : Do(c, d) /\ TabKept(c, d)
<1>1. PICK d \in AuthCalls \cup {None} :
        /\ Do(c, d) /\ (d # None => CallHolds(d) /\ d.op = "done" /\ d.via = call[c].via /\ d.got = n)
        /\ d = None <=> call[c].via = "other"
  BY AnswerIs
<1>. QED BY <1>1 DEF TabKept

LEMMA StepIsTabKept ==
  ASSUME AuthInv, NEW c \in Callers, AuthStep(c)
  PROVE  sessions <= sessions' /\ \E d \in AuthCalls \cup {None} : Do(c, d) /\ TabKept(c, d)
<1>1. 0 \in 0..MaxSessions
  BY AuthAssumption
<1>2. ASSUME call[c] # None, NEW o \in Ops, o # "done", Is(c, o)
      PROVE  \E d \in AuthCalls \cup {None} : Do(c, d) /\ TabKept(c, d)
  <2>1. PICK d : d = [call[c] EXCEPT !.op = o]
    OBVIOUS
  <2>2. d \in AuthCalls /\ d.op = o /\ d.via = call[c].via
    BY <1>2, <2>1, CallIs, OtherOp
  <2>. QED BY <1>2, <2>1, <2>2, AuthAssumption DEF TabKept, Is
<1>3. ASSUME RegisterCreate(c)
      PROVE  sessions <= sessions' /\ \E d \in AuthCalls \cup {None} : Do(c, d) /\ TabKept(c, d)
  <2>1. call[c] # None /\ sessions <= sessions' /\ "issue" \in Ops
    BY <1>3, CountsType DEF RegisterCreate, At, sessionVars, Ops
  <2>2. Answer(c, 0) \/ Is(c, "issue")
    BY <1>3 DEF RegisterCreate
  <2>. QED BY <1>1, <1>2, <2>1, <2>2, AnswerIsTabKept
<1>4. ASSUME RotateOld(c)
      PROVE  sessions <= sessions' /\ \E d \in AuthCalls \cup {None} : Do(c, d) /\ TabKept(c, d)
  <2>1. call[c] # None /\ sessions <= sessions' /\ "issue" \in Ops /\ Is(c, "issue")
    BY <1>4, CountsType DEF RotateOld, At, Ops
  <2>. QED BY <1>2, <2>1
<1>5. ASSUME Issue(c)
      PROVE  sessions <= sessions' /\ \E d \in AuthCalls \cup {None} : Do(c, d) /\ TabKept(c, d)
  <2>1. call[c] # None /\ call[c].op = "issue" /\ sessions' = sessions + 1 /\ Answer(c, sessions + 1)
    BY <1>5 DEF Issue, At
  <2>2. sessions + 1 \in 0..MaxSessions /\ sessions <= sessions'
    BY <2>1, RoomLeft, CountsType DEF Issuing
  <2>3. PICK n : n = sessions + 1
    OBVIOUS
  <2>4. n \in 0..MaxSessions /\ Answer(c, n)
    BY <2>1, <2>2, <2>3
  <2>. QED BY <2>1, <2>2, <2>3, <2>4, AnswerIsTabKept
<1>6. ASSUME CrashCall(c)
      PROVE  sessions <= sessions' /\ \E d \in AuthCalls \cup {None} : Do(c, d) /\ TabKept(c, d)
  <2>1. call[c] # None /\ sessions <= sessions' /\ Answer(c, 0)
    BY <1>6, CountsType DEF CrashCall, sessionVars
  <2>. QED BY <1>1, <2>1, AnswerIsTabKept
<1>7. ASSUME ChangeHash(c) \/ KillSessions(c) \/ ResetClaim(c)
      PROVE  sessions <= sessions' /\ \E d \in AuthCalls \cup {None} : Do(c, d) /\ TabKept(c, d)
  <2>1. call[c] # None /\ sessions <= sessions' /\ call[c].op \in {"hash", "claim", "kill"}
    BY <1>7, CountsType DEF ChangeHash, KillSessions, ResetClaim, At, sessionVars
  <2>2. PICK x \in AuthCalls : x = call[c] /\ CallHolds(x)
    BY <2>1, CallIs
  <2>3. x.via = "other"
    BY <2>1, <2>2 DEF CallHolds
  <2>4. Do(c, None) \/ (x.op \in Changing /\ Do(c, AfterHash(x)))
    BY <1>7, <2>2 DEF ChangeHash, KillSessions, ResetClaim, At, Changing
  <2>5. CASE Do(c, None)
    BY <2>1, <2>2, <2>3, <2>5 DEF TabKept
  <2>6. CASE x.op \in Changing /\ Do(c, AfterHash(x))
    <3>1. PICK d : d = AfterHash(x)
      OBVIOUS
    <3>2. password + 1 <= MaxPasswords
      BY <2>1, <2>2, <2>6, RoomLeft
    <3>3. d \in AuthCalls /\ d.op = "kill" /\ d.via = "other"
      BY <2>2, <2>6, <3>1, <3>2, AfterHashIs
    <3>. QED BY <2>1, <2>2, <2>3, <2>6, <3>1, <3>3 DEF TabKept
  <2>. QED BY <2>1, <2>4, <2>5, <2>6
<1>. QED BY <1>3, <1>4, <1>5, <1>6, <1>7 DEF AuthStep

\* What a step of a request leaves of the tab.
LEMMA TabStillHolds ==
  ASSUME AuthInv, TabInv, NEW c \in Callers, NEW d \in AuthCalls \cup {None}, Do(c, d), TabKept(c, d),
         UNCHANGED browserVars, sessions <= sessions', sessions' \in Nat
  PROVE  TabInv'
<1>1. UNCHANGED <<store, flight, waiting, presented>>
  BY DEF browserVars
<1>2. call'[c] = d /\ \A x \in Callers \ {c} : call'[x] = call[x]
  BY CallMoves
<1>3. 1..sessions \subseteq 1..sessions'
  BY CountsType
<1>4. BrowserTypeOK'
  BY <1>1, <1>2, <1>3 DEF TabInv, BrowserTypeOK, TabKept
<1>5. StoreIsNew'
  BY <1>1 DEF TabInv, StoreIsNew
<1>6. \A x \in Callers \ {c} : Got(x)' = Got(x)
  BY <1>2 DEF Got, At
<1>7. Got(c)' => d.got = sessions + 1 /\ sessions' = sessions + 1
  BY <1>2 DEF Got, At, TabKept
<1>8. \A x \in Callers : Got(x) => call[x].got \in Nat /\ call[x].got <= sessions
  BY DEF TabInv, GotIsNew, Got, At, AuthInv, AuthTypeOK, AuthCalls
<1>9. sessions + 1 \notin presented /\ sessions + 1 # store
  BY CountsType, AuthAssumption DEF TabInv, BrowserTypeOK
<1>10. GotIsNew'
  <2>1. ASSUME NEW x \in Callers, Got(x)'
        PROVE  /\ call'[x].got <= sessions' /\ call'[x].got \notin presented /\ call'[x].got # store
               /\ \A y \in Callers : Got(y)' /\ call'[y].got = call'[x].got => y = x
    <3>1. CASE x = c
      <4>1. \A y \in Callers \ {c} : Got(y)' => call'[y].got # sessions + 1
        BY <1>2, <1>6, <1>8, CountsType
      <4>. QED BY <1>2, <1>7, <1>9, <2>1, <3>1, <4>1, CountsType
    <3>2. CASE x # c
      <4>1. Got(x) /\ call'[x] = call[x] /\ call[x].got \in Nat /\ call[x].got <= sessions
        BY <1>2, <1>6, <1>8, <2>1, <3>2
      <4>2. call[x].got \notin presented /\ call[x].got # store
            /\ \A y \in Callers \ {c} : Got(y) /\ call[y].got = call[x].got => y = x
        BY <4>1 DEF TabInv, GotIsNew
      <4>3. Got(c)' => call'[c].got # call[x].got
        BY <1>2, <1>7, <4>1, CountsType
      <4>4. \A y \in Callers \ {c} : Got(y)' /\ call'[y].got = call'[x].got => y = x
        BY <1>2, <1>6, <4>1, <4>2
      <4>. QED BY <4>1, <4>2, <4>3, <4>4, CountsType
    <3>. QED BY <3>1, <3>2
  <2>. QED BY <1>1, <2>1 DEF GotIsNew
<1>. QED BY <1>4, <1>5, <1>10 DEF TabInv

\* A step without the tab.
LEMMA AuthNextKeeps ==
  AuthInv /\ TabInv /\ AuthNext /\ UNCHANGED browserVars => AuthInv' /\ TabInv'
<1>. SUFFICES ASSUME AuthInv, TabInv, AuthNext, UNCHANGED browserVars PROVE AuthInv' /\ TabInv'
  OBVIOUS
<1>1. AuthInv'
  BY RegisterReadKeeps, LoginReadKeeps, ChangeReadKeeps, RefreshReadKeeps, ResetReadKeeps,
     RegisterCreateKeeps, RotateOldKeeps, IssueKeeps, ChangeHashKeeps, KillSessionsKeeps,
     ResetClaimKeeps, CrashCallKeeps, LogoutKeeps, ResetAskKeeps, TimeRunsOutKeeps
     DEF AuthNext, AuthStep, RefreshRead
<1>2. sessions' \in Nat
  BY <1>1, AuthAssumption DEF AuthInv, AuthTypeOK
<1>3. \/ \E c \in Callers : /\ sessions <= sessions'
                            /\ \E d \in AuthCalls \cup {None} : Do(c, d) /\ TabKept(c, d)
      \/ UNCHANGED <<call, sessions>>
  <2>1. ASSUME NEW c \in Callers,
               \/ RegisterRead(c) \/ LoginRead(c, "other") \/ ChangeRead(c)
               \/ \E i \in Rows : RefreshRead(c, i, "other")
               \/ \E t \in Tokens : ResetRead(c, t)
        PROVE  sessions <= sessions' /\ \E d \in AuthCalls \cup {None} : Do(c, d) /\ TabKept(c, d)
    BY <2>1, BeginIsTabKept DEF RefreshRead
  <2>2. ASSUME NEW i \in Rows, Logout(i) PROVE UNCHANGED <<call, sessions>>
    BY <2>2 DEF Logout
  <2>3. ResetAsk \/ TimeRunsOut => UNCHANGED <<call, sessions>>
    BY DEF ResetAsk, TimeRunsOut, sessionVars
  <2>. QED BY <2>1, <2>2, <2>3, StepIsTabKept DEF AuthNext
<1>4. UNCHANGED <<call, sessions>> => TabInv'
  BY DEF TabInv, BrowserTypeOK, StoreIsNew, GotIsNew, Got, At, browserVars
<1>5. TabInv'
  BY <1>2, <1>3, <1>4, TabStillHolds
<1>. QED BY <1>1, <1>5

LEMMA SignInKeeps == ASSUME AuthInv, TabInv, NEW c \in Callers, SignIn(c) PROVE AuthInv' /\ TabInv'
<1>1. LoginRead(c, "login") /\ UNCHANGED browserVars
  BY DEF SignIn
<1>2. AuthInv'
  BY <1>1, LoginReadKeeps
<1>3. sessions' \in Nat
  BY <1>2, AuthAssumption DEF AuthInv, AuthTypeOK
<1>. QED BY <1>1, <1>2, <1>3, BeginIsTabKept, TabStillHolds

\* What is stored after an answer was on its way alone.
LEMMA GotIs ==
  ASSUME AuthInv, TabInv, NEW c \in Callers, Got(c)
  PROVE  /\ call[c].got \in 1..sessions /\ call[c].got # None
         /\ call[c].got \notin presented /\ call[c].got # store
         /\ \A x \in Callers \ {c} : Got(x) => call[x].got # call[c].got
<1>1. call[c].got \in Nat /\ call[c].got # 0
  BY DEF Got, At, AuthInv, AuthTypeOK, AuthCalls
<1>. QED BY <1>1, CountsType, AuthAssumption DEF TabInv, GotIsNew

LEMMA SignedInKeeps == ASSUME AuthInv, TabInv, NEW c \in Callers, SignedIn(c) PROVE AuthInv' /\ TabInv'
<1>1. /\ At(c, "done") /\ call[c] # None /\ call[c].via = "login" /\ Do(c, None)
      /\ store' = IF call[c].got # 0 THEN call[c].got ELSE store
      /\ UNCHANGED <<account, password, sessionVars, resetVars, killVars, crashes, flight,
                     waiting, presented>>
  BY DEF SignedIn, At
<1>2. AuthInv'
  BY <1>1, TakeAnswerKeeps
<1>3. call'[c] = None /\ (\A x \in Callers \ {c} : call'[x] = call[x]) /\ sessions' = sessions
  BY <1>1, CallMoves DEF sessionVars
<1>4. store' = store \/ (Got(c) /\ store' = call[c].got)
  BY <1>1 DEF Got
<1>5. BrowserTypeOK'
  BY <1>1, <1>3, <1>4, GotIs DEF TabInv, BrowserTypeOK
<1>6. StoreIsNew'
  BY <1>1, <1>4, GotIs DEF TabInv, StoreIsNew
<1>7. GotIsNew'
  <2>1. \A x \in Callers : Got(x)' <=> Got(x) /\ x # c
    BY <1>3 DEF Got, At
  <2>. QED BY <1>1, <1>3, <1>4, <2>1, GotIs DEF TabInv, GotIsNew
<1>. QED BY <1>2, <1>5, <1>6, <1>7 DEF TabInv

LEMMA SignOutKeeps == ASSUME AuthInv, TabInv, SignOut PROVE AuthInv' /\ TabInv'
<1>1. /\ store' = None /\ UNCHANGED <<flight, waiting, presented>>
      /\ UNCHANGED <<account, password, sessions, revoked, overdue, parent, cred, late>>
      /\ UNCHANGED <<resets, used, lapsed, spent, kills, enforced, call, crashes>>
  BY DEF SignOut, authVars, sessionVars, resetVars, killVars
<1>2. AuthInv'
  <2>1. AuthTypeOK'
    BY <1>1 DEF AuthInv, AuthTypeOK
  <2>. QED BY <1>1, <2>1, CountsType, TableStepKeeps
<1>3. BrowserTypeOK' /\ StoreIsNew'
  BY <1>1 DEF TabInv, BrowserTypeOK, StoreIsNew
<1>4. GotIsNew'
  <2>1. \A x \in Callers : Got(x)' <=> Got(x)
    BY <1>1 DEF Got, At
  <2>. QED BY <1>1, <2>1, GotIs DEF TabInv, GotIsNew
<1>. QED BY <1>2, <1>3, <1>4 DEF TabInv

\* The tab presents the token it has stored, when it awaits no refresh.
LEMMA UnauthorizedKeeps ==
  ASSUME AuthInv, TabInv, NEW c \in Callers, Unauthorized(c) PROVE AuthInv' /\ TabInv'
<1>1. store # None /\ call[c] = None /\ store' = store /\ store \in 1..sessions
  BY DEF Unauthorized, TabInv, BrowserTypeOK
<1>2. CASE MustWait
  <2>1. /\ waiting' = waiting \cup {c} /\ UNCHANGED <<flight, presented>> /\ flight # None
        /\ UNCHANGED <<account, password, sessions, revoked, overdue, parent, cred, late>>
        /\ UNCHANGED <<resets, used, lapsed, spent, kills, enforced, call, crashes>>
    BY <1>2 DEF Unauthorized, MustWait, authVars, sessionVars, resetVars, killVars
  <2>2. AuthInv'
    <3>1. AuthTypeOK'
      BY <2>1 DEF AuthInv, AuthTypeOK
    <3>. QED BY <2>1, <3>1, CountsType, TableStepKeeps
  <2>3. BrowserTypeOK' /\ StoreIsNew'
    BY <1>1, <2>1 DEF TabInv, BrowserTypeOK, StoreIsNew
  <2>4. GotIsNew'
    BY <1>1, <2>1 DEF TabInv, GotIsNew, Got, At
  <2>. QED BY <2>2, <2>3, <2>4 DEF TabInv
<1>3. CASE ~MustWait
  <2>1. /\ flight = None /\ RefreshRead(c, store, "tab") /\ flight' = c
        /\ presented' = presented \cup {store} /\ waiting' = waiting
    BY <1>3 DEF Unauthorized, MustWait
  <2>2. AuthInv'
    BY <1>1, <2>1, RefreshReadKeeps
  <2>3. PICK i \in 1..sessions : i = store
    BY <1>1
  <2>4. /\ sessions' = sessions
        /\ \E d \in AuthCalls : Do(c, d) /\ d.via = "tab" /\ d.op \in {"revoke", "done"} /\ d.got = 0
    <3>1. sessions' = sessions
      BY <2>1 DEF RefreshRead, sessionVars
    <3>2. i \in Rows /\ i \in 0..MaxSessions
      BY CountsType DEF Rows
    <3>3. cred[i] \in Passwords
      BY <3>2 DEF AuthInv, AuthTypeOK
    <3>4. CASE Refreshable(i)
      <4>1. PICK d : d = [Fresh EXCEPT !.op = RotationStart, !.id = i, !.cred = cred[i], !.via = "tab"]
        OBVIOUS
      <4>2. \A x \in AuthCalls :
              LET y == [x EXCEPT !.op = "revoke", !.id = i, !.cred = cred[i], !.via = "tab"] IN
              y \in AuthCalls /\ y.op = "revoke" /\ y.via = "tab" /\ y.got = x.got
        BY <3>2, <3>3 DEF AuthCalls, Ops
      <4>3. Do(c, d)
        BY <2>1, <2>3, <3>4, <4>1 DEF RefreshRead
      <4>. QED BY <3>1, <4>1, <4>2, <4>3, FreshHolds DEF RotationStart
    <3>5. CASE ~Refreshable(i)
      <4>1. PICK d : d = [Fresh EXCEPT !.op = "done", !.id = i, !.via = "tab"]
        OBVIOUS
      <4>2. \A x \in AuthCalls : LET y == [x EXCEPT !.op = "done", !.id = i, !.via = "tab"] IN
              y \in AuthCalls /\ y.op = "done" /\ y.via = "tab" /\ y.got = x.got
        BY <3>2 DEF AuthCalls, Ops
      <4>3. Do(c, d)
        BY <2>1, <2>3, <3>5, <4>1 DEF RefreshRead
      <4>. QED BY <3>1, <4>1, <4>2, <4>3, FreshHolds
    <3>. QED BY <3>4, <3>5
  <2>5. PICK d \in AuthCalls : Do(c, d) /\ d.via = "tab" /\ d.op \in {"revoke", "done"} /\ d.got = 0
    BY <2>4
  <2>6. call'[c] = d /\ d # None /\ \A x \in Callers \ {c} : call'[x] = call[x]
    BY <2>5, CallMoves, AuthAssumption
  <2>7. BrowserTypeOK'
    <3>1. \A x \in Callers : ~(call[x] # None /\ call[x].via = "tab")
      BY <2>1, AuthAssumption DEF TabInv, BrowserTypeOK
    <3>2. \A x \in Callers : flight' = x <=> call'[x] # None /\ call'[x].via = "tab"
      BY <2>1, <2>5, <2>6, <3>1
    <3>3. /\ store' \in 1..sessions' \cup {None} /\ flight' \in Callers \cup {None} /\ flight' # None
          /\ waiting' \subseteq Callers /\ presented' \subseteq 1..sessions'
      BY <1>1, <2>1, <2>4, AuthAssumption DEF TabInv, BrowserTypeOK
    <3>. QED BY <3>2, <3>3 DEF BrowserTypeOK
  <2>8. StoreIsNew'
    BY <2>1, AuthAssumption DEF StoreIsNew
  <2>9. GotIsNew'
    <3>1. \A x \in Callers : Got(x)' <=> Got(x)
      BY <1>1, <2>5, <2>6 DEF Got, At
    <3>2. \A x \in Callers : Got(x) => x # c /\ call'[x] = call[x]
      BY <1>1, <2>6 DEF Got, At
    <3>. QED BY <1>1, <2>1, <2>4, <3>1, <3>2 DEF TabInv, GotIsNew
  <2>. QED BY <2>2, <2>7, <2>8, <2>9 DEF TabInv
<1>. QED BY <1>2, <1>3

LEMMA RefreshedKeeps ==
  ASSUME AuthInv, TabInv, NEW c \in Callers, Refreshed(c) PROVE AuthInv' /\ TabInv'
<1>1. /\ At(c, "done") /\ call[c] # None /\ call[c].via = "tab" /\ Do(c, None)
      /\ store' = AfterRefresh(call[c].got) /\ flight' = None /\ waiting' = {}
      /\ UNCHANGED <<account, password, sessionVars, resetVars, killVars, crashes, presented>>
  BY DEF Refreshed, At
<1>2. AuthInv'
  BY <1>1, TakeAnswerKeeps
<1>3. call'[c] = None /\ (\A x \in Callers \ {c} : call'[x] = call[x]) /\ sessions' = sessions
  BY <1>1, CallMoves DEF sessionVars
<1>4. store' = None \/ (Got(c) /\ store' = call[c].got)
  BY <1>1 DEF Got, AfterRefresh
<1>5. BrowserTypeOK'
  <2>1. flight = c
    BY <1>1 DEF TabInv, BrowserTypeOK
  <2>2. \A x \in Callers : flight' = x <=> call'[x] # None /\ call'[x].via = "tab"
    BY <1>1, <1>3, <2>1, AuthAssumption DEF TabInv, BrowserTypeOK
  <2>3. store' \in 1..sessions \cup {None}
    BY <1>4, GotIs
  <2>4. presented' \subseteq 1..sessions'
    BY <1>1, <1>3 DEF TabInv, BrowserTypeOK
  <2>. QED BY <1>1, <1>3, <2>2, <2>3, <2>4 DEF BrowserTypeOK
<1>6. StoreIsNew'
  BY <1>1, <1>4, GotIs DEF StoreIsNew
<1>7. GotIsNew'
  <2>1. \A x \in Callers : Got(x)' <=> Got(x) /\ x # c
    BY <1>3 DEF Got, At
  <2>2. \A x \in Callers : Got(x) /\ x # c => call[x].got # store'
    BY <1>4, GotIs
  <2>. QED BY <1>1, <1>3, <2>1, <2>2 DEF TabInv, GotIsNew
<1>. QED BY <1>2, <1>5, <1>6, <1>7 DEF TabInv

LEMMA AuthStart == BrowserInit => AuthInv /\ TabInv
<1>. SUFFICES ASSUME BrowserInit PROVE AuthInv /\ TabInv
  OBVIOUS
<1>. USE DEF BrowserInit, AuthInit
<1>1. AuthTypeOK
  <2>1. /\ call \in [Callers -> AuthCalls \cup {None}] /\ spent \in [Tokens -> Nat]
        /\ 0 \in Passwords /\ 0 \in 0..MaxSessions /\ 0 \in 0..MaxResets /\ 0 \in 0..MaxCrashes
        /\ \A i \in Rows : 0 < i
    BY AuthAssumption DEF Passwords, Rows
  <2>2. parent \in [Rows -> 0..MaxSessions] /\ cred \in [Rows -> Passwords] /\ \A i \in Rows : parent[i] < i
    BY <2>1
  <2>3. enforced \in 0..password
    OBVIOUS
  <2>. QED BY <2>1, <2>2, <2>3 DEF AuthTypeOK
<1>2. RoomKept
  <2>1. Busy(Issuing) = {} /\ Busy(Changing) = {}
    BY DEF Busy
  <2>2. IsFiniteSet({}) /\ Cardinality({}) = 0
    BY FS_EmptySet
  <2>. QED BY <2>1, <2>2, AuthAssumption DEF RoomKept
<1>3. CallsHold /\ EnforcementComes /\ UnusedIsUnspent
  BY DEF CallsHold, EnforcementComes, UnusedIsUnspent
<1>4. OldSessionsEnd /\ ExchangedIsRevoked /\ ResetOnce
  BY DEF OldSessionsEnd, Live, ExchangedIsRevoked, ResetOnce
<1>5. TabInv
  BY AuthAssumption DEF TabInv, BrowserTypeOK, StoreIsNew, GotIsNew, Got, At
<1>. QED BY <1>1, <1>2, <1>3, <1>4, <1>5 DEF AuthInv

LEMMA BrowserStepKeeps ==
  AuthInv /\ TabInv /\ [BrowserNext]_browserAuthVars => AuthInv' /\ TabInv'
<1>1. ASSUME AuthInv, TabInv, UNCHANGED browserAuthVars PROVE AuthInv' /\ TabInv'
  <2>1. /\ UNCHANGED <<account, password, sessions, revoked, overdue, parent, cred, late>>
        /\ UNCHANGED <<resets, used, lapsed, spent, kills, enforced, call, crashes>>
        /\ UNCHANGED <<store, flight, waiting, presented>>
    BY <1>1 DEF browserAuthVars, browserVars, authVars, sessionVars, resetVars, killVars
  <2>2. AuthTypeOK'
    BY <1>1, <2>1 DEF AuthInv, AuthTypeOK
  <2>3. AuthInv'
    BY <1>1, <2>1, <2>2, CountsType, TableStepKeeps
  <2>4. TabInv'
    BY <1>1, <2>1 DEF TabInv, BrowserTypeOK, StoreIsNew, GotIsNew, Got, At
  <2>. QED BY <2>3, <2>4
<1>. QED BY <1>1, AuthNextKeeps, SignInKeeps, UnauthorizedKeeps, RefreshedKeeps, SignedInKeeps,
            SignOutKeeps DEF BrowserNext

\* With nobody at work, the newest password is enforced.
LEMMA AuthSays == AuthInv => AuthTypeOK /\ SessionsEnd
<1>. SUFFICES ASSUME AuthInv PROVE AuthTypeOK /\ SessionsEnd
  OBVIOUS
<1>1. ChangesAreEnforced
  BY DEF AuthInv, EnforcementComes, Enforcing, At, ChangesAreEnforced
<1>. QED BY <1>1 DEF AuthInv, SessionsEnd

\* The refresh that begins presents a token the tab has not.
LEMMA RefreshPresentsOnce ==
  AuthInv /\ TabInv /\ [BrowserNext]_browserAuthVars =>
    \A c \in Callers : flight' = c /\ flight # c => store \notin presented
<1>. SUFFICES ASSUME AuthInv, TabInv, [BrowserNext]_browserAuthVars,
                     NEW c \in Callers, flight' = c, flight # c
              PROVE  store \notin presented
  OBVIOUS
<1>1. \E x \in Callers : Unauthorized(x)
  BY AuthAssumption DEF BrowserNext, SignIn, Refreshed, SignedIn, SignOut, browserAuthVars, browserVars
<1>2. flight = None /\ store # None
  BY <1>1 DEF Unauthorized, MustWait
<1>. QED BY <1>2 DEF TabInv, StoreIsNew

-------------------------------------------------------------------------------
(***************************************************************************)
(* What the proofs above come to.                                          *)
(***************************************************************************)

\* However requests of an account overlap, and wherever they are cut short: a changed
\* password ends the sessions of the old one, an exchanged token is revoked, a reset token
\* changes one password, and the tab presents no refresh token twice (auth.service.ts,
\* api-client.ts).
THEOREM SessionsAlwaysHold == BrowserSpec => SessionsHold
<1>1. AuthInv /\ TabInv /\ [BrowserNext]_browserAuthVars =>
        [\A c \in Callers : flight' = c /\ flight # c => store \notin presented]_browserAuthVars
  BY RefreshPresentsOnce
<1>. QED BY AuthStart, BrowserStepKeeps, AuthSays, <1>1, PTL DEF BrowserSpec, SessionsHold, PresentedOnce

\* However requests of a workspace overlap, its onboarding goes forward and is announced
\* once, an approved asset is reviewed again before it is a draft, and the first approval is
\* recorded, once, but for the very write of a request that was overtaken, a race, a lost
\* insert or a request cut short
\* (onboarding.service.ts, content-asset.service.ts).
THEOREM ActivationAlwaysHolds == ActivationSpec => ActivationHolds
<1>1. ActivationInv => CompletionAnnounced /\ FirstApprovalOnce
  BY DEF ActivationInv
<1>2. ActivationInv /\ [ActivationStep]_activationVars =>
        [StepsForward]_activationVars
  BY ActivationStepsForward
<1>3. ActivationInv /\ [ActivationStep]_activationVars =>
        [WalksBack]_activationVars
  BY ActivationStepsForward
<1>. QED BY ActivationStart, ActivationStepKeeps, <1>1, <1>2, <1>3, PTL
         DEF ActivationSpec, ActivationHolds, OnboardingGoesForward, ApprovedIsReviewed

\* However charges, checks, adjustments either way and an upgrade overlap, the alerts of a
\* period are those its usage has reached, each with its audit entry, once no check is under
\* way and somebody has charged since the usage last rose by other means
\* (usage-alert.service.ts).
THEOREM AlertsAlwaysMatch == AlertSpec => []AlertsMatchUsage
  BY AlertStart, AlertStepKeeps, AlertsSay, PTL DEF AlertSpec

\* A step of the whole is one of each component, or leaves it.
LEMMA AccountsStepIs ==
  [AccountsNext]_accountsVars =>
    /\ [BrowserNext]_browserAuthVars /\ [ActivationStep]_activationVars
    /\ [AlertStep]_alertVars /\ [AccessNext]_accessVars
  BY DEF AccountsNext, accountsVars, AccessNext

AccountsInv == AuthInv /\ TabInv /\ ActivationInv /\ AlertInv /\ AccessInv

LEMMA AccountsStart == AccountsInit => AccountsInv
  BY AuthStart, ActivationStart, AlertStart, AccessInitInvariant DEF AccountsInit, AccountsInv

LEMMA AccountsStepKeeps == AccountsInv /\ [AccountsNext]_accountsVars => AccountsInv'
  BY AccountsStepIs, BrowserStepKeeps, ActivationStepKeeps, AlertStepKeeps, AccessNextInvariant
     DEF AccountsInv

\* The tables, the requests under way and the histories keep their types, in every part.
THEOREM AccountsAreTyped == AccountsSpec => []AccountsTypeOK
<1>1. AccountsInv => AccountsTypeOK
  BY AuthSays, AlertsSay DEF AccountsInv, AccountsTypeOK, TabInv, ActivationInv, AccessInv
<1>. QED BY AccountsStart, AccountsStepKeeps, <1>1, PTL DEF AccountsSpec

\* The parts keep what they promise where they are put together.
THEOREM AccountsKeepTheirWord ==
  AccountsSpec => []AlertsMatchUsage /\ []AccessHolds /\ SessionsHold /\ ActivationHolds
<1>1. AccountsInv => /\ AlertsMatchUsage /\ AccessHolds /\ SessionsEnd
                     /\ CompletionAnnounced /\ FirstApprovalOnce
  BY AuthSays, AlertsSay DEF AccountsInv, ActivationInv, AccessInv
<1>2. AccountsInv /\ [AccountsNext]_accountsVars =>
        [\A c \in Callers : flight' = c /\ flight # c => store \notin presented]_browserAuthVars
  BY AccountsStepIs, RefreshPresentsOnce DEF AccountsInv
<1>3. AccountsInv /\ [AccountsNext]_accountsVars =>
        [StepsForward]_activationVars
  BY AccountsStepIs, ActivationStepsForward DEF AccountsInv
<1>4. AccountsInv /\ [AccountsNext]_accountsVars =>
        [WalksBack]_activationVars
  BY AccountsStepIs, ActivationStepsForward DEF AccountsInv
<1>. QED BY AccountsStart, AccountsStepKeeps, <1>1, <1>2, <1>3, <1>4, PTL
         DEF AccountsSpec, SessionsHold, PresentedOnce, ActivationHolds, OnboardingGoesForward,
             ApprovedIsReviewed
===============================================================================
