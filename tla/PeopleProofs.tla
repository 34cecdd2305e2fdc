----------------------------- MODULE PeopleProofs -----------------------------
(***************************************************************************)
(* Proofs about the people of a workspace: TeamSeats for any number of     *)
(* users, requests, plans and invitations, and PlanReview for any number   *)
(* of cards and plans.                                                     *)
(***************************************************************************)
EXTENDS MCTeamSeats, FiniteSetTheorems, TLAPS

(***************************************************************************)
(* The team and its seats.                                                 *)
(***************************************************************************)

\* What a request has read and decided.
TeamCallHolds(d) ==
  /\ d.op \in {"expire", "reread", "admit", "close"} => d.id <= invites
  /\ d.op = "close" => d.status \in {"DECLINED", "REVOKED"}
  /\ d.op = "usage" => d.target < d.plan
  /\ d.op = "plan" /\ d.target < d.plan => d.n <= Seats[d.target]
  /\ d.op = "pend" => d.target < d.plan /\ d.n > Seats[d.target]
  /\ d.op = "remove" \/ (d.op = "role" /\ d.role # "OWNER") =>
       (d.user \in d.owners => \E v \in d.owners : v # d.user)
TeamCallsHold == \A c \in TeamCallers : teamCall[c] # NoOne => TeamCallHolds(teamCall[c])

\* Under the lock, whoever is about to be invited is neither invited nor a member.
InvitedIsFree ==
  "token" \notin staleTeam =>
    \A c \in TeamCallers : Has(c, "count") =>
      /\ teamCall[c].user \notin Active
      /\ \A i \in Pending : invite[i].user # teamCall[c].user

\* A pending downgrade does not fit, or is about to be looked at again.
Rechecks(c) == teamCall[c] # NoOne /\ teamCall[c].op \in {"retry", "usage", "plan", "pend"}
PendingIsOver ==
  staleTeam \cap {"plan", "token"} = {} /\ pending # NoOne =>
    /\ pending < plan
    /\ Cardinality(Active) > Seats[pending] \/ \E c \in TeamCallers : Rechecks(c)

\* The inductive invariant.
TeamInv ==
  /\ TeamTypeOK /\ IsFiniteSet(Active) /\ TeamCallsHold /\ InvitedIsFree /\ PendingIsOver
  /\ SeatsFit /\ OneInvitation /\ OwnerStays

LEMMA TeamTypes ==
  ASSUME TeamInv
  PROVE  /\ invites \in Nat /\ invites <= MaxInvites /\ MaxInvites \in Nat /\ MaxPlan \in Nat
         /\ plan \in Plans /\ \A p \in Plans : p \in Nat /\ Seats[p] \in Nat
         /\ Cardinality(Active) \in Nat /\ IsFiniteSet(Active)
         /\ IsFiniteSet(Pending) /\ Cardinality(Pending) \in Nat
         /\ Pending \subseteq 1..invites /\ 1..invites \subseteq Ids
         /\ \A i \in 1..invites : i \in Ids /\ invite[i] \in Invites
<1>1. /\ invites \in Nat /\ invites <= MaxInvites /\ MaxInvites \in Nat /\ MaxPlan \in Nat
      /\ plan \in Plans /\ \A p \in Plans : p \in Nat /\ Seats[p] \in Nat
  BY TeamAssumption DEF TeamInv, TeamTypeOK, Plans
<1>2. Cardinality(Active) \in Nat /\ IsFiniteSet(Active)
  BY FS_CardinalityType DEF TeamInv
<1>3. Pending \subseteq 1..invites
  BY DEF Pending
<1>4. IsFiniteSet(1..invites)
  BY <1>1, FS_Interval
<1>5. IsFiniteSet(Pending) /\ Cardinality(Pending) \in Nat
  BY <1>3, <1>4, FS_Subset, FS_CardinalityType
<1>6. 1..invites \subseteq Ids
  BY <1>1 DEF Ids
<1>. QED BY <1>1, <1>2, <1>3, <1>5, <1>6 DEF TeamInv, TeamTypeOK

LEMMA TeamCallMoves ==
  ASSUME TeamInv, NEW c \in TeamCallers, NEW d \in TeamCalls \cup {NoOne}, Goes(c, d)
  PROVE  /\ teamCall' \in [TeamCallers -> TeamCalls \cup {NoOne}] /\ teamCall'[c] = d
         /\ \A x \in TeamCallers \ {c} : teamCall'[x] = teamCall[x]
  BY DEF TeamInv, TeamTypeOK, Goes

\* What a request under way is.
LEMMA TeamCallIs ==
  ASSUME TeamInv, NEW c \in TeamCallers, teamCall[c] # NoOne
  PROVE  teamCall[c] \in TeamCalls /\ TeamCallHolds(teamCall[c])
  BY DEF TeamInv, TeamTypeOK, TeamCallsHold

LEMMA NewRequestIs ==
  /\ NewRequest \in TeamCalls /\ NewRequest # NoOne
  /\ NewRequest.op = "lock" /\ NewRequest.plan = 0 /\ NewRequest.target = 0 /\ NewRequest.n = 0
<1>1. 1 \in Ids /\ 0 \in Plans /\ Founder \in Users /\ "MEMBER" \in Roles /\ "PENDING" \in InviteStatuses
      /\ "lock" \in TeamOps
  BY TeamAssumption DEF Ids, Plans, Roles, InviteStatuses, TeamOps
<1>2. NewRequest \in TeamCalls
  BY <1>1 DEF NewRequest, TeamCalls
<1>. QED BY <1>2, TeamAssumption DEF NewRequest

\* A call that differs in what it does next.
LEMMA OtherTeamOp ==
  \A x \in TeamCalls : \A o \in TeamOps : LET y == [x EXCEPT !.op = o] IN
    /\ y \in TeamCalls /\ y.op = o /\ y.user = x.user /\ y.role = x.role /\ y.id = x.id
    /\ y.status = x.status /\ y.n = x.n /\ y.plan = x.plan /\ y.target = x.target /\ y.owners = x.owners
  BY DEF TeamCalls

\* What the other requests have decided stays so, with more invitations too.
LEMMA TeamCallsStillHold ==
  ASSUME TeamInv, NEW c \in TeamCallers, NEW d \in TeamCalls \cup {NoOne}, Goes(c, d),
         invites' \in Nat, invites <= invites', d # NoOne => TeamCallHolds(d)'
  PROVE  TeamCallsHold'
<1>1. teamCall'[c] = d /\ \A x \in TeamCallers \ {c} : teamCall'[x] = teamCall[x]
  BY TeamCallMoves
<1>2. ASSUME NEW x \in TeamCallers, teamCall'[x] # NoOne PROVE TeamCallHolds(teamCall[x])'
  <2>1. CASE x = c
    BY <1>1, <1>2, <2>1 DEF TeamCallHolds
  <2>2. CASE x # c
    <3>1. PICK y \in TeamCalls : y = teamCall[x] /\ TeamCallHolds(y)
      BY <1>1, <1>2, <2>2, TeamCallIs
    <3>2. y.id \in Nat
      BY TeamAssumption DEF TeamCalls, Ids
    <3>3. TeamCallHolds(y)'
      BY <3>1, <3>2, TeamTypes DEF TeamCallHolds
    <3>. QED BY <1>1, <2>2, <3>1, <3>3 DEF TeamCallHolds
  <2>. QED BY <2>1, <2>2
<1>. QED BY <1>2 DEF TeamCallsHold

\* A step that reads and decides: the rows stay.
LEMMA ReadingKeeps ==
  ASSUME TeamInv, NEW c \in TeamCallers, NEW d \in TeamCalls \cup {NoOne}, Goes(c, d),
         UNCHANGED <<team, inviteVars, planVars, lock, staleTeam>>, requests' \in 0..MaxRequests,
         ~Has(c, "count"), d # NoOne => d.op # "count" /\ TeamCallHolds(d),
         Rechecks(c) /\ pending # NoOne => d # NoOne /\ d.op \in {"retry", "usage", "plan", "pend"}
  PROVE  TeamInv'
<1>1. /\ teamCall' \in [TeamCallers -> TeamCalls \cup {NoOne}] /\ teamCall'[c] = d
      /\ \A x \in TeamCallers \ {c} : teamCall'[x] = teamCall[x]
  BY TeamCallMoves
<1>2. UNCHANGED <<member, role, invites, invite, lapsedInvites, plan, pending, lock, staleTeam>>
  BY DEF team, inviteVars, planVars
<1>3. Active' = Active /\ Pending' = Pending /\ Owners' = Owners
  BY <1>2 DEF Active, Pending, Owners
<1>4. \A x \in TeamCallers : Has(x, "count")' <=> Has(x, "count")
  BY <1>1 DEF Has
<1>5. TeamTypeOK'
  <2>1. \A x \in TeamCallers : lock' = x <=> teamCall'[x] # NoOne /\ teamCall'[x].op = "count"
    BY <1>2, <1>4 DEF TeamInv, TeamTypeOK, Has
  <2>. QED BY <1>1, <1>2, <2>1 DEF TeamInv, TeamTypeOK
<1>6. TeamCallsHold'
  <2>1. d # NoOne => TeamCallHolds(d)'
    BY <1>2 DEF TeamCallHolds
  <2>2. invites' \in Nat /\ invites <= invites'
    BY <1>2, TeamTypes
  <2>. QED BY <2>1, <2>2, TeamCallsStillHold
<1>7. InvitedIsFree'
  <2>1. \A x \in TeamCallers : Has(x, "count") => teamCall'[x] = teamCall[x]
    BY <1>1
  <2>. QED BY <1>2, <1>3, <1>4, <2>1 DEF TeamInv, InvitedIsFree
<1>8. PendingIsOver'
  <2>1. pending # NoOne => \A x \in TeamCallers : Rechecks(x) => Rechecks(x)'
    BY <1>1 DEF Rechecks
  <2>. QED BY <1>2, <1>3, <2>1 DEF TeamInv, PendingIsOver
<1>9. SeatsFit' /\ OneInvitation' /\ OwnerStays' /\ IsFiniteSet(Active)'
  BY <1>2, <1>3 DEF TeamInv, SeatsFit, SeatsTaken, OneInvitation, OwnerStays
<1>. QED BY <1>5, <1>6, <1>7, <1>8, <1>9 DEF TeamInv

LEMMA InviteReadKeeps == ASSUME TeamInv, NEW c \in TeamCallers, InviteRead(c) PROVE TeamInv'
<1>1. PICK u \in Users, r \in Roles : Goes(c, [NewRequest EXCEPT !.user = u, !.role = r, !.plan = plan])
  BY DEF InviteRead
<1>2. PICK d : d = [NewRequest EXCEPT !.user = u, !.role = r, !.plan = plan]
  OBVIOUS
<1>3. d \in TeamCalls /\ d.op = "lock"
  <2>1. \A x \in TeamCalls : LET y == [x EXCEPT !.user = u, !.role = r, !.plan = plan] IN
          y \in TeamCalls /\ y.op = x.op
    BY TeamTypes DEF TeamCalls
  <2>. QED BY <1>2, <2>1, NewRequestIs
<1>4. TeamCallHolds(d)
  BY <1>3 DEF TeamCallHolds
<1>5. /\ UNCHANGED <<team, inviteVars, planVars, lock, staleTeam>> /\ requests' \in 0..MaxRequests
      /\ ~Has(c, "count") /\ ~Rechecks(c)
  BY DEF InviteRead, Has, Rechecks, TeamInv, TeamTypeOK
<1>. QED BY <1>1, <1>2, <1>3, <1>4, <1>5, ReadingKeeps

LEMMA AcceptReadKeeps ==
  ASSUME TeamInv, NEW c \in TeamCallers, NEW i \in Ids, AcceptRead(c, i) PROVE TeamInv'
<1>1. PICK d : d = [NewRequest EXCEPT !.id = i, !.op = IF i \in lapsedInvites THEN "expire" ELSE "reread"]
  OBVIOUS
<1>2. d \in TeamCalls /\ d.op \in {"expire", "reread"} /\ d.id = i
  <2>1. \A x \in TeamCalls : \A o \in {"expire", "reread"} : LET y == [x EXCEPT !.id = i, !.op = o] IN
          y \in TeamCalls /\ y.op = o /\ y.id = i
    BY DEF TeamCalls, TeamOps
  <2>2. PICK o \in {"expire", "reread"} : o = IF i \in lapsedInvites THEN "expire" ELSE "reread"
    OBVIOUS
  <2>. QED BY <1>1, <2>1, <2>2, NewRequestIs
<1>3. i <= invites /\ Goes(c, d) /\ UNCHANGED <<team, inviteVars, planVars, lock, requests, staleTeam>>
      /\ ~Has(c, "count") /\ ~Rechecks(c)
  BY <1>1, TeamTypes DEF AcceptRead, Has, Rechecks, Pending
<1>4. TeamCallHolds(d)
  BY <1>2, <1>3 DEF TeamCallHolds
<1>5. requests' \in 0..MaxRequests
  BY <1>3 DEF TeamInv, TeamTypeOK
<1>. QED BY <1>2, <1>3, <1>4, <1>5, ReadingKeeps

LEMMA AcceptReReadKeeps == ASSUME TeamInv, NEW c \in TeamCallers, AcceptReRead(c) PROVE TeamInv'
<1>1. /\ teamCall[c] # NoOne /\ teamCall[c].op = "reread"
      /\ UNCHANGED <<team, inviteVars, planVars, lock, requests, staleTeam>>
      /\ ~Has(c, "count") /\ ~Rechecks(c)
  BY DEF AcceptReRead, Has, Rechecks
<1>2. PICK x \in TeamCalls : x = teamCall[c] /\ TeamCallHolds(x)
  BY <1>1, TeamCallIs
<1>3. PICK d : d = IF x.id \in Pending THEN [x EXCEPT !.op = "admit"] ELSE NoOne
  OBVIOUS
<1>4. d \in TeamCalls \cup {NoOne} /\ (d # NoOne => d.op = "admit" /\ d.id = x.id)
  BY <1>3, OtherTeamOp DEF TeamOps
<1>5. Goes(c, d)
  BY <1>2, <1>3 DEF AcceptReRead, TurnsTo
<1>6. d # NoOne => TeamCallHolds(d)
  BY <1>1, <1>2, <1>4 DEF TeamCallHolds
<1>7. requests' \in 0..MaxRequests
  BY <1>1 DEF TeamInv, TeamTypeOK
<1>. QED BY <1>1, <1>4, <1>5, <1>6, <1>7, ReadingKeeps

LEMMA CloseReadKeeps ==
  ASSUME TeamInv, NEW c \in TeamCallers, NEW i \in Ids, CloseRead(c, i) PROVE TeamInv'
<1>1. PICK s \in {"DECLINED", "REVOKED"} : Goes(c, [NewRequest EXCEPT !.op = "close", !.id = i, !.status = s])
  BY DEF CloseRead
<1>2. PICK d : d = [NewRequest EXCEPT !.op = "close", !.id = i, !.status = s]
  OBVIOUS
<1>3. d \in TeamCalls /\ d.op = "close" /\ d.id = i /\ d.status = s
  <2>1. \A x \in TeamCalls : LET y == [x EXCEPT !.op = "close", !.id = i, !.status = s] IN
          y \in TeamCalls /\ y.op = "close" /\ y.id = i /\ y.status = s
    BY DEF TeamCalls, TeamOps, InviteStatuses
  <2>. QED BY <1>2, <2>1, NewRequestIs
<1>4. i <= invites /\ UNCHANGED <<team, inviteVars, planVars, lock, requests, staleTeam>>
      /\ ~Has(c, "count") /\ ~Rechecks(c)
  BY TeamTypes DEF CloseRead, Has, Rechecks, Pending
<1>5. TeamCallHolds(d)
  BY <1>3, <1>4 DEF TeamCallHolds
<1>6. requests' \in 0..MaxRequests
  BY <1>4 DEF TeamInv, TeamTypeOK
<1>. QED BY <1>1, <1>2, <1>3, <1>4, <1>5, <1>6, ReadingKeeps

\* An owner who may stop being one leaves another.
LEMMA AnotherOwner ==
  ASSUME NEW u, MayStopOwning(u), u \in Owners
  PROVE  \E v \in Owners : v # u
<1>1. Cardinality(Owners) > 1
  BY DEF MayStopOwning, Owners
<1>2. Cardinality({u}) = 1
  BY FS_Singleton
<1>3. Owners # {u}
  BY <1>1, <1>2
<1>. QED BY <1>3

LEMMA RemoveReadKeeps == ASSUME TeamInv, NEW c \in TeamCallers, RemoveRead(c) PROVE TeamInv'
<1>1. PICK u \in Active : /\ MayStopOwning(u)
                          /\ Goes(c, [NewRequest EXCEPT !.op = "remove", !.user = u, !.owners = Owners])
  BY DEF RemoveRead
<1>2. PICK d : d = [NewRequest EXCEPT !.op = "remove", !.user = u, !.owners = Owners]
  OBVIOUS
<1>3. d \in TeamCalls /\ d.op = "remove" /\ d.user = u /\ d.owners = Owners
  <2>1. u \in Users /\ Owners \subseteq Users
    BY DEF Active, Owners
  <2>2. \A x \in TeamCalls : LET y == [x EXCEPT !.op = "remove", !.user = u, !.owners = Owners] IN
          y \in TeamCalls /\ y.op = "remove" /\ y.user = u /\ y.owners = Owners
    BY <2>1 DEF TeamCalls, TeamOps
  <2>. QED BY <1>2, <2>2, NewRequestIs
<1>4. TeamCallHolds(d)
  BY <1>1, <1>3, AnotherOwner DEF TeamCallHolds
<1>5. /\ UNCHANGED <<team, inviteVars, planVars, lock, staleTeam>> /\ requests' \in 0..MaxRequests
      /\ ~Has(c, "count") /\ ~Rechecks(c)
  BY TeamAssumption DEF RemoveRead, Has, Rechecks, TeamInv, TeamTypeOK
<1>. QED BY <1>1, <1>2, <1>3, <1>4, <1>5, ReadingKeeps

LEMMA RoleReadKeeps == ASSUME TeamInv, NEW c \in TeamCallers, RoleRead(c) PROVE TeamInv'
<1>1. PICK u \in Active, r \in Roles :
        /\ r # "OWNER" => MayStopOwning(u)
        /\ Goes(c, [NewRequest EXCEPT !.op = "role", !.user = u, !.role = r, !.owners = Owners])
  BY DEF RoleRead
<1>2. PICK d : d = [NewRequest EXCEPT !.op = "role", !.user = u, !.role = r, !.owners = Owners]
  OBVIOUS
<1>3. d \in TeamCalls /\ d.op = "role" /\ d.user = u /\ d.role = r /\ d.owners = Owners
  <2>1. u \in Users /\ Owners \subseteq Users
    BY DEF Active, Owners
  <2>2. \A x \in TeamCalls : LET y == [x EXCEPT !.op = "role", !.user = u, !.role = r, !.owners = Owners] IN
          y \in TeamCalls /\ y.op = "role" /\ y.user = u /\ y.role = r /\ y.owners = Owners
    BY <2>1 DEF TeamCalls, TeamOps
  <2>. QED BY <1>2, <2>2, NewRequestIs
<1>4. TeamCallHolds(d)
  BY <1>1, <1>3, AnotherOwner DEF TeamCallHolds
<1>5. /\ UNCHANGED <<team, inviteVars, planVars, lock, staleTeam>> /\ requests' \in 0..MaxRequests
      /\ ~Has(c, "count") /\ ~Rechecks(c)
  BY TeamAssumption DEF RoleRead, Has, Rechecks, TeamInv, TeamTypeOK
<1>. QED BY <1>1, <1>2, <1>3, <1>4, <1>5, ReadingKeeps

LEMMA PlanChangeIs ==
  ASSUME TeamInv, NEW c \in TeamCallers, NEW target \in Plans, PlanChange(c, target)
  PROVE  \E d \in TeamCalls : Goes(c, d) /\ d.op \in {"plan", "usage"} /\ TeamCallHolds(d)
<1>1. PICK o \in {"plan", "usage"} : o = IF target >= plan THEN "plan" ELSE "usage"
  OBVIOUS
<1>2. PICK d : d = [NewRequest EXCEPT !.op = o, !.plan = plan, !.target = target]
  OBVIOUS
<1>3. d \in TeamCalls /\ d.op = o /\ d.plan = plan /\ d.target = target
  <2>1. \A x \in TeamCalls : LET y == [x EXCEPT !.op = o, !.plan = plan, !.target = target] IN
          y \in TeamCalls /\ y.op = o /\ y.plan = plan /\ y.target = target
    BY TeamTypes DEF TeamCalls, TeamOps
  <2>. QED BY <1>2, <2>1, NewRequestIs
<1>4. target \in Nat /\ plan \in Nat
  BY TeamTypes
<1>5. TeamCallHolds(d)
  BY <1>1, <1>3, <1>4 DEF TeamCallHolds
<1>. QED BY <1>1, <1>2, <1>3, <1>5 DEF PlanChange

LEMMA RetryKeeps == ASSUME TeamInv, NEW c \in TeamCallers, Retry(c) PROVE TeamInv'
<1>1. /\ UNCHANGED <<team, inviteVars, planVars, lock, requests, staleTeam>> /\ ~Has(c, "count")
      /\ pending = NoOne => Goes(c, NoOne)
      /\ pending # NoOne => PlanChange(c, pending)
      /\ requests' \in 0..MaxRequests
  BY DEF Retry, Retried, Has, TeamInv, TeamTypeOK
<1>2. CASE pending = NoOne
  <2>1. PICK d : d = NoOne
    OBVIOUS
  <2>. QED BY <1>1, <1>2, <2>1, ReadingKeeps
<1>3. CASE pending # NoOne
  <2>1. pending \in Plans
    BY <1>3 DEF TeamInv, TeamTypeOK
  <2>2. PICK d \in TeamCalls : Goes(c, d) /\ d.op \in {"plan", "usage"} /\ TeamCallHolds(d)
    BY <1>1, <1>3, <2>1, PlanChangeIs
  <2>. QED BY <1>1, <2>2, ReadingKeeps, TeamAssumption
<1>. QED BY <1>2, <1>3

LEMMA PlanReadKeeps == ASSUME TeamInv, NEW c \in TeamCallers, PlanRead(c) PROVE TeamInv'
<1>1. PICK target \in Plans : PlanChange(c, target)
  BY DEF PlanRead
<1>2. PICK d \in TeamCalls : Goes(c, d) /\ d.op \in {"plan", "usage"} /\ TeamCallHolds(d)
  BY <1>1, PlanChangeIs
<1>3. /\ UNCHANGED <<team, inviteVars, planVars, lock, staleTeam>> /\ requests' \in 0..MaxRequests
      /\ ~Has(c, "count") /\ ~Rechecks(c)
  BY TeamAssumption DEF PlanRead, Has, Rechecks, TeamInv, TeamTypeOK
<1>. QED BY <1>2, <1>3, ReadingKeeps

LEMMA CountMembersKeeps == ASSUME TeamInv, NEW c \in TeamCallers, CountMembers(c) PROVE TeamInv'
<1>1. /\ teamCall[c] # NoOne /\ teamCall[c].op = "usage"
      /\ UNCHANGED <<team, inviteVars, planVars, lock, requests, staleTeam>>
      /\ ~Has(c, "count")
  BY DEF CountMembers, Has
<1>2. PICK x \in TeamCalls : x = teamCall[c] /\ TeamCallHolds(x)
  BY <1>1, TeamCallIs
<1>3. PICK n \in Nat : n = Cardinality(Active)
  BY TeamTypes
<1>4. PICK o \in {"pend", "plan"} : o = IF n > Seats[x.target] THEN "pend" ELSE "plan"
  OBVIOUS
<1>5. PICK d : d = [x EXCEPT !.n = n, !.op = o]
  OBVIOUS
<1>6. d \in TeamCalls /\ d.op = o /\ d.n = n /\ d.plan = x.plan /\ d.target = x.target
  <2>1. \A y \in TeamCalls : LET z == [y EXCEPT !.n = n, !.op = o] IN
          z \in TeamCalls /\ z.op = o /\ z.n = n /\ z.plan = y.plan /\ z.target = y.target
    BY DEF TeamCalls, TeamOps
  <2>. QED BY <1>5, <2>1
<1>7. Goes(c, d)
  BY <1>2, <1>3, <1>4, <1>5 DEF CountMembers
<1>8. TeamCallHolds(d)
  <2>1. x.target \in Plans /\ Seats[x.target] \in Nat
    BY TeamTypes DEF TeamCalls
  <2>. QED BY <1>1, <1>2, <1>4, <1>6, <2>1 DEF TeamCallHolds
<1>9. requests' \in 0..MaxRequests
  BY <1>1 DEF TeamInv, TeamTypeOK
<1>. QED BY <1>1, <1>4, <1>6, <1>7, <1>8, <1>9, ReadingKeeps, TeamAssumption

-------------------------------------------------------------------------------
\* Steps that write.

LEMMA OneMoreOf ==
  ASSUME NEW S, IsFiniteSet(S), NEW x, x \notin S
  PROVE  IsFiniteSet(S \cup {x}) /\ Cardinality(S \cup {x}) = Cardinality(S) + 1
  BY FS_AddElement

LEMMA OneFewerOf ==
  ASSUME NEW S, IsFiniteSet(S), NEW x \in S
  PROVE  IsFiniteSet(S \ {x}) /\ Cardinality(S \ {x}) = Cardinality(S) - 1
  BY FS_RemoveElement

LEMMA FewerOf ==
  ASSUME NEW S, IsFiniteSet(S), NEW x
  PROVE  /\ IsFiniteSet(S \ {x}) /\ Cardinality(S \ {x}) \in Nat
         /\ Cardinality(S \ {x}) <= Cardinality(S)
<1>1. S \ {x} \subseteq S
  OBVIOUS
<1>. QED BY <1>1, FS_Subset, FS_CardinalityType

\* A step of a request that leaves the lock alone.
LEMMA LockStays ==
  ASSUME TeamInv, NEW c \in TeamCallers, NEW d \in TeamCalls \cup {NoOne}, Goes(c, d),
         UNCHANGED lock, ~Has(c, "count"), d # NoOne => d.op # "count"
  PROVE  /\ \A x \in TeamCallers : Has(x, "count")' <=> Has(x, "count")
         /\ \A x \in TeamCallers : Has(x, "count") => teamCall'[x] = teamCall[x]
         /\ \A x \in TeamCallers : lock' = x <=> teamCall'[x] # NoOne /\ teamCall'[x].op = "count"
<1>1. /\ teamCall'[c] = d /\ \A x \in TeamCallers \ {c} : teamCall'[x] = teamCall[x]
  BY TeamCallMoves
<1>2. \A x \in TeamCallers : Has(x, "count")' <=> Has(x, "count")
  BY <1>1 DEF Has
<1>3. \A x \in TeamCallers : Has(x, "count") => teamCall'[x] = teamCall[x]
  BY <1>1
<1>. QED BY <1>2, <1>3 DEF Has, TeamInv, TeamTypeOK

\* The end of the request that has it.
LEMMA LockFreed ==
  ASSUME TeamInv, NEW c \in TeamCallers, Goes(c, NoOne), Has(c, "count"), lock' = NoOne
  PROVE  /\ \A x \in TeamCallers : ~Has(x, "count")'
         /\ \A x \in TeamCallers : lock' = x <=> teamCall'[x] # NoOne /\ teamCall'[x].op = "count"
<1>1. /\ teamCall'[c] = NoOne /\ \A x \in TeamCallers \ {c} : teamCall'[x] = teamCall[x]
  BY TeamCallMoves
<1>2. \A x \in TeamCallers : Has(x, "count") => x = c
  BY DEF Has, TeamInv, TeamTypeOK
<1>3. \A x \in TeamCallers : ~Has(x, "count")'
  BY <1>1, <1>2 DEF Has
<1>. QED BY <1>3, TeamAssumption DEF Has

\* What waits for its turn at the plan still does.
LEMMA RechecksStay ==
  ASSUME TeamInv, NEW c \in TeamCallers, NEW d \in TeamCalls \cup {NoOne}, Goes(c, d), ~Rechecks(c)
  PROVE  \A x \in TeamCallers : Rechecks(x) => Rechecks(x)'
<1>1. /\ teamCall'[c] = d /\ \A x \in TeamCallers \ {c} : teamCall'[x] = teamCall[x]
  BY TeamCallMoves
<1>. QED BY <1>1 DEF Rechecks

LEMMA InviteLockKeeps == ASSUME TeamInv, NEW c \in TeamCallers, InviteLock(c) PROVE TeamInv'
<1>1. /\ teamCall[c] # NoOne /\ teamCall[c].op = "lock" /\ lock = NoOne
      /\ UNCHANGED <<team, inviteVars, planVars, requests, staleTeam>>
      /\ ~Has(c, "count") /\ ~Rechecks(c) /\ requests' \in 0..MaxRequests
  BY DEF InviteLock, Has, MayLock, Rechecks, TeamInv, TeamTypeOK
<1>2. PICK x \in TeamCalls : x = teamCall[c] /\ TeamCallHolds(x)
  BY <1>1, TeamCallIs
<1>3. CASE (\E i \in Pending : invite[i].user = x.user) \/ x.user \in Active
  <2>1. Goes(c, NoOne) /\ UNCHANGED lock
    BY <1>2, <1>3 DEF InviteLock
  <2>2. PICK d : d = NoOne
    OBVIOUS
  <2>. QED BY <1>1, <2>1, <2>2, ReadingKeeps
<1>4. CASE ~((\E i \in Pending : invite[i].user = x.user) \/ x.user \in Active)
  <2>1. PICK n \in Nat : n = Cardinality(Active)
    BY TeamTypes
  <2>2. PICK d : d = [x EXCEPT !.op = "count", !.n = n]
    OBVIOUS
  <2>3. d \in TeamCalls /\ d.op = "count" /\ d.user = x.user
    <3>1. \A y \in TeamCalls : LET z == [y EXCEPT !.op = "count", !.n = n] IN
            z \in TeamCalls /\ z.op = "count" /\ z.user = y.user
      BY DEF TeamCalls, TeamOps
    <3>. QED BY <2>2, <3>1
  <2>4. Goes(c, d) /\ lock' = c
    BY <1>2, <1>4, <2>1, <2>2 DEF InviteLock
  <2>5. /\ teamCall' \in [TeamCallers -> TeamCalls \cup {NoOne}] /\ teamCall'[c] = d
        /\ \A y \in TeamCallers \ {c} : teamCall'[y] = teamCall[y]
    BY <2>3, <2>4, TeamCallMoves
  <2>6. UNCHANGED <<member, role, invites, invite, lapsedInvites, plan, pending, staleTeam>>
    BY <1>1 DEF team, inviteVars, planVars
  <2>7. Active' = Active /\ Pending' = Pending /\ Owners' = Owners
    BY <2>6 DEF Active, Pending, Owners
  <2>8. \A y \in TeamCallers : Has(y, "count")' <=> y = c
    BY <1>1, <2>3, <2>5, TeamAssumption DEF Has, TeamInv, TeamTypeOK
  <2>9. TeamTypeOK'
    <3>1. \A y \in TeamCallers : lock' = y <=> teamCall'[y] # NoOne /\ teamCall'[y].op = "count"
      BY <2>4, <2>8 DEF Has
    <3>. QED BY <1>1, <2>4, <2>5, <2>6, <3>1 DEF TeamInv, TeamTypeOK
  <2>10. TeamCallsHold'
    <3>1. TeamCallHolds(d)'
      BY <2>3 DEF TeamCallHolds
    <3>2. invites' \in Nat /\ invites <= invites'
      BY <2>6, TeamTypes
    <3>. QED BY <2>3, <2>4, <3>1, <3>2, TeamCallsStillHold
  <2>11. InvitedIsFree'
    BY <1>4, <2>3, <2>5, <2>6, <2>7, <2>8 DEF InvitedIsFree
  <2>12. PendingIsOver'
    <3>1. \A y \in TeamCallers : Rechecks(y) => Rechecks(y)'
      BY <1>1, <2>3, <2>4, RechecksStay
    <3>. QED BY <2>6, <2>7, <3>1 DEF TeamInv, PendingIsOver
  <2>13. SeatsFit' /\ OneInvitation' /\ OwnerStays' /\ IsFiniteSet(Active)'
    BY <2>6, <2>7 DEF TeamInv, SeatsFit, SeatsTaken, OneInvitation, OwnerStays
  <2>. QED BY <2>9, <2>10, <2>11, <2>12, <2>13 DEF TeamInv
<1>. QED BY <1>3, <1>4

LEMMA InviteCommitKeeps == ASSUME TeamInv, NEW c \in TeamCallers, InviteCommit(c) PROVE TeamInv'
<1>1. /\ Has(c, "count") /\ lock' = NoOne /\ Goes(c, NoOne)
      /\ UNCHANGED <<member, role, lapsedInvites, plan, pending, requests>>
      /\ ~Rechecks(c)
  BY DEF InviteCommit, Unlock, team, planVars, Rechecks, Has
<1>2. PICK d \in TeamCalls : d = teamCall[c] /\ TeamCallHolds(d)
  BY <1>1, TeamCallIs DEF Has
<1>3. /\ \A x \in TeamCallers : ~Has(x, "count")'
      /\ \A x \in TeamCallers : lock' = x <=> teamCall'[x] # NoOne /\ teamCall'[x].op = "count"
  BY <1>1, LockFreed
<1>4. teamCall' \in [TeamCallers -> TeamCalls \cup {NoOne}]
  BY <1>1, TeamCallMoves
<1>5. Active' = Active /\ Owners' = Owners /\ IsFiniteSet(Active)'
  BY <1>1, TeamTypes DEF Active, Owners
<1>6. /\ staleTeam' = staleTeam \/ staleTeam' = staleTeam \cup {"count"}
      /\ "count" \notin staleTeam' => d.n = Cardinality(Active) /\ d.plan = plan
  BY <1>2 DEF InviteCommit, Note
<1>7. staleTeam' \subseteq {"count", "token", "owner", "plan"}
  BY <1>6 DEF TeamInv, TeamTypeOK
<1>8. InvitedIsFree'
  BY <1>3 DEF InvitedIsFree
<1>9. PendingIsOver'
  <2>1. \A x \in TeamCallers : Rechecks(x) => Rechecks(x)'
    BY <1>1, RechecksStay
  <2>. QED BY <1>1, <1>5, <1>6, <2>1 DEF TeamInv, PendingIsOver
<1>10. OwnerStays'
  BY <1>5, <1>6 DEF TeamInv, OwnerStays
<1>11. CASE CountedSeats(d.n) < Seats[d.plan] /\ invites < MaxInvites
  <2>1. /\ invites' = invites + 1
        /\ invite' = [invite EXCEPT ![invites + 1] =
                       [user |-> d.user, role |-> d.role, status |-> "PENDING"]]
    BY <1>2, <1>11 DEF InviteCommit
  <2>2. PICK k \in Ids : k = invites + 1
    BY <1>11, TeamTypes DEF Ids
  <2>3. /\ invite' \in [Ids -> Invites] /\ invite'[k].user = d.user /\ invite'[k].status = "PENDING"
        /\ \A i \in Ids : i # k => invite'[i] = invite[i]
    BY <2>1, <2>2 DEF TeamInv, TeamTypeOK, Invites, InviteStatuses, TeamCalls
  <2>4. Pending' = Pending \cup {k} /\ k \notin Pending
    <3>1. k \notin 1..invites /\ 1..invites' = (1..invites) \cup {k}
      BY <2>1, <2>2, TeamTypes
    <3>2. \A i \in 1..invites : i \in Ids
      BY TeamTypes
    <3>. QED BY <2>2, <2>3, <3>1, <3>2 DEF Pending
  <2>5. TeamTypeOK'
    <3>1. invites' \in 0..MaxInvites /\ lapsedInvites' \subseteq 1..invites'
      BY <1>1, <1>11, <2>1, TeamTypes DEF TeamInv, TeamTypeOK
    <3>2. \A i \in Ids : invite'[i].status = "none" <=> i > invites'
      <4>1. SUFFICES ASSUME NEW i \in Ids PROVE invite'[i].status = "none" <=> i > invites'
        OBVIOUS
      <4>2. CASE i = k
        BY <2>1, <2>2, <2>3, <4>2, TeamTypes
      <4>3. CASE i # k
        <5>1. i \in Nat /\ (invite[i].status = "none" <=> i > invites)
          BY TeamTypes DEF TeamInv, TeamTypeOK, Ids
        <5>2. i > invites + 1 <=> i > invites
          BY <2>2, <4>3, <5>1, TeamTypes
        <5>. QED BY <2>1, <2>3, <4>3, <5>1, <5>2
      <4>. QED BY <4>2, <4>3
    <3>. QED BY <1>1, <1>3, <1>4, <1>7, <2>3, <3>1, <3>2 DEF TeamInv, TeamTypeOK
  <2>6. TeamCallsHold'
    <3>1. invites' \in Nat /\ invites <= invites'
      BY <2>1, TeamTypes
    <3>. QED BY <1>1, <3>1, TeamCallsStillHold
  <2>7. SeatsFit'
    <3>1. Cardinality(Pending') = Cardinality(Pending) + 1
      BY <2>4, TeamTypes, OneMoreOf
    <3>2. "count" \notin staleTeam' => Cardinality(Active) + Cardinality(Pending) < Seats[plan]
      BY <1>6, <1>11 DEF CountedSeats
    <3>. QED BY <1>1, <1>5, <3>1, <3>2, TeamTypes DEF SeatsFit, SeatsTaken
  <2>8. OneInvitation'
    <3>1. SUFFICES ASSUME "token" \notin staleTeam'
                   PROVE  \A i, j \in Pending' : /\ invite'[i].user = invite'[j].user => i = j
                                                 /\ invite'[i].user \notin Active'
      BY DEF OneInvitation
    <3>2. /\ d.user \notin Active
          /\ \A i \in Pending : invite[i].user # d.user
      BY <1>1, <1>2, <1>6, <3>1 DEF TeamInv, InvitedIsFree
    <3>3. \A i, j \in Pending : /\ invite[i].user = invite[j].user => i = j
                                /\ invite[i].user \notin Active
      BY <1>6, <3>1 DEF TeamInv, OneInvitation
    <3>4. \A i \in Pending : i # k /\ invite'[i] = invite[i]
      BY <2>3, <2>4, TeamTypes
    <3>5. invite'[k].user = d.user
      BY <2>3
    <3>. QED BY <1>5, <2>4, <3>2, <3>3, <3>4, <3>5
  <2>. QED BY <1>5, <1>8, <1>9, <1>10, <2>5, <2>6, <2>7, <2>8 DEF TeamInv
<1>12. CASE ~(CountedSeats(d.n) < Seats[d.plan] /\ invites < MaxInvites)
  <2>1. invites' = invites /\ invite' = invite
    BY <1>2, <1>12 DEF InviteCommit
  <2>2. Pending' = Pending
    BY <2>1 DEF Pending
  <2>3. TeamTypeOK'
    BY <1>1, <1>3, <1>4, <1>7, <2>1 DEF TeamInv, TeamTypeOK
  <2>4. TeamCallsHold'
    <3>1. invites' \in Nat /\ invites <= invites'
      BY <2>1, TeamTypes
    <3>. QED BY <1>1, <3>1, TeamCallsStillHold
  <2>5. SeatsFit' /\ OneInvitation'
    BY <1>1, <1>5, <1>6, <2>1, <2>2 DEF TeamInv, SeatsFit, SeatsTaken, OneInvitation
  <2>. QED BY <1>5, <1>8, <1>9, <1>10, <2>3, <2>4, <2>5 DEF TeamInv
<1>. QED BY <1>11, <1>12

LEMMA ExpireKeeps == ASSUME TeamInv, NEW i \in Ids, Expire(i) PROVE TeamInv'
<1>1. /\ UNCHANGED <<member, role, invites, invite, plan, pending, lock, teamCall, requests, staleTeam>>
      /\ lapsedInvites' = lapsedInvites \cup {i} /\ i \in 1..invites
  BY DEF Expire, team, planVars, Pending
<1>2. Active' = Active /\ Pending' = Pending /\ Owners' = Owners
  BY <1>1 DEF Active, Pending, Owners
<1>3. TeamTypeOK'
  BY <1>1 DEF TeamInv, TeamTypeOK
<1>4. TeamCallsHold'
  BY <1>1 DEF TeamInv, TeamCallsHold, TeamCallHolds
<1>5. InvitedIsFree' /\ OneInvitation'
  BY <1>1, <1>2 DEF TeamInv, InvitedIsFree, OneInvitation, Has
<1>6. PendingIsOver'
  BY <1>1, <1>2 DEF TeamInv, PendingIsOver, Rechecks
<1>7. SeatsFit' /\ OwnerStays' /\ IsFiniteSet(Active)'
  BY <1>1, <1>2 DEF TeamInv, SeatsFit, SeatsTaken, OwnerStays
<1>. QED BY <1>3, <1>4, <1>5, <1>6, <1>7 DEF TeamInv

LEMMA AcceptCommitKeeps == ASSUME TeamInv, NEW c \in TeamCallers, AcceptCommit(c) PROVE TeamInv'
<1>1. PICK i : i = teamCall[c].id
  OBVIOUS
<1>2. PICK u : u = invite[i].user
  OBVIOUS
<1>3. /\ Goes(c, NoOne) /\ teamCall[c] # NoOne /\ teamCall[c].op = "admit"
      /\ UNCHANGED <<invites, lapsedInvites, plan, pending, lock, requests>>
      /\ ~Has(c, "count") /\ ~Rechecks(c)
      /\ member' = [member EXCEPT ![u] = "ACTIVE"] /\ role' = [role EXCEPT ![u] = invite[i].role]
      /\ invite' = [invite EXCEPT ![i].status = "ACCEPTED"]
      /\ Note("token", i \notin Pending)
  BY <1>1, <1>2 DEF AcceptCommit, planVars, Has, Rechecks
<1>4. i \in Ids /\ i <= invites /\ i \in 1..invites /\ invite[i] \in Invites /\ u \in Users
  <2>1. teamCall[c] \in TeamCalls /\ TeamCallHolds(teamCall[c])
    BY <1>3, TeamCallIs
  <2>2. i \in Ids /\ i <= invites
    BY <1>1, <1>3, <2>1 DEF TeamCallHolds, TeamCalls
  <2>3. i \in 1..invites
    BY <2>2, TeamTypes DEF Ids
  <2>. QED BY <1>2, <2>2, <2>3, TeamTypes DEF Invites
<1>5. /\ invite' \in [Ids -> Invites] /\ invite'[i].status = "ACCEPTED"
      /\ \A j \in Ids : j # i => invite'[j] = invite[j]
  <2>1. \A x \in Invites : LET y == [x EXCEPT !.status = "ACCEPTED"] IN
          y \in Invites /\ y.status = "ACCEPTED"
    BY DEF Invites, InviteStatuses
  <2>2. invite \in [Ids -> Invites]
    BY DEF TeamInv, TeamTypeOK
  <2>. QED BY <1>3, <1>4, <2>1, <2>2
<1>6. Pending' = Pending \ {i}
  <2>1. \A j \in 1..invites : j \in Ids
    BY TeamTypes
  <2>. QED BY <1>3, <1>4, <1>5, <2>1 DEF Pending
<1>7. Active' = Active \cup {u}
  BY <1>3, <1>4 DEF Active, TeamInv, TeamTypeOK
<1>8. /\ teamCall' \in [TeamCallers -> TeamCalls \cup {NoOne}]
      /\ \A x \in TeamCallers : Has(x, "count")' <=> Has(x, "count")
      /\ \A x \in TeamCallers : Has(x, "count") => teamCall'[x] = teamCall[x]
      /\ \A x \in TeamCallers : lock' = x <=> teamCall'[x] # NoOne /\ teamCall'[x].op = "count"
  BY <1>3, LockStays, TeamCallMoves
<1>9. TeamTypeOK'
  <2>1. \A j \in Ids : invite'[j].status = "none" <=> j > invites'
    BY <1>3, <1>4, <1>5, TeamTypes DEF TeamInv, TeamTypeOK, Ids
  <2>2. /\ member' \in [Users -> {"none", "ACTIVE", "REMOVED"}] /\ role' \in [Users -> Roles]
        /\ staleTeam' \subseteq {"count", "token", "owner", "plan"}
    BY <1>3, <1>4 DEF TeamInv, TeamTypeOK, Invites, Note
  <2>. QED BY <1>3, <1>5, <1>8, <2>1, <2>2 DEF TeamInv, TeamTypeOK
<1>10. TeamCallsHold'
  BY <1>3, TeamTypes, TeamCallsStillHold
<1>11. IsFiniteSet(Active)'
  BY <1>7, TeamTypes, FS_AddElement
<1>12. CASE "token" \in staleTeam'
  BY <1>9, <1>10, <1>11, <1>12
     DEF TeamInv, InvitedIsFree, PendingIsOver, SeatsFit, OneInvitation, OwnerStays
<1>13. CASE "token" \notin staleTeam'
  <2>1. i \in Pending /\ staleTeam' = staleTeam
    BY <1>3, <1>13 DEF Note
  <2>2. /\ u \notin Active
        /\ \A j, k \in Pending : invite[j].user = invite[k].user => j = k
        /\ \A j \in Pending : invite[j].user \notin Active
    BY <1>2, <1>13, <2>1 DEF TeamInv, OneInvitation
  <2>3. /\ Cardinality(Active') = Cardinality(Active) + 1
        /\ Cardinality(Pending') = Cardinality(Pending) - 1
    BY <1>6, <1>7, <2>1, <2>2, TeamTypes, OneMoreOf, OneFewerOf
  <2>4. \A j \in Pending' : j \in Pending /\ invite'[j] = invite[j] /\ invite[j].user # u
    BY <1>2, <1>5, <1>6, <2>1, <2>2, TeamTypes
  <2>5. InvitedIsFree'
    <3>1. SUFFICES ASSUME NEW x \in TeamCallers, Has(x, "count")'
                   PROVE  /\ teamCall'[x].user \notin Active'
                          /\ \A j \in Pending' : invite'[j].user # teamCall'[x].user
      BY DEF InvitedIsFree
    <3>2. /\ teamCall'[x] = teamCall[x] /\ teamCall[x].user \notin Active
          /\ \A j \in Pending : invite[j].user # teamCall[x].user
      BY <1>8, <1>13, <2>1, <3>1 DEF TeamInv, InvitedIsFree
    <3>3. teamCall[x].user # u
      BY <1>2, <2>1, <3>2
    <3>. QED BY <1>7, <2>4, <3>2, <3>3
  <2>6. OneInvitation'
    BY <1>7, <2>2, <2>4 DEF OneInvitation
  <2>7. SeatsFit'
    <3>1. SeatsTaken' = SeatsTaken
      BY <2>3, TeamTypes DEF SeatsTaken
    <3>. QED BY <1>3, <2>1, <3>1 DEF TeamInv, SeatsFit
  <2>8. OwnerStays'
    <3>1. Owners \subseteq Owners'
      BY <1>3, <1>4, <1>7, <2>2 DEF Owners, Active, TeamInv, TeamTypeOK
    <3>. QED BY <2>1, <3>1 DEF TeamInv, OwnerStays
  <2>9. PendingIsOver'
    <3>1. SUFFICES ASSUME staleTeam' \cap {"plan", "token"} = {}, pending' # NoOne
                   PROVE  /\ pending' < plan'
                          /\ Cardinality(Active') > Seats[pending'] \/ \E x \in TeamCallers : Rechecks(x)'
      BY DEF PendingIsOver
    <3>2. /\ pending < plan /\ pending' = pending /\ plan' = plan /\ pending \in Plans
          /\ Cardinality(Active) > Seats[pending] \/ \E x \in TeamCallers : Rechecks(x)
      BY <1>3, <2>1, <3>1 DEF TeamInv, PendingIsOver, TeamTypeOK
    <3>3. Cardinality(Active) > Seats[pending] => Cardinality(Active') > Seats[pending]
      BY <2>3, <3>2, TeamTypes
    <3>4. \A x \in TeamCallers : Rechecks(x) => Rechecks(x)'
      BY <1>3, RechecksStay
    <3>. QED BY <3>2, <3>3, <3>4
  <2>. QED BY <1>9, <1>10, <1>11, <2>5, <2>6, <2>7, <2>8, <2>9 DEF TeamInv
<1>. QED BY <1>12, <1>13

LEMMA CloseCommitKeeps == ASSUME TeamInv, NEW c \in TeamCallers, CloseCommit(c) PROVE TeamInv'
<1>1. PICK i : i = teamCall[c].id
  OBVIOUS
<1>2. PICK s : s = IF teamCall[c].op = "expire" THEN "EXPIRED" ELSE teamCall[c].status
  OBVIOUS
<1>3. /\ Goes(c, NoOne) /\ teamCall[c] # NoOne /\ teamCall[c].op \in {"close", "expire"}
      /\ UNCHANGED <<member, role, invites, lapsedInvites, plan, pending, lock, requests>>
      /\ ~Has(c, "count") /\ ~Rechecks(c)
      /\ invite' = [invite EXCEPT ![i].status = s]
      /\ staleTeam' = staleTeam \/ staleTeam' = staleTeam \cup {"token"}
  BY <1>1, <1>2 DEF CloseCommit, team, planVars, Has, Rechecks, Note
<1>4. i \in Ids /\ i <= invites /\ s \in InviteStatuses \ {"PENDING"}
  <2>1. teamCall[c] \in TeamCalls /\ TeamCallHolds(teamCall[c])
    BY <1>3, TeamCallIs
  <2>. QED BY <1>1, <1>2, <1>3, <2>1 DEF TeamCallHolds, TeamCalls, InviteStatuses
<1>5. /\ invite' \in [Ids -> Invites] /\ invite'[i].status = s
      /\ \A j \in Ids : j # i => invite'[j] = invite[j]
  <2>1. \A x \in Invites : LET y == [x EXCEPT !.status = s] IN y \in Invites /\ y.status = s
    BY <1>4 DEF Invites
  <2>2. invite \in [Ids -> Invites]
    BY DEF TeamInv, TeamTypeOK
  <2>. QED BY <1>3, <1>4, <2>1, <2>2
<1>6. Pending' = Pending \ {i}
  <2>1. \A j \in 1..invites : j \in Ids
    BY TeamTypes
  <2>. QED BY <1>3, <1>4, <1>5, <2>1 DEF Pending
<1>7. Active' = Active /\ Owners' = Owners /\ IsFiniteSet(Active)'
  BY <1>3, TeamTypes DEF Active, Owners
<1>8. /\ teamCall' \in [TeamCallers -> TeamCalls \cup {NoOne}]
      /\ \A x \in TeamCallers : Has(x, "count")' <=> Has(x, "count")
      /\ \A x \in TeamCallers : Has(x, "count") => teamCall'[x] = teamCall[x]
      /\ \A x \in TeamCallers : lock' = x <=> teamCall'[x] # NoOne /\ teamCall'[x].op = "count"
  BY <1>3, LockStays, TeamCallMoves
<1>9. TeamTypeOK'
  <2>1. \A j \in Ids : invite'[j].status = "none" <=> j > invites'
    BY <1>3, <1>4, <1>5, TeamTypes DEF TeamInv, TeamTypeOK, Ids, InviteStatuses
  <2>2. staleTeam' \subseteq {"count", "token", "owner", "plan"}
    BY <1>3 DEF TeamInv, TeamTypeOK
  <2>. QED BY <1>3, <1>5, <1>8, <2>1, <2>2 DEF TeamInv, TeamTypeOK
<1>10. TeamCallsHold'
  BY <1>3, TeamTypes, TeamCallsStillHold
<1>11. \A j \in Pending' : j \in Pending /\ invite'[j] = invite[j]
  BY <1>5, <1>6, TeamTypes
<1>12. InvitedIsFree'
  BY <1>3, <1>7, <1>8, <1>11 DEF TeamInv, InvitedIsFree
<1>13. OneInvitation'
  BY <1>3, <1>7, <1>11 DEF TeamInv, OneInvitation
<1>14. SeatsFit'
  <2>1. Cardinality(Pending') \in Nat /\ Cardinality(Pending') <= Cardinality(Pending)
    BY <1>6, TeamTypes, FewerOf
  <2>. QED BY <1>3, <1>7, <2>1, TeamTypes DEF TeamInv, SeatsFit, SeatsTaken
<1>15. OwnerStays'
  BY <1>3, <1>7 DEF TeamInv, OwnerStays
<1>16. PendingIsOver'
  <2>1. \A x \in TeamCallers : Rechecks(x) => Rechecks(x)'
    BY <1>3, RechecksStay
  <2>. QED BY <1>3, <1>7, <2>1 DEF TeamInv, PendingIsOver
<1>. QED BY <1>7, <1>9, <1>10, <1>12, <1>13, <1>14, <1>15, <1>16 DEF TeamInv

LEMMA RemoveCommitKeeps == ASSUME TeamInv, NEW c \in TeamCallers, RemoveCommit(c) PROVE TeamInv'
<1>1. teamCall[c] # NoOne /\ teamCall[c].op = "remove"
  BY DEF RemoveCommit, Has
<1>2. PICK x \in TeamCalls : x = teamCall[c] /\ TeamCallHolds(x)
  BY <1>1, TeamCallIs
<1>3. PICK d : d = [NewRequest EXCEPT !.op = "retry"]
  OBVIOUS
<1>4. d \in TeamCalls /\ d # NoOne /\ d.op = "retry"
  <2>1. \A y \in TeamCalls : LET z == [y EXCEPT !.op = "retry"] IN z \in TeamCalls /\ z.op = "retry"
    BY DEF TeamCalls, TeamOps
  <2>. QED BY <1>3, <2>1, NewRequestIs, TeamAssumption
<1>5. /\ Goes(c, d) /\ ~Has(c, "count")
      /\ UNCHANGED <<role, invites, invite, lapsedInvites, plan, pending, lock, requests>>
      /\ member' = [member EXCEPT ![x.user] = "REMOVED"]
      /\ staleTeam' = staleTeam \/ staleTeam' = staleTeam \cup {"owner"}
      /\ "owner" \notin staleTeam' => ~Miscounts(x)
  BY <1>1, <1>2, <1>3 DEF RemoveCommit, TurnsTo, inviteVars, planVars, Has, Note
<1>6. x.user \in Users
  BY DEF TeamCalls
<1>7. Active' = Active \ {x.user} /\ Owners' = Owners \ {x.user} /\ Pending' = Pending
  BY <1>5, <1>6 DEF Active, Owners, Pending, TeamInv, TeamTypeOK
<1>8. /\ IsFiniteSet(Active') /\ Cardinality(Active') \in Nat
      /\ Cardinality(Active') <= Cardinality(Active)
  BY <1>7, TeamTypes, FewerOf
<1>9. /\ teamCall' \in [TeamCallers -> TeamCalls \cup {NoOne}] /\ teamCall'[c] = d
      /\ \A y \in TeamCallers : Has(y, "count")' <=> Has(y, "count")
      /\ \A y \in TeamCallers : Has(y, "count") => teamCall'[y] = teamCall[y]
      /\ \A y \in TeamCallers : lock' = y <=> teamCall'[y] # NoOne /\ teamCall'[y].op = "count"
  BY <1>4, <1>5, LockStays, TeamCallMoves
<1>10. TeamTypeOK'
  <2>1. /\ member' \in [Users -> {"none", "ACTIVE", "REMOVED"}]
        /\ staleTeam' \subseteq {"count", "token", "owner", "plan"}
    BY <1>5, <1>6 DEF TeamInv, TeamTypeOK
  <2>. QED BY <1>5, <1>9, <2>1 DEF TeamInv, TeamTypeOK
<1>11. TeamCallsHold'
  <2>1. TeamCallHolds(d)'
    BY <1>4 DEF TeamCallHolds
  <2>2. invites' \in Nat /\ invites <= invites'
    BY <1>5, TeamTypes
  <2>. QED BY <1>4, <1>5, <2>1, <2>2, TeamCallsStillHold
<1>12. InvitedIsFree' /\ OneInvitation'
  BY <1>5, <1>7, <1>9 DEF TeamInv, InvitedIsFree, OneInvitation
<1>13. SeatsFit'
  BY <1>5, <1>7, <1>8, TeamTypes DEF TeamInv, SeatsFit, SeatsTaken
<1>14. OwnerStays'
  <2>1. ~Miscounts(x) /\ Owners # {} => Owners' # {}
    BY <1>1, <1>2, <1>7 DEF TeamCallHolds, Miscounts
  <2>. QED BY <1>5, <2>1 DEF TeamInv, OwnerStays
<1>15. PendingIsOver'
  <2>1. Rechecks(c)'
    BY <1>4, <1>9 DEF Rechecks
  <2>. QED BY <1>5, <2>1 DEF TeamInv, PendingIsOver
<1>. QED BY <1>8, <1>10, <1>11, <1>12, <1>13, <1>14, <1>15 DEF TeamInv

LEMMA RoleCommitKeeps == ASSUME TeamInv, NEW c \in TeamCallers, RoleCommit(c) PROVE TeamInv'
<1>1. teamCall[c] # NoOne /\ teamCall[c].op = "role"
  BY DEF RoleCommit, Has
<1>2. PICK x \in TeamCalls : x = teamCall[c] /\ TeamCallHolds(x)
  BY <1>1, TeamCallIs
<1>3. /\ Goes(c, NoOne) /\ ~Has(c, "count") /\ ~Rechecks(c)
      /\ UNCHANGED <<member, invites, invite, lapsedInvites, plan, pending, lock, requests>>
      /\ role' = [role EXCEPT ![x.user] = x.role]
      /\ staleTeam' = staleTeam \/ staleTeam' = staleTeam \cup {"owner"}
      /\ "owner" \notin staleTeam' => ~Miscounts(x)
  BY <1>1, <1>2 DEF RoleCommit, inviteVars, planVars, Has, Rechecks, Note
<1>4. x.user \in Users /\ x.role \in Roles
  BY DEF TeamCalls
<1>5. Active' = Active /\ Pending' = Pending /\ IsFiniteSet(Active)'
  BY <1>3, TeamTypes DEF Active, Pending
<1>6. /\ x.role = "OWNER" => Owners \subseteq Owners'
      /\ Owners \ {x.user} \subseteq Owners'
  BY <1>3, <1>4, <1>5 DEF Owners, Active, TeamInv, TeamTypeOK
<1>7. /\ teamCall' \in [TeamCallers -> TeamCalls \cup {NoOne}]
      /\ \A y \in TeamCallers : Has(y, "count")' <=> Has(y, "count")
      /\ \A y \in TeamCallers : Has(y, "count") => teamCall'[y] = teamCall[y]
      /\ \A y \in TeamCallers : lock' = y <=> teamCall'[y] # NoOne /\ teamCall'[y].op = "count"
  BY <1>3, LockStays, TeamCallMoves
<1>8. TeamTypeOK'
  <2>1. role' \in [Users -> Roles] /\ staleTeam' \subseteq {"count", "token", "owner", "plan"}
    BY <1>3, <1>4 DEF TeamInv, TeamTypeOK
  <2>. QED BY <1>3, <1>7, <2>1 DEF TeamInv, TeamTypeOK
<1>9. TeamCallsHold'
  BY <1>3, TeamTypes, TeamCallsStillHold
<1>10. InvitedIsFree' /\ OneInvitation'
  BY <1>3, <1>5, <1>7 DEF TeamInv, InvitedIsFree, OneInvitation
<1>11. SeatsFit'
  BY <1>3, <1>5 DEF TeamInv, SeatsFit, SeatsTaken
<1>12. OwnerStays'
  <2>1. ~Miscounts(x) /\ Owners # {} => Owners' # {}
    BY <1>1, <1>2, <1>6 DEF TeamCallHolds, Miscounts
  <2>. QED BY <1>3, <2>1 DEF TeamInv, OwnerStays
<1>13. PendingIsOver'
  <2>1. \A y \in TeamCallers : Rechecks(y) => Rechecks(y)'
    BY <1>3, RechecksStay
  <2>. QED BY <1>3, <1>5, <2>1 DEF TeamInv, PendingIsOver
<1>. QED BY <1>5, <1>8, <1>9, <1>10, <1>11, <1>12, <1>13 DEF TeamInv

LEMMA PlanCommitKeeps == ASSUME TeamInv, NEW c \in TeamCallers, PlanCommit(c) PROVE TeamInv'
<1>1. teamCall[c] # NoOne /\ teamCall[c].op \in {"plan", "pend"}
  BY DEF PlanCommit, Has
<1>2. PICK d \in TeamCalls : d = teamCall[c] /\ TeamCallHolds(d)
  BY <1>1, TeamCallIs
<1>3. /\ Goes(c, NoOne) /\ ~Has(c, "count")
      /\ UNCHANGED <<member, role, invites, invite, lapsedInvites, lock, requests>>
      /\ d.op = "plan" => plan' = d.target /\ pending' = NoOne
      /\ d.op = "pend" => plan' = plan /\ pending' = d.target
      /\ staleTeam' = staleTeam \/ staleTeam' = staleTeam \cup {"plan"}
      /\ "plan" \notin staleTeam' =>
           /\ d.plan = plan
           /\ d.target < d.plan => d.n = Cardinality(Active)
           /\ d.target < d.plan /\ d.op = "plan" => Pending = {}
  BY <1>1, <1>2 DEF PlanCommit, team, inviteVars, Has, Note
<1>4. d.target \in Plans /\ d.plan \in Plans
  BY DEF TeamCalls
<1>5. Active' = Active /\ Pending' = Pending /\ Owners' = Owners /\ IsFiniteSet(Active)'
  BY <1>3, TeamTypes DEF Active, Pending, Owners
<1>6. /\ teamCall' \in [TeamCallers -> TeamCalls \cup {NoOne}]
      /\ \A y \in TeamCallers : Has(y, "count")' <=> Has(y, "count")
      /\ \A y \in TeamCallers : Has(y, "count") => teamCall'[y] = teamCall[y]
      /\ \A y \in TeamCallers : lock' = y <=> teamCall'[y] # NoOne /\ teamCall'[y].op = "count"
  BY <1>3, LockStays, TeamCallMoves
<1>7. TeamTypeOK'
  <2>1. /\ plan' \in Plans /\ pending' \in Plans \cup {NoOne}
        /\ staleTeam' \subseteq {"count", "token", "owner", "plan"}
    BY <1>1, <1>2, <1>3, <1>4 DEF TeamInv, TeamTypeOK
  <2>. QED BY <1>3, <1>6, <2>1 DEF TeamInv, TeamTypeOK
<1>8. TeamCallsHold'
  BY <1>3, TeamTypes, TeamCallsStillHold
<1>9. InvitedIsFree' /\ OneInvitation'
  BY <1>3, <1>5, <1>6 DEF TeamInv, InvitedIsFree, OneInvitation
<1>10. OwnerStays'
  BY <1>3, <1>5 DEF TeamInv, OwnerStays
<1>11. CASE "plan" \in staleTeam'
  BY <1>5, <1>7, <1>8, <1>9, <1>10, <1>11 DEF TeamInv, SeatsFit, PendingIsOver
<1>12. CASE "plan" \notin staleTeam'
  <2>1. staleTeam' = staleTeam /\ d.plan = plan
    BY <1>3, <1>12
  <2>2. SeatsFit'
    <3>1. SUFFICES ASSUME staleTeam \cap {"count", "plan", "token"} = {}
                   PROVE  SeatsTaken' <= Seats[plan']
      BY <2>1 DEF SeatsFit
    <3>2. SeatsTaken <= Seats[plan] /\ SeatsTaken' = SeatsTaken /\ SeatsTaken \in Nat
      BY <1>5, <3>1, TeamTypes DEF TeamInv, SeatsFit, SeatsTaken
    <3>3. CASE d.op = "pend"
      BY <1>3, <3>2, <3>3
    <3>4. CASE d.op = "plan" /\ d.target < d.plan
      <4>1. d.n = Cardinality(Active) /\ Pending = {} /\ d.n <= Seats[d.target]
        BY <1>2, <1>3, <1>12, <3>4 DEF TeamCallHolds
      <4>2. SeatsTaken = d.n
        BY <4>1, FS_EmptySet, TeamTypes DEF SeatsTaken
      <4>. QED BY <1>3, <3>2, <3>4, <4>1, <4>2
    <3>5. CASE d.op = "plan" /\ ~(d.target < d.plan)
      <4>1. plan <= d.target
        BY <1>4, <2>1, <3>5, TeamTypes
      <4>2. Seats[plan] <= Seats[d.target] /\ Seats[plan] \in Nat /\ Seats[d.target] \in Nat
        BY <1>4, <4>1, TeamTypes, TeamAssumption
      <4>. QED BY <1>3, <3>2, <3>5, <4>2
    <3>. QED BY <1>1, <1>2, <3>3, <3>4, <3>5
  <2>3. PendingIsOver'
    <3>1. CASE d.op = "plan"
      BY <1>3, <3>1 DEF PendingIsOver
    <3>2. CASE d.op = "pend"
      BY <1>2, <1>3, <1>5, <1>12, <2>1, <3>2 DEF TeamCallHolds, PendingIsOver
    <3>. QED BY <1>1, <1>2, <3>1, <3>2
  <2>. QED BY <1>5, <1>7, <1>8, <1>9, <1>10, <2>2, <2>3 DEF TeamInv
<1>. QED BY <1>11, <1>12

LEMMA AbortKeeps == ASSUME TeamInv, NEW c \in TeamCallers, Abort(c) PROVE TeamInv'
<1>1. /\ Goes(c, NoOne) /\ teamCall[c] # NoOne
      /\ UNCHANGED <<member, role, invites, invite, lapsedInvites, plan, pending, requests>>
      /\ lock = c => lock' = NoOne
      /\ lock # c => lock' = lock
      /\ staleTeam' = staleTeam \/ staleTeam' = staleTeam \cup {"plan"}
      /\ "plan" \notin staleTeam' => ~Rechecks(c)
  BY DEF Abort, team, inviteVars, planVars, Unlock, Note, Rechecks
<1>2. Active' = Active /\ Pending' = Pending /\ Owners' = Owners /\ IsFiniteSet(Active)'
  BY <1>1, TeamTypes DEF Active, Pending, Owners
<1>3. /\ teamCall' \in [TeamCallers -> TeamCalls \cup {NoOne}]
      /\ \A y \in TeamCallers : Has(y, "count")' => Has(y, "count") /\ teamCall'[y] = teamCall[y]
      /\ \A y \in TeamCallers : lock' = y <=> teamCall'[y] # NoOne /\ teamCall'[y].op = "count"
  <2>1. lock = c <=> Has(c, "count")
    BY DEF TeamInv, TeamTypeOK, Has
  <2>2. CASE lock = c
    <3>1. /\ \A y \in TeamCallers : ~Has(y, "count")'
          /\ \A y \in TeamCallers : lock' = y <=> teamCall'[y] # NoOne /\ teamCall'[y].op = "count"
      BY <1>1, <2>1, <2>2, LockFreed
    <3>2. teamCall' \in [TeamCallers -> TeamCalls \cup {NoOne}]
      BY <1>1, TeamCallMoves
    <3>. QED BY <3>1, <3>2
  <2>3. CASE lock # c
    BY <1>1, <2>1, <2>3, LockStays, TeamCallMoves
  <2>. QED BY <2>2, <2>3
<1>4. TeamTypeOK'
  <2>1. staleTeam' \subseteq {"count", "token", "owner", "plan"} /\ lock' \in TeamCallers \cup {NoOne}
    BY <1>1 DEF TeamInv, TeamTypeOK
  <2>. QED BY <1>1, <1>3, <2>1 DEF TeamInv, TeamTypeOK
<1>5. TeamCallsHold'
  BY <1>1, TeamTypes, TeamCallsStillHold
<1>6. InvitedIsFree' /\ OneInvitation'
  BY <1>1, <1>2, <1>3 DEF TeamInv, InvitedIsFree, OneInvitation
<1>7. SeatsFit' /\ OwnerStays'
  BY <1>1, <1>2 DEF TeamInv, SeatsFit, SeatsTaken, OwnerStays
<1>8. PendingIsOver'
  <2>1. "plan" \notin staleTeam' => \A x \in TeamCallers : Rechecks(x) => Rechecks(x)'
    BY <1>1, RechecksStay
  <2>. QED BY <1>1, <1>2, <2>1 DEF TeamInv, PendingIsOver
<1>. QED BY <1>2, <1>4, <1>5, <1>6, <1>7, <1>8 DEF TeamInv

-------------------------------------------------------------------------------
LEMMA TeamStart == TeamInit => TeamInv
<1>1. HAVE TeamInit
<1>2. Active = {Founder} /\ Pending = {} /\ Founder \in Owners /\ Owners # {}
  BY <1>1, TeamAssumption DEF TeamInit, Active, Owners, Pending
<1>3. Cardinality(Active) = 1 /\ IsFiniteSet(Active) /\ Cardinality(Pending) = 0
  BY <1>2, FS_Singleton, FS_EmptySet
<1>4. TeamTypeOK
  <2>1. /\ MaxPlan \in Plans /\ 0 \in 0..MaxInvites /\ 0 \in 0..MaxRequests
        /\ \A i \in Ids : i > 0
    BY TeamAssumption DEF Plans, Ids
  <2>2. role \in [Users -> Roles] /\ invite \in [Ids -> Invites]
    BY <1>1, TeamAssumption DEF TeamInit, Roles, Invites
  <2>. QED BY <1>1, <2>1, <2>2, TeamAssumption DEF TeamInit, TeamTypeOK
<1>5. TeamCallsHold /\ InvitedIsFree /\ PendingIsOver /\ OneInvitation /\ OwnerStays
  BY <1>1, <1>2 DEF TeamInit, TeamCallsHold, InvitedIsFree, PendingIsOver, OneInvitation, OwnerStays, Has
<1>6. SeatsFit
  <2>1. Seats[MaxPlan] \in Nat /\ Seats[MaxPlan] > 0
    BY TeamAssumption DEF Plans
  <2>. QED BY <1>1, <1>3, <2>1 DEF TeamInit, SeatsFit, SeatsTaken
<1>. QED BY <1>3, <1>4, <1>5, <1>6 DEF TeamInv

LEMMA TeamNextKeeps == TeamInv /\ [TeamNext]_teamVars => TeamInv'
<1>1. HAVE TeamInv /\ [TeamNext]_teamVars
<1>2. CASE TeamNext
  <2>1. ASSUME NEW c \in TeamCallers, CallStep(c) PROVE TeamInv'
    BY <1>1, <2>1, InviteLockKeeps, InviteCommitKeeps, AcceptReReadKeeps, AcceptCommitKeeps,
       CloseCommitKeeps, RemoveCommitKeeps, RetryKeeps, RoleCommitKeeps, CountMembersKeeps,
       PlanCommitKeeps DEF CallStep
  <2>2. ASSUME NEW c \in TeamCallers, InviteRead(c) \/ RemoveRead(c) \/ RoleRead(c) \/ PlanRead(c) \/ Abort(c)
        PROVE  TeamInv'
    BY <1>1, <2>2, InviteReadKeeps, RemoveReadKeeps, RoleReadKeeps, PlanReadKeeps, AbortKeeps
  <2>3. ASSUME NEW c \in TeamCallers, NEW i \in Ids, AcceptRead(c, i) \/ CloseRead(c, i) PROVE TeamInv'
    BY <1>1, <2>3, AcceptReadKeeps, CloseReadKeeps
  <2>4. ASSUME NEW i \in Ids, Expire(i) PROVE TeamInv'
    BY <1>1, <2>4, ExpireKeeps
  <2>. QED BY <1>2, <2>1, <2>2, <2>3, <2>4 DEF TeamNext
<1>3. CASE UNCHANGED teamVars
  <2>1. UNCHANGED <<member, role, invites, invite, lapsedInvites, plan, pending, lock, teamCall, requests,
                    staleTeam>>
    BY <1>3 DEF teamVars, team, inviteVars, planVars
  <2>2. Active' = Active /\ Pending' = Pending /\ Owners' = Owners
    BY <2>1 DEF Active, Pending, Owners
  <2>3. TeamTypeOK' /\ TeamCallsHold'
    BY <1>1, <2>1 DEF TeamInv, TeamTypeOK, TeamCallsHold, TeamCallHolds
  <2>4. InvitedIsFree' /\ OneInvitation'
    BY <1>1, <2>1, <2>2 DEF TeamInv, InvitedIsFree, OneInvitation, Has
  <2>5. PendingIsOver'
    BY <1>1, <2>1, <2>2 DEF TeamInv, PendingIsOver, Rechecks
  <2>6. SeatsFit' /\ OwnerStays' /\ IsFiniteSet(Active)'
    BY <1>1, <2>1, <2>2 DEF TeamInv, SeatsFit, SeatsTaken, OwnerStays
  <2>. QED BY <2>3, <2>4, <2>5, <2>6 DEF TeamInv
<1>. QED BY <1>1, <1>2, <1>3

LEMMA TeamSays == TeamInv => TeamTypeOK /\ SeatsHold /\ OwnerStays
<1>1. HAVE TeamInv
<1>2. PendingMeansOver
  BY <1>1 DEF TeamInv, PendingIsOver, PendingMeansOver, Rechecks
<1>. QED BY <1>1, <1>2 DEF TeamInv, SeatsHold

(***************************************************************************)
(* The page on which a plan is reviewed.                                   *)
(***************************************************************************)

\* Plans are numbered as they are made, and what is on the page is of a plan that was.
PlansInOrder ==
  \E k \in 1..MaxPlans :
    /\ Made = 1..k
    /\ request.do = "start" => request.plan = k + 1
OfAPlan ==
  /\ latest.plan \in Made
  /\ instance # Nothing => instance.plan \in Made
  /\ \A c \in Cards : save[c] # Nothing => save[c].base.plan \in Made
  /\ request.do \in {"approve", "approved", "started"} => request.plan \in Made
  /\ request.view # Nothing => request.do \in {"approved", "started"} /\ request.view.plan = request.plan

\* The server is ahead of a view by the cards whose answer is on its way, and so is what
\* they saved.
AheadOf(v, c) == save[c] # Nothing /\ save[c].applied /\ save[c].base.plan = v.plan
SameAssets(v) == \A c \in Cards : plans[v.plan].assets[c] = v.assets[c] \/ AheadOf(v, c)
SavedIsThere ==
  \A c \in Cards : save[c] # Nothing /\ save[c].applied =>
    plans[save[c].base.plan].assets[c] = save[c].to

\* The screen, but for these and for an approval whose answer is on its way.
ScreenFollows ==
  Effective # Nothing =>
    /\ SameAssets(Effective)
    /\ \/ Effective.status = plans[Effective.plan].status
       \/ request.do = "approved" /\ request.plan = Effective.plan
AnswerFollows ==
  request.view # Nothing =>
    SameAssets(request.view) /\ request.view.status = plans[request.view.plan].status

ReviewInv ==
  /\ ReviewPageTypeOK /\ PlansInOrder /\ OfAPlan
  /\ ~strayed => SavedIsThere /\ ScreenFollows /\ AnswerFollows

PageRequests == [do : {"no", "approve", "approved", "start", "started"}, plan : 0..MaxPlans,
                 view : Views \cup {Nothing}]

LEMMA ReviewTypes ==
  ASSUME ReviewInv
  PROVE  /\ MaxPlans \in Nat /\ Made \subseteq 1..MaxPlans
         /\ \A n \in Made : plans[n] \in Views /\ plans[n].plan = n
         /\ request \in PageRequests /\ save \in [Cards -> Saves \cup {Nothing}]
         /\ \A c \in Cards : save[c] # Nothing => save[c] \in Saves /\ save[c].base \in Views
         /\ latest \in Views /\ instance \in Views \cup {Nothing} /\ Effective \in Views \cup {Nothing}
         /\ Effective # Nothing => Effective \in Views /\ Effective.plan \in Made
<1>1. MaxPlans \in Nat /\ Made \subseteq 1..MaxPlans
  BY PlanReviewAssumption DEF Made
<1>2. \A n \in Made : plans[n] \in Views /\ plans[n].plan = n
  BY DEF ReviewInv, ReviewPageTypeOK, Made
<1>3. request \in PageRequests /\ save \in [Cards -> Saves \cup {Nothing}]
      /\ latest \in Views /\ instance \in Views \cup {Nothing}
  BY DEF ReviewInv, ReviewPageTypeOK, PageRequests
<1>4. \A c \in Cards : save[c] # Nothing => save[c] \in Saves /\ save[c].base \in Views
  BY <1>3 DEF Saves
<1>5. Effective \in Views \cup {Nothing}
  BY <1>3 DEF Effective
<1>6. Effective # Nothing => Effective.plan \in Made
  BY DEF ReviewInv, OfAPlan, Effective
<1>. QED BY <1>1, <1>2, <1>3, <1>4, <1>5, <1>6

LEMMA ViewIs ==
  \A v \in Views : v # Nothing /\ v.plan \in 1..MaxPlans /\ v.assets \in [Cards -> CardStatuses]
  BY PlanReviewAssumption DEF Views

LEMMA NewPlanIsAView ==
  ASSUME NEW n \in 1..MaxPlans
  PROVE  NewPlan(n) \in Views /\ NewPlan(n).plan = n
  BY DEF NewPlan, Views, CardStatuses

LEMMA NoRequestIs ==
  NoRequest \in PageRequests /\ NoRequest.do = "no" /\ NoRequest.view = Nothing
  BY PlanReviewAssumption DEF NoRequest, PageRequests

\* A step that only sends, drops or hears of the request of the page.
LEMMA RequestKeeps ==
  ASSUME ReviewInv, NEW k \in 1..MaxPlans, Made = 1..k, NEW r \in PageRequests, request' = r,
         UNCHANGED <<plans, latest, instance, newForm, save>>,
         saves' \in 0..MaxSaves, mishaps' \in 0..MaxMishaps, strayed' \in BOOLEAN,
         r.do = "start" => r.plan = k + 1,
         r.do \in {"approve", "approved", "started"} => r.plan \in Made,
         r.view # Nothing => /\ r.do \in {"approved", "started"} /\ r.view.plan = r.plan
                             /\ r.view = plans[r.plan],
         ~strayed' => ~strayed /\ (request.do = "approved" => r.do = "approved" /\ r.plan = request.plan)
  PROVE  ReviewInv'
<1>1. Made' = Made /\ Effective' = Effective
  BY DEF Made, Effective
<1>2. ReviewPageTypeOK'
  BY <1>1 DEF ReviewInv, ReviewPageTypeOK, PageRequests
<1>3. PlansInOrder'
  BY <1>1 DEF PlansInOrder
<1>4. OfAPlan'
  BY <1>1 DEF ReviewInv, OfAPlan
<1>5. \A v : SameAssets(v)' <=> SameAssets(v)
  BY DEF SameAssets, AheadOf
<1>6. ASSUME ~strayed' PROVE SavedIsThere' /\ ScreenFollows' /\ AnswerFollows'
  <2>1. SavedIsThere'
    BY <1>6 DEF ReviewInv, SavedIsThere
  <2>2. ScreenFollows'
    <3>1. PICK e : e = Effective
      OBVIOUS
    <3>2. e # Nothing => /\ SameAssets(e)
                         /\ \/ e.status = plans[e.plan].status
                            \/ request.do = "approved" /\ request.plan = e.plan
      BY <1>6, <3>1 DEF ReviewInv, ScreenFollows
    <3>3. e # Nothing => SameAssets(e)'
      BY <1>5, <3>2
    <3>. QED BY <1>1, <1>6, <3>1, <3>2, <3>3 DEF ScreenFollows, SameAssets, AheadOf
  <2>3. AnswerFollows'
    <3>1. r.view # Nothing => SameAssets(r.view) /\ r.view.status = plans[r.view.plan].status
      BY DEF SameAssets
    <3>. QED BY <1>5, <3>1 DEF AnswerFollows
  <2>. QED BY <2>1, <2>2, <2>3
<1>. QED BY <1>2, <1>3, <1>4, <1>6 DEF ReviewInv

\* A step that only touches saves that the server has not seen.
LEMMA SavesKeep ==
  ASSUME ReviewInv, NEW s \in [Cards -> Saves \cup {Nothing}], save' = s,
         UNCHANGED <<plans, latest, instance, newForm, request>>,
         saves' \in 0..MaxSaves, mishaps' \in 0..MaxMishaps, strayed' \in BOOLEAN,
         \A x \in Cards : s[x] # Nothing => s[x].base.plan \in Made,
         ~strayed' => /\ ~strayed
                      /\ \A x \in Cards :
                           \/ s[x] = save[x]
                           \/ /\ save[x] # Nothing => ~save[x].applied
                              /\ s[x] # Nothing => ~s[x].applied
  PROVE  ReviewInv'
<1>1. Made' = Made /\ Effective' = Effective
  BY DEF Made, Effective
<1>2. ReviewPageTypeOK'
  BY <1>1 DEF ReviewInv, ReviewPageTypeOK
<1>3. PlansInOrder'
  BY <1>1 DEF ReviewInv, PlansInOrder
<1>4. OfAPlan'
  BY <1>1 DEF ReviewInv, OfAPlan
<1>5. ASSUME ~strayed' PROVE SavedIsThere' /\ ScreenFollows' /\ AnswerFollows'
  <2>1. \A v : SameAssets(v)' <=> SameAssets(v)
    BY <1>5 DEF SameAssets, AheadOf
  <2>2. SavedIsThere'
    BY <1>5 DEF ReviewInv, SavedIsThere
  <2>3. ScreenFollows'
    <3>1. PICK e : e = Effective
      OBVIOUS
    <3>2. e # Nothing => /\ SameAssets(e)
                         /\ \/ e.status = plans[e.plan].status
                            \/ request.do = "approved" /\ request.plan = e.plan
      BY <1>5, <3>1 DEF ReviewInv, ScreenFollows
    <3>3. e # Nothing => SameAssets(e)'
      BY <2>1, <3>2
    <3>. QED BY <1>1, <3>1, <3>2, <3>3 DEF ScreenFollows, SameAssets, AheadOf
  <2>4. AnswerFollows'
    <3>1. PICK v : v = request.view
      OBVIOUS
    <3>2. v # Nothing => SameAssets(v) /\ v.status = plans[v.plan].status
      BY <1>5, <3>1 DEF ReviewInv, AnswerFollows
    <3>. QED BY <2>1, <3>1, <3>2 DEF AnswerFollows
  <2>. QED BY <2>2, <2>3, <2>4
<1>. QED BY <1>2, <1>3, <1>4, <1>5 DEF ReviewInv

LEMMA SaveKeeps == ASSUME ReviewInv, NEW c \in Cards, Save(c) PROVE ReviewInv'
<1>1. PICK to \in {"IN_REVIEW", "APPROVED"} :
        save' = [save EXCEPT ![c] = [base |-> Effective, to |-> to, applied |-> FALSE]]
  BY DEF Save
<1>2. PICK d : d = [base |-> Effective, to |-> to, applied |-> FALSE]
  OBVIOUS
<1>3. /\ Effective # Nothing /\ save[c] = Nothing
      /\ UNCHANGED <<plans, latest, instance, newForm, request, mishaps, strayed>>
      /\ saves' \in 0..MaxSaves /\ mishaps' \in 0..MaxMishaps /\ strayed' \in BOOLEAN
  BY PlanReviewAssumption DEF Save, ReviewInv, ReviewPageTypeOK
<1>4. d \in Saves /\ d.base = Effective /\ d.applied = FALSE /\ d.base.plan \in Made
  BY <1>2, <1>3, ReviewTypes DEF Saves
<1>5. PICK s : s = [save EXCEPT ![c] = d]
  OBVIOUS
<1>6. /\ s \in [Cards -> Saves \cup {Nothing}] /\ s[c] = d
      /\ \A x \in Cards \ {c} : s[x] = save[x]
  BY <1>4, <1>5, ReviewTypes
<1>7. \A x \in Cards : s[x] # Nothing => s[x].base.plan \in Made
  BY <1>4, <1>6 DEF ReviewInv, OfAPlan
<1>8. save' = s
  BY <1>1, <1>2, <1>5
<1>. QED BY <1>3, <1>4, <1>6, <1>7, <1>8, SavesKeep

LEMMA SaveFailsKeeps == ASSUME ReviewInv, NEW c \in Cards, SaveFails(c) PROVE ReviewInv'
<1>1. /\ save' = [save EXCEPT ![c] = Nothing] /\ save[c] # Nothing
      /\ UNCHANGED <<plans, latest, instance, newForm, request, saves>>
      /\ saves' \in 0..MaxSaves /\ mishaps' \in 0..MaxMishaps /\ strayed' \in BOOLEAN
  BY PlanReviewAssumption DEF SaveFails, ReviewInv, ReviewPageTypeOK
<1>2. ~strayed' => ~strayed /\ ~save[c].applied
  BY DEF SaveFails
<1>3. PICK s : s = [save EXCEPT ![c] = Nothing]
  OBVIOUS
<1>4. /\ s \in [Cards -> Saves \cup {Nothing}] /\ s[c] = Nothing
      /\ \A x \in Cards \ {c} : s[x] = save[x]
  BY <1>3, ReviewTypes
<1>5. \A x \in Cards : s[x] # Nothing => s[x].base.plan \in Made
  BY <1>4 DEF ReviewInv, OfAPlan
<1>. QED BY <1>1, <1>2, <1>3, <1>4, <1>5, SavesKeep

LEMMA LatestPlanIs ==
  ASSUME NEW k \in 1..MaxPlans, Made = 1..k
  PROVE  LatestPlan = k
<1>1. k \in Made /\ \A o \in Made : o <= k
  BY PlanReviewAssumption
<1>2. LatestPlan \in Made /\ \A o \in Made : o <= LatestPlan
  BY <1>1 DEF LatestPlan
<1>. QED BY <1>1, <1>2, PlanReviewAssumption

LEMMA PressApproveKeeps == ASSUME ReviewInv, PressApprove PROVE ReviewInv'
<1>1. PICK k \in 1..MaxPlans : Made = 1..k
  BY DEF ReviewInv, PlansInOrder
<1>2. PICK r : r = [do |-> "approve", plan |-> Effective.plan, view |-> Nothing]
  OBVIOUS
<1>3. /\ request.do = "no" /\ Effective # Nothing /\ request' = r
      /\ UNCHANGED <<plans, latest, instance, newForm, save, strayed>>
      /\ saves' \in 0..MaxSaves /\ mishaps' \in 0..MaxMishaps /\ strayed' \in BOOLEAN
  BY <1>2 DEF PressApprove, ReviewInv, ReviewPageTypeOK
<1>4. r.do = "approve" /\ r.plan \in Made /\ r.view = Nothing /\ r \in PageRequests
  BY <1>2, <1>3, ReviewTypes DEF PageRequests
<1>. QED BY <1>1, <1>3, <1>4, RequestKeeps

LEMMA PressStartKeeps == ASSUME ReviewInv, PressStart PROVE ReviewInv'
<1>1. PICK k \in 1..MaxPlans : Made = 1..k
  BY DEF ReviewInv, PlansInOrder
<1>2. PICK r : r = [do |-> "start", plan |-> k + 1, view |-> Nothing]
  OBVIOUS
<1>3. /\ request.do = "no" /\ request' = r /\ k < MaxPlans
      /\ UNCHANGED <<plans, latest, instance, newForm, save, strayed>>
      /\ saves' \in 0..MaxSaves /\ mishaps' \in 0..MaxMishaps /\ strayed' \in BOOLEAN
  BY <1>1, <1>2, LatestPlanIs DEF PressStart, ReviewInv, ReviewPageTypeOK
<1>4. r.do = "start" /\ r.plan = k + 1 /\ r.view = Nothing /\ r \in PageRequests
  BY <1>2, <1>3, ReviewTypes DEF PageRequests
<1>. QED BY <1>1, <1>3, <1>4, RequestKeeps

LEMMA ServerReadsBackKeeps == ASSUME ReviewInv, ServerReadsBack PROVE ReviewInv'
<1>1. PICK k \in 1..MaxPlans : Made = 1..k
  BY DEF ReviewInv, PlansInOrder
<1>2. PICK r : r = [request EXCEPT !.view = plans[request.plan]]
  OBVIOUS
<1>3. /\ request.do \in {"approved", "started"} /\ request' = r
      /\ UNCHANGED <<plans, latest, instance, newForm, save, strayed>>
      /\ saves' \in 0..MaxSaves /\ mishaps' \in 0..MaxMishaps /\ strayed' \in BOOLEAN
  BY <1>2 DEF ServerReadsBack, ReviewInv, ReviewPageTypeOK
<1>4. request.plan \in Made
  BY <1>3 DEF ReviewInv, OfAPlan
<1>5. PICK v \in Views : v = plans[request.plan] /\ v.plan = request.plan
  BY <1>4, ReviewTypes
<1>6. r \in PageRequests /\ r.do = request.do /\ r.plan = request.plan /\ r.view = v
  <2>1. \A x \in PageRequests : LET y == [x EXCEPT !.view = v] IN
          y \in PageRequests /\ y.do = x.do /\ y.plan = x.plan /\ y.view = v
    BY DEF PageRequests
  <2>. QED BY <1>2, <1>5, <2>1, ReviewTypes
<1>. QED BY <1>1, <1>3, <1>4, <1>5, <1>6, RequestKeeps

LEMMA RequestFailsKeeps == ASSUME ReviewInv, RequestFails PROVE ReviewInv'
<1>1. PICK k \in 1..MaxPlans : Made = 1..k
  BY DEF ReviewInv, PlansInOrder
<1>2. PICK r : r = NoRequest
  OBVIOUS
<1>3. /\ request' = r /\ UNCHANGED <<plans, latest, instance, newForm, save>>
      /\ saves' \in 0..MaxSaves /\ mishaps' \in 0..MaxMishaps
  BY <1>2, PlanReviewAssumption DEF RequestFails, ReviewInv, ReviewPageTypeOK
<1>4. r.do = "no" /\ r.view = Nothing /\ r \in PageRequests
  BY <1>2, NoRequestIs
<1>5. strayed' \in BOOLEAN
  BY DEF RequestFails
<1>6. ~strayed' => ~strayed /\ request.do # "approved"
  BY DEF RequestFails
<1>. QED BY <1>1, <1>3, <1>4, <1>5, <1>6, RequestKeeps

\* A view the server is not behind stays so when other assets are written.
LEMMA SameAssetsStay ==
  ASSUME NEW v, SameAssets(v),
         \A x \in Cards : /\ AheadOf(v, x) => AheadOf(v, x)'
                          /\ ~AheadOf(v, x)' => plans'[v.plan].assets[x] = plans[v.plan].assets[x]
  PROVE  SameAssets(v)'
  BY DEF SameAssets

LEMMA ServerPatchesKeeps == ASSUME ReviewInv, NEW c \in Cards, ServerPatches(c) PROVE ReviewInv'
<1>1. PICK d \in Saves : d = save[c] /\ ~d.applied /\ d.base.plan \in Made
  BY ReviewTypes DEF ServerPatches, ReviewInv, OfAPlan
<1>2. PICK n \in Made : n = d.base.plan
  BY <1>1
<1>3. /\ UNCHANGED <<latest, instance, newForm, request, strayed>>
      /\ saves' \in 0..MaxSaves /\ mishaps' \in 0..MaxMishaps /\ strayed' \in BOOLEAN
  BY DEF ServerPatches, ReviewInv, ReviewPageTypeOK
<1>4. CASE ~Allowed(plans[n].assets[c], d.to)
  <2>1. PICK s : s = [save EXCEPT ![c] = Nothing]
    OBVIOUS
  <2>2. save' = s /\ UNCHANGED plans
    BY <1>1, <1>2, <1>4, <2>1 DEF ServerPatches
  <2>3. /\ s \in [Cards -> Saves \cup {Nothing}] /\ s[c] = Nothing
        /\ \A x \in Cards \ {c} : s[x] = save[x]
    BY <2>1, ReviewTypes
  <2>4. \A x \in Cards : s[x] # Nothing => s[x].base.plan \in Made
    BY <2>3 DEF ReviewInv, OfAPlan
  <2>. QED BY <1>1, <1>3, <2>2, <2>3, <2>4, SavesKeep
<1>5. CASE Allowed(plans[n].assets[c], d.to)
  <2>1. /\ plans' = [plans EXCEPT ![n].assets[c] = d.to]
        /\ save' = [save EXCEPT ![c].applied = TRUE]
    BY <1>1, <1>2, <1>5 DEF ServerPatches
  <2>2. PICK e : e = [d EXCEPT !.applied = TRUE]
    OBVIOUS
  <2>3. e \in Saves /\ e.base = d.base /\ e.to = d.to /\ e.applied /\ e # Nothing
    <3>1. \A x \in Saves : LET y == [x EXCEPT !.applied = TRUE] IN
            y \in Saves /\ y.base = x.base /\ y.to = x.to /\ y.applied = TRUE
      BY DEF Saves
    <3>. QED BY <2>2, <3>1, PlanReviewAssumption
  <2>4. /\ save' \in [Cards -> Saves \cup {Nothing}] /\ save'[c] = e
        /\ \A x \in Cards \ {c} : save'[x] = save[x]
    BY <1>1, <2>1, <2>2, <2>3, ReviewTypes
  <2>5. PICK p \in Views : p = plans[n] /\ p.plan = n
    BY ReviewTypes
  <2>6. PICK q : q = [p EXCEPT !.assets[c] = d.to]
    OBVIOUS
  <2>7. /\ q \in Views /\ q # Nothing /\ q.plan = n /\ q.status = p.status /\ q.assets[c] = d.to
        /\ \A x \in Cards \ {c} : q.assets[x] = p.assets[x]
    <3>1. d.to \in CardStatuses
      BY DEF Saves, CardStatuses
    <3>2. q = [p EXCEPT !.assets = [p.assets EXCEPT ![c] = d.to]]
      BY <2>6
    <3>3. \A a \in [Cards -> CardStatuses] : LET y == [p EXCEPT !.assets = a] IN
            y \in Views /\ y.plan = p.plan /\ y.status = p.status /\ y.assets = a
      BY DEF Views
    <3>4. PICK a \in [Cards -> CardStatuses] : a = [p.assets EXCEPT ![c] = d.to]
      BY <3>1, ViewIs
    <3>5. a[c] = d.to /\ \A x \in Cards \ {c} : a[x] = p.assets[x]
      BY <3>4, ViewIs
    <3>. QED BY <2>5, <3>2, <3>3, <3>4, <3>5, ViewIs
  <2>8. /\ plans' \in [1..MaxPlans -> Views \cup {Nothing}] /\ plans'[n] = q
        /\ \A m \in (1..MaxPlans) \ {n} : plans'[m] = plans[m]
    BY <1>2, <2>1, <2>5, <2>6, <2>7, ReviewTypes DEF ReviewInv, ReviewPageTypeOK
  <2>9. Made' = Made /\ Effective' = Effective
    BY <1>2, <1>3, <2>5, <2>7, <2>8, ViewIs, ReviewTypes DEF Made, Effective
  <2>10. ReviewPageTypeOK'
    BY <1>3, <2>4, <2>7, <2>8, <2>9 DEF ReviewInv, ReviewPageTypeOK, Made
  <2>11. PlansInOrder'
    BY <1>3, <2>9 DEF ReviewInv, PlansInOrder
  <2>12. OfAPlan'
    BY <1>1, <1>3, <2>3, <2>4, <2>9 DEF ReviewInv, OfAPlan
  <2>13. ASSUME NEW v, SameAssets(v), v.plan \in Made
         PROVE  SameAssets(v)' /\ plans'[v.plan].status = plans[v.plan].status
    <3>1. \A x \in Cards : AheadOf(v, x) => AheadOf(v, x)'
      BY <1>1, <2>4 DEF AheadOf
    <3>2. v.plan = n => AheadOf(v, c)'
      BY <1>2, <2>3, <2>4 DEF AheadOf
    <3>3. ASSUME NEW x \in Cards, ~AheadOf(v, x)'
          PROVE  plans'[v.plan].assets[x] = plans[v.plan].assets[x]
      <4>1. CASE v.plan = n
        BY <2>5, <2>7, <2>8, <3>2, <3>3, <4>1
      <4>2. CASE v.plan # n
        BY <2>8, <2>13, <4>2, ReviewTypes
      <4>. QED BY <4>1, <4>2
    <3>4. plans'[v.plan].status = plans[v.plan].status
      <4>1. CASE v.plan = n
        BY <2>5, <2>7, <2>8, <4>1
      <4>2. CASE v.plan # n
        BY <2>8, <2>13, <4>2, ReviewTypes
      <4>. QED BY <4>1, <4>2
    <3>. QED BY <2>13, <3>1, <3>3, <3>4, SameAssetsStay
  <2>14. ASSUME ~strayed' PROVE SavedIsThere' /\ ScreenFollows' /\ AnswerFollows'
    <3>1. SavedIsThere'
      <4>1. SUFFICES ASSUME NEW x \in Cards, save'[x] # Nothing, save'[x].applied
                     PROVE  plans'[save'[x].base.plan].assets[x] = save'[x].to
        BY DEF SavedIsThere
      <4>2. CASE x = c
        BY <1>2, <2>3, <2>4, <2>7, <2>8, <4>2
      <4>3. CASE x # c
        <5>1. PICK y \in Saves : y = save[x] /\ y.applied /\ y.base.plan \in Made
                                 /\ plans[y.base.plan].assets[x] = y.to
          BY <1>3, <2>4, <2>14, <4>1, <4>3, ReviewTypes DEF ReviewInv, SavedIsThere, OfAPlan
        <5>2. plans'[y.base.plan].assets[x] = plans[y.base.plan].assets[x]
          <6>1. CASE y.base.plan = n
            BY <2>5, <2>7, <2>8, <4>3, <6>1
          <6>2. CASE y.base.plan # n
            BY <2>8, <5>1, <6>2, ReviewTypes
          <6>. QED BY <6>1, <6>2
        <5>. QED BY <2>4, <4>3, <5>1, <5>2
      <4>. QED BY <4>2, <4>3
    <3>2. ScreenFollows'
      <4>1. PICK s : s = Effective
        OBVIOUS
      <4>2. s # Nothing => /\ SameAssets(s)
                           /\ \/ s.status = plans[s.plan].status
                              \/ request.do = "approved" /\ request.plan = s.plan
        BY <1>3, <2>14, <4>1 DEF ReviewInv, ScreenFollows
      <4>3. s # Nothing => s.plan \in Made
        BY <4>1, ReviewTypes
      <4>4. s # Nothing => SameAssets(s)' /\ plans'[s.plan].status = plans[s.plan].status
        BY <2>13, <4>2, <4>3
      <4>. QED BY <1>3, <2>9, <4>1, <4>2, <4>4 DEF ScreenFollows, SameAssets, AheadOf
    <3>3. AnswerFollows'
      <4>1. PICK v : v = request.view
        OBVIOUS
      <4>2. v # Nothing => SameAssets(v) /\ v.status = plans[v.plan].status /\ v.plan \in Made
        BY <1>3, <2>14, <4>1 DEF ReviewInv, AnswerFollows, OfAPlan
      <4>3. v # Nothing => SameAssets(v)' /\ plans'[v.plan].status = plans[v.plan].status
        BY <2>13, <4>2
      <4>. QED BY <1>3, <4>1, <4>2, <4>3 DEF AnswerFollows, SameAssets, AheadOf
    <3>. QED BY <3>1, <3>2, <3>3
  <2>. QED BY <2>10, <2>11, <2>12, <2>14 DEF ReviewInv
<1>. QED BY <1>4, <1>5

\* The answer to a save comes on the screen.
LEMMA SaveAnsweredKeeps == ASSUME ReviewInv, NEW c \in Cards, SaveAnswered(c) PROVE ReviewInv'
<1>1. PICK d \in Saves : d = save[c] /\ d.applied /\ d.base.plan \in Made /\ d.base \in Views
  BY ReviewTypes DEF SaveAnswered, ReviewInv, OfAPlan
<1>2. PICK v : v = d.base
  OBVIOUS
<1>3. PICK w : w = WithAsset(v, c, d.to)
  OBVIOUS
<1>4. /\ UNCHANGED <<plans, latest, newForm, request, saves, mishaps>>
      /\ instance' = w /\ save' = [save EXCEPT ![c] = Nothing]
  BY <1>1, <1>2, <1>3 DEF SaveAnswered
<1>5. strayed' \in BOOLEAN
  BY DEF SaveAnswered
<1>6. ~strayed' => ~strayed /\ v = Effective /\ request.view = Nothing
  BY <1>1, <1>2 DEF SaveAnswered
<1>7. /\ w \in Views /\ w # Nothing /\ w.plan = v.plan /\ w.status = v.status /\ w.assets[c] = d.to
      /\ \A x \in Cards \ {c} : w.assets[x] = v.assets[x]
  <2>1. d.to \in CardStatuses
    BY DEF Saves, CardStatuses
  <2>2. w = [v EXCEPT !.assets = [v.assets EXCEPT ![c] = d.to]]
    BY <1>3 DEF WithAsset
  <2>3. \A a \in [Cards -> CardStatuses] : LET y == [v EXCEPT !.assets = a] IN
          y \in Views /\ y.plan = v.plan /\ y.status = v.status /\ y.assets = a
    BY <1>1, <1>2 DEF Views
  <2>4. PICK a \in [Cards -> CardStatuses] : a = [v.assets EXCEPT ![c] = d.to]
    BY <1>1, <1>2, <2>1, ViewIs
  <2>5. a[c] = d.to /\ \A x \in Cards \ {c} : a[x] = v.assets[x]
    BY <1>1, <1>2, <2>4, ViewIs
  <2>. QED BY <2>2, <2>3, <2>4, <2>5, ViewIs
<1>8. /\ save' \in [Cards -> Saves \cup {Nothing}] /\ save'[c] = Nothing
      /\ \A x \in Cards \ {c} : save'[x] = save[x]
  BY <1>4, ReviewTypes
<1>9. Made' = Made /\ Effective' = w
  BY <1>4, <1>7 DEF Made, Effective
<1>10. ReviewPageTypeOK'
  BY <1>4, <1>5, <1>7, <1>8, <1>9 DEF ReviewInv, ReviewPageTypeOK
<1>11. PlansInOrder' /\ OfAPlan'
  BY <1>1, <1>2, <1>4, <1>7, <1>8, <1>9 DEF ReviewInv, PlansInOrder, OfAPlan
<1>12. ASSUME ~strayed' PROVE SavedIsThere' /\ ScreenFollows' /\ AnswerFollows'
  <2>1. SavedIsThere'
    BY <1>4, <1>6, <1>8, <1>12 DEF ReviewInv, SavedIsThere
  <2>2. ScreenFollows'
    <3>1. /\ SameAssets(v) /\ plans[v.plan].assets[c] = d.to
          /\ v.status = plans[v.plan].status \/ (request.do = "approved" /\ request.plan = v.plan)
      <4>1. v # Nothing
        BY <1>1, <1>2, ViewIs
      <4>2. SavedIsThere /\ ScreenFollows
        BY <1>6, <1>12 DEF ReviewInv
      <4>3. plans[v.plan].assets[c] = d.to
        BY <1>1, <1>2, <4>2 DEF SavedIsThere, SaveAnswered
      <4>4. v.status = plans[v.plan].status \/ (request.do = "approved" /\ request.plan = v.plan)
        BY <1>6, <1>12, <4>1, <4>2 DEF ScreenFollows
      <4>. QED BY <1>6, <1>12, <4>1, <4>2, <4>3, <4>4 DEF ScreenFollows, SameAssets, AheadOf
    <3>2. SameAssets(w)'
      BY <1>4, <1>7, <1>8, <3>1 DEF SameAssets, AheadOf
    <3>. QED BY <1>4, <1>7, <1>9, <3>1, <3>2 DEF ScreenFollows, SameAssets, AheadOf
  <2>3. AnswerFollows'
    BY <1>4, <1>6, <1>12 DEF ReviewInv, OfAPlan, AnswerFollows
  <2>. QED BY <2>1, <2>2, <2>3
<1>. QED BY <1>10, <1>11, <1>12 DEF ReviewInv

LEMMA AnsweredKeeps == ASSUME ReviewInv, Answered PROVE ReviewInv'
<1>1. PICK v : v = request.view
  OBVIOUS
<1>2. /\ UNCHANGED <<plans, latest, save, saves, mishaps, strayed>>
      /\ instance' = v /\ v # Nothing /\ newForm' \in BOOLEAN /\ request' = NoRequest
  BY <1>1 DEF Answered, ReviewInv, ReviewPageTypeOK
<1>3. v \in Views /\ v.plan \in Made
  BY <1>1, <1>2, ReviewTypes DEF PageRequests, ReviewInv, OfAPlan
<1>4. Made' = Made /\ Effective' = v
  BY <1>2 DEF Made, Effective
<1>5. ReviewPageTypeOK'
  BY <1>2, <1>3, <1>4, NoRequestIs DEF ReviewInv, ReviewPageTypeOK, PageRequests
<1>6. PlansInOrder' /\ OfAPlan'
  BY <1>2, <1>3, <1>4, NoRequestIs DEF ReviewInv, PlansInOrder, OfAPlan
<1>7. ASSUME ~strayed' PROVE SavedIsThere' /\ ScreenFollows' /\ AnswerFollows'
  <2>1. SavedIsThere'
    BY <1>2, <1>7 DEF ReviewInv, SavedIsThere
  <2>2. SameAssets(v) /\ v.status = plans[v.plan].status
    BY <1>1, <1>2, <1>7 DEF ReviewInv, AnswerFollows, SameAssets, AheadOf
  <2>3. ScreenFollows'
    BY <1>2, <1>4, <2>2 DEF ScreenFollows, SameAssets, AheadOf
  <2>4. AnswerFollows'
    BY <1>2, NoRequestIs DEF AnswerFollows
  <2>. QED BY <2>1, <2>3, <2>4
<1>. QED BY <1>5, <1>6, <1>7 DEF ReviewInv

LEMMA PressNewPlanKeeps == ASSUME ReviewInv, PressNewPlan PROVE ReviewInv'
<1>1. /\ UNCHANGED <<plans, latest, save, request, saves, mishaps, strayed>>
      /\ instance' = Nothing /\ newForm' = TRUE
  BY DEF PressNewPlan
<1>2. Made' = Made /\ Effective' = Nothing
  BY <1>1 DEF Made, Effective
<1>3. ReviewPageTypeOK'
  BY <1>1, <1>2 DEF ReviewInv, ReviewPageTypeOK
<1>4. PlansInOrder' /\ OfAPlan'
  BY <1>1, <1>2 DEF ReviewInv, PlansInOrder, OfAPlan
<1>5. ASSUME ~strayed' PROVE SavedIsThere' /\ ScreenFollows' /\ AnswerFollows'
  BY <1>1, <1>2, <1>5 DEF ReviewInv, SavedIsThere, ScreenFollows, AnswerFollows, SameAssets, AheadOf
<1>. QED BY <1>3, <1>4, <1>5 DEF ReviewInv

LEMMA ReopenKeeps == ASSUME ReviewInv, Reopen PROVE ReviewInv'
<1>1. PICK k \in 1..MaxPlans : Made = 1..k
  BY DEF ReviewInv, PlansInOrder
<1>2. /\ UNCHANGED <<plans, save, request, saves, mishaps>>
      /\ instance' = Nothing /\ newForm' = FALSE /\ request.do = "no"
      /\ \A x \in Cards : save[x] = Nothing
      /\ \/ latest' = plans[k] /\ strayed' = FALSE
         \/ latest' = latest /\ strayed' = TRUE
  BY <1>1, LatestPlanIs DEF Reopen, Idle
<1>3. k \in Made /\ plans[k] \in Views /\ plans[k].plan = k
  BY <1>1, ReviewTypes
<1>4. Made' = Made /\ Effective' = latest'
  BY <1>2 DEF Made, Effective
<1>5. ReviewPageTypeOK'
  BY <1>2, <1>3, <1>4 DEF ReviewInv, ReviewPageTypeOK
<1>6. PlansInOrder' /\ OfAPlan'
  BY <1>2, <1>3, <1>4 DEF ReviewInv, PlansInOrder, OfAPlan
<1>7. ASSUME ~strayed' PROVE SavedIsThere' /\ ScreenFollows' /\ AnswerFollows'
  <2>1. SavedIsThere'
    BY <1>2 DEF SavedIsThere
  <2>2. ScreenFollows'
    BY <1>2, <1>3, <1>4, <1>7 DEF ScreenFollows, SameAssets
  <2>3. request.view = Nothing
    BY <1>2 DEF ReviewInv, OfAPlan
  <2>4. AnswerFollows'
    BY <1>2, <2>3 DEF AnswerFollows
  <2>. QED BY <2>1, <2>2, <2>4
<1>. QED BY <1>5, <1>6, <1>7 DEF ReviewInv

LEMMA OthersReviewKeeps == ASSUME ReviewInv, OthersReview PROVE ReviewInv'
<1>1. PICK n \in Made, c \in Cards, to \in CardStatuses : plans' = [plans EXCEPT ![n].assets[c] = to]
  BY DEF OthersReview
<1>2. /\ UNCHANGED <<latest, instance, newForm, save, request, saves>> /\ strayed' = TRUE
      /\ mishaps' \in 0..MaxMishaps
  BY PlanReviewAssumption DEF OthersReview, ReviewInv, ReviewPageTypeOK
<1>3. PICK p \in Views : p = plans[n] /\ p.plan = n
  BY ReviewTypes
<1>4. PICK q : q = [p EXCEPT !.assets[c] = to]
  OBVIOUS
<1>5. q \in Views /\ q # Nothing /\ q.plan = n
  <2>1. q = [p EXCEPT !.assets = [p.assets EXCEPT ![c] = to]]
    BY <1>4
  <2>2. \A a \in [Cards -> CardStatuses] : LET y == [p EXCEPT !.assets = a] IN
          y \in Views /\ y.plan = p.plan
    BY DEF Views
  <2>3. PICK a \in [Cards -> CardStatuses] : a = [p.assets EXCEPT ![c] = to]
    BY ViewIs
  <2>. QED BY <1>3, <2>1, <2>2, <2>3, ViewIs
<1>6. /\ plans' \in [1..MaxPlans -> Views \cup {Nothing}] /\ plans'[n] = q
      /\ \A m \in (1..MaxPlans) \ {n} : plans'[m] = plans[m]
  BY <1>1, <1>3, <1>4, <1>5, ReviewTypes DEF ReviewInv, ReviewPageTypeOK
<1>7. Made' = Made
  BY <1>3, <1>5, <1>6, ViewIs, ReviewTypes DEF Made
<1>8. ReviewPageTypeOK'
  BY <1>2, <1>5, <1>6, <1>7 DEF ReviewInv, ReviewPageTypeOK, Made
<1>9. PlansInOrder' /\ OfAPlan'
  BY <1>2, <1>7 DEF ReviewInv, PlansInOrder, OfAPlan
<1>. QED BY <1>2, <1>8, <1>9 DEF ReviewInv

\* A view of a plan that the step leaves alone.
LEMMA ViewsStay ==
  ASSUME NEW v, SameAssets(v), UNCHANGED save,
         \A x \in Cards : plans'[v.plan].assets[x] = plans[v.plan].assets[x]
  PROVE  SameAssets(v)'
  BY DEF SameAssets, AheadOf

LEMMA ServerApprovesKeeps == ASSUME ReviewInv, ServerApproves PROVE ReviewInv'
<1>1. PICK k \in 1..MaxPlans : Made = 1..k
  BY DEF ReviewInv, PlansInOrder
<1>2. /\ request.do = "approve" /\ UNCHANGED <<latest, instance, newForm, save, strayed>>
      /\ saves' \in 0..MaxSaves /\ mishaps' \in 0..MaxMishaps /\ strayed' \in BOOLEAN
  BY DEF ServerApproves, ReviewInv, ReviewPageTypeOK
<1>3. PICK n \in Made : n = request.plan
  BY <1>2 DEF ReviewInv, OfAPlan
<1>4. request.view = Nothing
  BY <1>2 DEF ReviewInv, OfAPlan
<1>5. CASE plans[n].status # "AWAITING_APPROVAL"
  <2>1. PICK r : r = NoRequest
    OBVIOUS
  <2>2. request' = r /\ UNCHANGED plans
    BY <1>3, <1>5, <2>1 DEF ServerApproves
  <2>3. r.do = "no" /\ r.view = Nothing /\ r \in PageRequests
    BY <2>1, NoRequestIs
  <2>. QED BY <1>1, <1>2, <2>2, <2>3, RequestKeeps
<1>6. CASE plans[n].status = "AWAITING_APPROVAL"
  <2>1. PICK p \in Views : p = plans[n] /\ p.plan = n
    BY ReviewTypes
  <2>2. PICK q : q = [p EXCEPT !.status = "COMPLETED"]
    OBVIOUS
  <2>3. q \in Views /\ q # Nothing /\ q.plan = n /\ q.assets = p.assets
    <3>1. \A x \in Views : LET y == [x EXCEPT !.status = "COMPLETED"] IN
            y \in Views /\ y.plan = x.plan /\ y.assets = x.assets
      BY DEF Views
    <3>. QED BY <2>1, <2>2, <3>1, ViewIs
  <2>4. PICK r : r = [request EXCEPT !.do = "approved"]
    OBVIOUS
  <2>5. r \in PageRequests /\ r.do = "approved" /\ r.plan = n /\ r.view = Nothing
    <3>1. \A x \in PageRequests : LET y == [x EXCEPT !.do = "approved"] IN
            y \in PageRequests /\ y.do = "approved" /\ y.plan = x.plan /\ y.view = x.view
      BY DEF PageRequests
    <3>. QED BY <1>3, <1>4, <2>4, <3>1, ReviewTypes
  <2>6. plans' = [plans EXCEPT ![n].status = "COMPLETED"] /\ request' = r
    BY <1>3, <1>6, <2>4 DEF ServerApproves
  <2>7. /\ plans' \in [1..MaxPlans -> Views \cup {Nothing}] /\ plans'[n] = q
        /\ \A m \in (1..MaxPlans) \ {n} : plans'[m] = plans[m]
    BY <2>1, <2>2, <2>3, <2>6, ReviewTypes DEF ReviewInv, ReviewPageTypeOK
  <2>8. Made' = Made /\ Effective' = Effective
    BY <1>2, <2>1, <2>3, <2>7, ViewIs, ReviewTypes DEF Made, Effective
  <2>9. ReviewPageTypeOK'
    BY <1>2, <2>3, <2>5, <2>6, <2>7, <2>8 DEF ReviewInv, ReviewPageTypeOK, PageRequests, Made
  <2>10. PlansInOrder' /\ OfAPlan'
    BY <1>1, <1>2, <2>5, <2>6, <2>8 DEF ReviewInv, PlansInOrder, OfAPlan
  <2>11. ASSUME NEW m \in Made
         PROVE  /\ \A x \in Cards : plans'[m].assets[x] = plans[m].assets[x]
                /\ m # n => plans'[m].status = plans[m].status
    BY <2>1, <2>3, <2>7, <2>11, ReviewTypes
  <2>12. ASSUME ~strayed' PROVE SavedIsThere' /\ ScreenFollows' /\ AnswerFollows'
    <3>1. SavedIsThere'
      BY <1>2, <2>11, <2>12 DEF ReviewInv, SavedIsThere, OfAPlan
    <3>2. ScreenFollows'
      <4>1. PICK s : s = Effective
        OBVIOUS
      <4>2. s # Nothing => SameAssets(s) /\ s.status = plans[s.plan].status /\ s.plan \in Made
        BY <1>2, <2>12, <4>1, ReviewTypes DEF ReviewInv, ScreenFollows
      <4>3. s # Nothing => SameAssets(s)' /\ (s.plan # n => s.status = plans'[s.plan].status)
        BY <1>2, <2>11, <4>2, ViewsStay
      <4>. QED BY <2>5, <2>6, <2>8, <4>1, <4>3 DEF ScreenFollows, SameAssets, AheadOf
    <3>3. AnswerFollows'
      BY <2>5, <2>6 DEF AnswerFollows
    <3>. QED BY <3>1, <3>2, <3>3
  <2>. QED BY <2>9, <2>10, <2>12 DEF ReviewInv
<1>. QED BY <1>5, <1>6

LEMMA ServerStartsKeeps == ASSUME ReviewInv, ServerStarts PROVE ReviewInv'
<1>1. PICK k \in 1..MaxPlans : Made = 1..k /\ request.plan = k + 1
  BY DEF ReviewInv, PlansInOrder, ServerStarts
<1>2. PICK n \in 1..MaxPlans : n = k + 1
  BY <1>1, ReviewTypes DEF PageRequests
<1>3. PICK p \in Views : p = NewPlan(n) /\ p.plan = n /\ p # Nothing
  BY NewPlanIsAView, ViewIs
<1>4. PICK r : r = [request EXCEPT !.do = "started"]
  OBVIOUS
<1>5. request.view = Nothing /\ request.do = "start"
  BY DEF ServerStarts, ReviewInv, OfAPlan
<1>6. r \in PageRequests /\ r.do = "started" /\ r.plan = n /\ r.view = Nothing
  <2>1. \A x \in PageRequests : LET y == [x EXCEPT !.do = "started"] IN
          y \in PageRequests /\ y.do = "started" /\ y.plan = x.plan /\ y.view = x.view
    BY DEF PageRequests
  <2>. QED BY <1>1, <1>2, <1>4, <1>5, <2>1, ReviewTypes
<1>7. /\ plans' = [plans EXCEPT ![n] = p] /\ request' = r
      /\ UNCHANGED <<latest, instance, newForm, save, strayed>>
      /\ saves' \in 0..MaxSaves /\ mishaps' \in 0..MaxMishaps /\ strayed' \in BOOLEAN
  BY <1>1, <1>2, <1>3, <1>4 DEF ServerStarts, ReviewInv, ReviewPageTypeOK
<1>8. /\ plans' \in [1..MaxPlans -> Views \cup {Nothing}] /\ plans'[n] = p
      /\ \A m \in (1..MaxPlans) \ {n} : plans'[m] = plans[m]
  BY <1>3, <1>7 DEF ReviewInv, ReviewPageTypeOK
<1>9. Made' = Made \cup {n} /\ n \notin Made /\ Effective' = Effective
  <2>1. Made' = Made \cup {n}
    BY <1>3, <1>8, ReviewTypes DEF Made
  <2>2. n \notin Made
    BY <1>1, <1>2, ReviewTypes
  <2>. QED BY <1>7, <2>1, <2>2 DEF Effective
<1>10. ReviewPageTypeOK'
  <2>1. \A m \in Made' : plans'[m].plan = m
    BY <1>3, <1>8, <1>9, ReviewTypes
  <2>. QED BY <1>6, <1>7, <1>8, <2>1 DEF ReviewInv, ReviewPageTypeOK, PageRequests
<1>11. PlansInOrder'
  <2>1. Made' = 1..n
    BY <1>1, <1>2, <1>9, ReviewTypes
  <2>. QED BY <1>6, <1>7, <2>1 DEF PlansInOrder
<1>12. OfAPlan'
  BY <1>6, <1>7, <1>9 DEF ReviewInv, OfAPlan
<1>13. \A m \in Made : plans'[m] = plans[m]
  BY <1>8, <1>9, ReviewTypes
<1>14. ASSUME ~strayed' PROVE SavedIsThere' /\ ScreenFollows' /\ AnswerFollows'
  <2>1. SavedIsThere'
    BY <1>7, <1>13, <1>14 DEF ReviewInv, SavedIsThere, OfAPlan
  <2>2. ScreenFollows'
    <3>1. PICK s : s = Effective
      OBVIOUS
    <3>2. s # Nothing => SameAssets(s) /\ s.status = plans[s.plan].status /\ s.plan \in Made
      BY <1>5, <1>7, <1>14, <3>1, ReviewTypes DEF ReviewInv, ScreenFollows
    <3>3. s # Nothing => SameAssets(s)' /\ s.status = plans'[s.plan].status
      BY <1>7, <1>13, <3>2, ViewsStay
    <3>. QED BY <1>9, <3>1, <3>3 DEF ScreenFollows, SameAssets, AheadOf
  <2>3. AnswerFollows'
    BY <1>6, <1>7 DEF AnswerFollows
  <2>. QED BY <2>1, <2>2, <2>3
<1>. QED BY <1>10, <1>11, <1>12, <1>14 DEF ReviewInv

-------------------------------------------------------------------------------
LEMMA ReviewStart == ReviewPageInit => ReviewInv
<1>1. HAVE ReviewPageInit
<1>2. 1 \in 1..MaxPlans
  BY PlanReviewAssumption
<1>3. PICK p \in Views : p = NewPlan(1) /\ p.plan = 1 /\ p # Nothing
  BY <1>2, NewPlanIsAView, ViewIs
<1>4. /\ plans \in [1..MaxPlans -> Views \cup {Nothing}] /\ plans[1] = p
      /\ \A m \in (1..MaxPlans) \ {1} : plans[m] = Nothing
  BY <1>1, <1>2, <1>3 DEF ReviewPageInit
<1>5. Made = {1} /\ Made = 1..1 /\ Effective = p /\ latest = p
  BY <1>1, <1>2, <1>3, <1>4 DEF ReviewPageInit, Made, Effective
<1>6. ReviewPageTypeOK
  <2>1. request \in PageRequests /\ save \in [Cards -> Saves \cup {Nothing}]
        /\ saves \in 0..MaxSaves /\ mishaps \in 0..MaxMishaps
    BY <1>1, NoRequestIs, PlanReviewAssumption DEF ReviewPageInit
  <2>2. \A n \in Made : plans[n].plan = n
    BY <1>3, <1>4, <1>5
  <2>. QED BY <1>1, <1>3, <1>4, <1>5, <2>1, <2>2 DEF ReviewPageInit, ReviewPageTypeOK, PageRequests
<1>7. PlansInOrder /\ OfAPlan
  BY <1>1, <1>2, <1>3, <1>5, NoRequestIs DEF ReviewPageInit, PlansInOrder, OfAPlan
<1>8. SavedIsThere /\ ScreenFollows /\ AnswerFollows
  BY <1>1, <1>3, <1>4, <1>5, NoRequestIs
     DEF ReviewPageInit, SavedIsThere, ScreenFollows, SameAssets, AnswerFollows
<1>. QED BY <1>6, <1>7, <1>8 DEF ReviewInv

LEMMA ReviewNextKeeps == ReviewInv /\ [ReviewPageNext]_reviewPageVars => ReviewInv'
<1>1. HAVE ReviewInv /\ [ReviewPageNext]_reviewPageVars
<1>2. CASE ReviewPageNext
  <2>1. ASSUME NEW c \in Cards, Save(c) \/ SaveFails(c) \/ ServerPatches(c) \/ SaveAnswered(c)
        PROVE  ReviewInv'
    BY <1>1, <2>1, SaveKeeps, SaveFailsKeeps, ServerPatchesKeeps, SaveAnsweredKeeps
  <2>2. ASSUME ServerApproves \/ ServerStarts \/ ServerReadsBack \/ Answered PROVE ReviewInv'
    BY <1>1, <2>2, ServerApprovesKeeps, ServerStartsKeeps, ServerReadsBackKeeps, AnsweredKeeps
  <2>3. ASSUME PressApprove \/ PressStart \/ PressNewPlan \/ Reopen \/ RequestFails \/ OthersReview
        PROVE  ReviewInv'
    BY <1>1, <2>3, PressApproveKeeps, PressStartKeeps, PressNewPlanKeeps, ReopenKeeps,
       RequestFailsKeeps, OthersReviewKeeps
  <2>. QED BY <1>2, <2>1, <2>2, <2>3 DEF ReviewPageNext, ReviewPageGoesOn
<1>3. CASE UNCHANGED reviewPageVars
  <2>1. UNCHANGED <<plans, latest, instance, newForm, save, request, saves, mishaps, strayed>>
    BY <1>3 DEF reviewPageVars
  <2>2. Made' = Made /\ Effective' = Effective
    BY <2>1 DEF Made, Effective
  <2>3. ReviewPageTypeOK' /\ PlansInOrder' /\ OfAPlan'
    BY <1>1, <2>1, <2>2 DEF ReviewInv, ReviewPageTypeOK, PlansInOrder, OfAPlan
  <2>4. SavedIsThere' <=> SavedIsThere
    BY <2>1 DEF SavedIsThere
  <2>5. ScreenFollows' <=> ScreenFollows
    BY <2>1, <2>2 DEF ScreenFollows, SameAssets, AheadOf
  <2>6. AnswerFollows' <=> AnswerFollows
    BY <2>1 DEF AnswerFollows, SameAssets, AheadOf
  <2>. QED BY <1>1, <2>1, <2>3, <2>4, <2>5, <2>6 DEF ReviewInv
<1>. QED BY <1>1, <1>2, <1>3

\* Two views of the same plan are the same when their status and assets are.
LEMMA SameView ==
  ASSUME NEW v \in Views, NEW w \in Views, v.plan = w.plan, v.status = w.status,
         \A c \in Cards : v.assets[c] = w.assets[c]
  PROVE  v = w
<1>1. v.assets = w.assets
  BY ViewIs
<1>. QED BY <1>1 DEF Views

LEMMA ReviewSays == ReviewInv => ReviewPageTypeOK /\ ScreenAgrees
<1>1. HAVE ReviewInv
<1>2. SUFFICES ASSUME Idle, Effective # Nothing, ~strayed
               PROVE  Effective = plans[Effective.plan]
  BY <1>1 DEF ScreenAgrees, ReviewInv
<1>3. PICK v \in Views : v = Effective /\ v.plan \in Made
  BY <1>1, <1>2, ReviewTypes
<1>4. plans[v.plan] \in Views /\ plans[v.plan].plan = v.plan
  BY <1>1, <1>3, ReviewTypes
<1>5. /\ \A c \in Cards : plans[v.plan].assets[c] = v.assets[c] \/ AheadOf(v, c)
      /\ v.status = plans[v.plan].status \/ request.do = "approved"
  BY <1>1, <1>2, <1>3 DEF ReviewInv, ScreenFollows, SameAssets, AheadOf
<1>6. v.status = plans[v.plan].status
  BY <1>2, <1>5 DEF Idle
<1>7. \A c \in Cards : v.assets[c] = plans[v.plan].assets[c]
  BY <1>2, <1>5 DEF AheadOf, Idle
<1>. QED BY <1>3, <1>4, <1>6, <1>7, SameView

-------------------------------------------------------------------------------
\* Whatever the requests of a workspace read, and in whatever order they write: the
\* members and the invitations fit the plan, nobody is invited twice and a member never,
\* and a downgrade that is put off is one that does not fit (inviteMember,
\* acceptInvitation, removeMember, changePlan), but for the writes staleTeam names.
THEOREM SeatsAlwaysHold == TeamSpec => []SeatsHold
<1>1. TeamSpec => []TeamInv
  BY TeamStart, TeamNextKeeps, PTL DEF TeamSpec
<1>. QED BY <1>1, TeamSays, PTL

\* The workspace never runs out of owners (removeMember, changeMemberRole), but for
\* an owner count or a token that was outdated when the write was made.
THEOREM OwnersStay == TeamSpec => []OwnerStays
<1>1. TeamSpec => []TeamInv
  BY TeamStart, TeamNextKeeps, PTL DEF TeamSpec
<1>. QED BY <1>1, TeamSays, PTL

\* With nothing under way the page shows the plan as the server has it (the start,
\* approve and save handlers of MarketingAutopilotPage and ContentCalendarReview), for any
\* number of cards and plans.
THEOREM ScreenAlwaysAgrees == ReviewPageSpec => []ScreenAgrees
<1>1. ReviewPageSpec => []ReviewInv
  BY ReviewStart, ReviewNextKeeps, PTL DEF ReviewPageSpec
<1>. QED BY <1>1, ReviewSays, PTL

LEMMA PeopleInvHolds == PeopleSpec => [](TeamInv /\ ReviewInv)
<1>1. PeopleInit => TeamInv /\ ReviewInv
  BY TeamStart, ReviewStart DEF PeopleInit
<1>2. TeamInv /\ ReviewInv /\ [PeopleNext]_peopleVars => TeamInv' /\ ReviewInv'
  <2>1. [PeopleNext]_peopleVars => [TeamNext]_teamVars /\ [ReviewPageNext]_reviewPageVars
    BY DEF PeopleNext, peopleVars
  <2>. QED BY <2>1, TeamNextKeeps, ReviewNextKeeps
<1>. QED BY <1>1, <1>2, PTL DEF PeopleSpec

\* Team and page together, as the run checks them: the rows, the requests under way
\* and the page's state are of their types.
THEOREM PeopleAreTyped == PeopleSpec => []PeopleTypeOK
<1>1. TeamInv /\ ReviewInv => PeopleTypeOK
  BY TeamSays, ReviewSays DEF PeopleTypeOK
<1>. QED BY <1>1, PeopleInvHolds, PTL

\* ... and seats, owners and screen are as promised.
THEOREM PeopleKeepTheirWord == PeopleSpec => [](SeatsHold /\ OwnerStays /\ ScreenAgrees)
<1>1. TeamInv /\ ReviewInv => SeatsHold /\ OwnerStays /\ ScreenAgrees
  BY TeamSays, ReviewSays
<1>. QED BY <1>1, PeopleInvHolds, PTL
===============================================================================
