------------------------------- MODULE TeamSeats -------------------------------
(***************************************************************************)
(* The team of one workspace: invitations, members and roles, and the plan *)
(* whose seats they take                                                   *)
(* (src/backend/src/modules/team/invitation.service.ts and                 *)
(* member.service.ts, and changePlan and retryPendingDowngrade of          *)
(* billing/subscription.service.ts). inviteMember counts seats under a row *)
(* lock; everything else reads first and writes by id later.               *)
(***************************************************************************)
EXTENDS Integers, FiniteSets

CONSTANTS
  Users,        \* Founder is the owner at the start
  Founder,
  TeamCallers,  \* requests under way
  MaxPlan,      \* plans are 0..MaxPlan by sortOrder
  Seats,        \* maxTeamSeats of each plan
  NoOne,        \* no request, no lock, no pending plan
  MaxInvites,   \* bound: TeamInvite rows
  MaxRequests   \* bound: removals, role changes, plan changes

Plans == 0..MaxPlan
Roles == {"OWNER", "MEMBER"}   \* MEMBER stands for every role but OWNER

Ids == 1..MaxInvites
InviteStatuses == {"PENDING", "ACCEPTED", "DECLINED", "REVOKED", "EXPIRED"}
Invites == [user : Users, role : Roles, status : InviteStatuses \cup {"none"}]
TeamOps == {"lock", "count", "expire", "reread", "admit", "close", "remove", "retry",
            "role", "usage", "plan", "pend"}
TeamCalls == [op : TeamOps, user : Users, role : Roles, id : Ids, status : InviteStatuses,
              n : Nat, plan : Plans, target : Plans, owners : SUBSET Users]

\* A plan of a higher sortOrder has no fewer seats (seed-subscription-plans.ts).
ASSUME TeamAssumption ==
  /\ Founder \in Users
  /\ MaxPlan \in Nat /\ Seats \in [Plans -> Nat]
  /\ \A p, q \in Plans : p <= q => Seats[p] <= Seats[q]
  /\ Seats[MaxPlan] > 0   \* the founder's
  /\ NoOne \notin TeamCallers \cup Plans \cup TeamCalls
  /\ MaxInvites \in Nat \ {0} /\ MaxRequests \in Nat

VARIABLES
  member, role,    \* WorkspaceMember of each user
  invites,         \* TeamInvite rows made so far: 1..invites
  invite,          \* their columns
  lapsedInvites,   \* the rows whose expiresAt has passed
  plan, pending,   \* of the current Subscription
  lock,            \* who holds the Workspace row FOR UPDATE
  teamCall,        \* each request: what it has read and decided
  requests,        \* spent from the bound
  staleTeam        \* history: kinds of decisions committed on outdated reads

team == <<member, role>>
inviteVars == <<invites, invite, lapsedInvites>>
planVars == <<plan, pending>>
teamVars == <<team, inviteVars, planVars, lock, teamCall, requests, staleTeam>>

\* Type invariant: the rows, the requests under way, and the lock, which only an
\* invitation between its two counts holds.
TeamTypeOK ==
  /\ member \in [Users -> {"none", "ACTIVE", "REMOVED"}]
  /\ role \in [Users -> Roles]
  /\ invites \in 0..MaxInvites
  /\ invite \in [Ids -> Invites]
  /\ \A i \in Ids : invite[i].status = "none" <=> i > invites
  /\ lapsedInvites \subseteq 1..invites
  /\ plan \in Plans /\ pending \in Plans \cup {NoOne}
  /\ lock \in TeamCallers \cup {NoOne}
  /\ \A c \in TeamCallers : lock = c <=> teamCall[c] # NoOne /\ teamCall[c].op = "count"
  /\ teamCall \in [TeamCallers -> TeamCalls \cup {NoOne}]
  /\ requests \in 0..MaxRequests
  /\ staleTeam \subseteq {"count", "token", "owner", "plan"}

TeamInit ==
  /\ member = [u \in Users |-> IF u = Founder THEN "ACTIVE" ELSE "none"]
  /\ role = [u \in Users |-> IF u = Founder THEN "OWNER" ELSE "MEMBER"]
  /\ invites = 0
  /\ invite = [i \in Ids |-> [user |-> Founder, role |-> "MEMBER", status |-> "none"]]
  /\ lapsedInvites = {}
  /\ plan = MaxPlan /\ pending = NoOne
  /\ lock = NoOne
  /\ teamCall = [c \in TeamCallers |-> NoOne]
  /\ requests = 0
  /\ staleTeam = {}

-------------------------------------------------------------------------------
Active == {u \in Users : member[u] = "ACTIVE"}
Owners == {u \in Active : role[u] = "OWNER"}
Pending == {i \in 1..invites : invite[i].status = "PENDING"}
SeatsTaken == Cardinality(Active) + Cardinality(Pending)

\* Faulty variants: no row lock, or one that stays; pending invitations left out of the count; an
\* owner leaves whatever the count; a removal that forgets the pending downgrade.
LockIgnored == TRUE
KeepLock(c) == UNCHANGED lock
ActiveOnly(n) == n
AnyOwnerMayLeave(u) == TRUE
RetryNever == NoOne

\* SELECT ... FOR UPDATE returns when nobody else holds the row.
MayLock == lock = NoOne

\* The end of its transaction, committed or rolled back.
Unlock(c) == lock' = NoOne

\* inviteMember: seats in use, given the members counted a statement earlier.
CountedSeats(n) == n + Cardinality(Pending)

\* removeMember and changeMemberRole: the last owner stays.
MayStopOwning(u) == role[u] = "OWNER" => Cardinality(Owners) > 1

\* What removeMember goes on with: retryPendingDowngrade.
Retried == pending

Goes(c, d) == teamCall' = [teamCall EXCEPT ![c] = d]
Has(c, op) == teamCall[c] # NoOne /\ teamCall[c].op = op
TurnsTo(c, op, d) == Goes(c, [d EXCEPT !.op = op])
NewRequest == [op |-> "lock", user |-> Founder, role |-> "MEMBER", id |-> 1,
               status |-> "PENDING", n |-> 0, plan |-> 0, target |-> 0, owners |-> {}]
\* An owner d has counted is one no longer, or its member has become one.
Miscounts(d) == ~(d.owners \subseteq Owners) \/ d.user \in Owners \ d.owners
Note(kind, outdated) == staleTeam' = IF outdated THEN staleTeam \cup {kind} ELSE staleTeam

-------------------------------------------------------------------------------
\* inviteMember: read the subscription; a pending downgrade blocks ...
InviteRead(c) ==
  /\ teamCall[c] = NoOne /\ invites < MaxInvites
  /\ pending = NoOne
  /\ \E u \in Users, r \in Roles : 
       Goes(c, [NewRequest EXCEPT !.user = u, !.role = r, !.plan = plan])
  /\ UNCHANGED <<team, inviteVars, planVars, lock, requests, staleTeam>>

\* ... lock the workspace row, refuse a second invitation or a member, and count
\* the active members ...
InviteLock(c) ==
  /\ Has(c, "lock") /\ MayLock
  /\ IF (\E i \in Pending : invite[i].user = teamCall[c].user) \/ teamCall[c].user \in Active
     THEN Goes(c, NoOne) /\ UNCHANGED lock
     ELSE /\ lock' = c
          /\ Goes(c, [teamCall[c] EXCEPT !.op = "count", !.n = Cardinality(Active)])
  /\ UNCHANGED <<team, inviteVars, planVars, requests, staleTeam>>

\* ... then the pending invitations, and create the row if a seat is left under
\* the plan read at the start.
InviteCommit(c) ==
  /\ Has(c, "count")
  /\ LET d == teamCall[c]
         made == CountedSeats(d.n) < Seats[d.plan] /\ invites < MaxInvites IN
     /\ invites' = IF made THEN invites + 1 ELSE invites
     /\ invite' = IF made
          THEN [invite EXCEPT ![invites + 1] =
                 [user |-> d.user, role |-> d.role, status |-> "PENDING"]]
          ELSE invite
     /\ Note("count", d.n # Cardinality(Active) \/ d.plan # plan \/ pending # NoOne)
  /\ Unlock(c)
  /\ Goes(c, NoOne)
  /\ UNCHANGED <<team, lapsedInvites, planVars, requests>>

\* expiresAt passes.
Expire(i) ==
  /\ i \in Pending \ lapsedInvites
  /\ lapsedInvites' = lapsedInvites \cup {i}
  /\ UNCHANGED <<team, invites, invite, planVars, lock, teamCall, requests, staleTeam>>

\* acceptInvitation, by the user invited: the token must be PENDING; past its
\* expiresAt it is marked EXPIRED by another statement.
AcceptRead(c, i) ==
  /\ teamCall[c] = NoOne /\ i \in Pending
  /\ Goes(c, [NewRequest EXCEPT !.id = i, !.op = IF i \in lapsedInvites THEN "expire" ELSE "reread"])
  /\ UNCHANGED <<team, inviteVars, planVars, lock, requests, staleTeam>>

\* The transaction reads the row again ...
AcceptReRead(c) ==
  /\ Has(c, "reread")
  /\ IF teamCall[c].id \in Pending THEN TurnsTo(c, "admit", teamCall[c]) ELSE Goes(c, NoOne)
  /\ UNCHANGED <<team, inviteVars, planVars, lock, requests, staleTeam>>

\* ... upserts the member and marks the row ACCEPTED.
AcceptCommit(c) ==
  /\ Has(c, "admit")
  /\ LET i == teamCall[c].id IN
     /\ member' = [member EXCEPT ![invite[i].user] = "ACTIVE"]
     /\ role' = [role EXCEPT ![invite[i].user] = invite[i].role]
     /\ invite' = [invite EXCEPT ![i].status = "ACCEPTED"]
     /\ Note("token", i \notin Pending)
  /\ Goes(c, NoOne)
  /\ UNCHANGED <<invites, lapsedInvites, planVars, lock, requests>>

\* rejectInvitation and cancelInvitation: read PENDING, then write by id; so does
\* the expiry above.
CloseRead(c, i) ==
  /\ teamCall[c] = NoOne /\ i \in Pending
  /\ \E s \in {"DECLINED", "REVOKED"} :
       Goes(c, [NewRequest EXCEPT !.op = "close", !.id = i, !.status = s])
  /\ UNCHANGED <<team, inviteVars, planVars, lock, requests, staleTeam>>

CloseCommit(c) ==
  /\ Has(c, "close") \/ Has(c, "expire")
  /\ LET i == teamCall[c].id IN
     /\ invite' = [invite EXCEPT ![i].status =
          IF teamCall[c].op = "expire" THEN "EXPIRED" ELSE teamCall[c].status]
     /\ Note("token", i \notin Pending)
  /\ Goes(c, NoOne)
  /\ UNCHANGED <<team, invites, lapsedInvites, planVars, lock, requests>>

\* removeMember: the member, and for an owner the number of owners ...
RemoveRead(c) ==
  /\ teamCall[c] = NoOne /\ requests < MaxRequests
  /\ \E u \in Active :
       /\ MayStopOwning(u)
       /\ Goes(c, [NewRequest EXCEPT !.op = "remove", !.user = u, !.owners = Owners])
  /\ requests' = requests + 1
  /\ UNCHANGED <<team, inviteVars, planVars, lock, staleTeam>>

\* ... the update by id; then the pending downgrade is looked at again.
RemoveCommit(c) ==
  /\ Has(c, "remove")
  /\ member' = [member EXCEPT ![teamCall[c].user] = "REMOVED"]
  /\ Note("owner", Miscounts(teamCall[c]))
  /\ TurnsTo(c, "retry", NewRequest)
  /\ UNCHANGED <<role, inviteVars, planVars, lock, requests>>

\* changePlan: an upgrade is written at once, a downgrade counts the members.
PlanChange(c, target) ==
  Goes(c, [NewRequest EXCEPT !.op = IF target >= plan THEN "plan" ELSE "usage",
                      !.plan = plan, !.target = target])

\* retryPendingDowngrade: changePlan to the pending plan.
Retry(c) ==
  /\ Has(c, "retry")
  /\ IF Retried = NoOne THEN Goes(c, NoOne)
     ELSE PlanChange(c, Retried)
  /\ UNCHANGED <<team, inviteVars, planVars, lock, requests, staleTeam>>

\* changeMemberRole: only an owner makes owners, and the last one stays.
RoleRead(c) ==
  /\ teamCall[c] = NoOne /\ requests < MaxRequests
  /\ \E u \in Active, actor \in Active, r \in Roles :
       /\ r = "OWNER" => role[actor] = "OWNER"
       /\ r # "OWNER" => MayStopOwning(u)
       /\ Goes(c, [NewRequest EXCEPT !.op = "role", !.user = u, !.role = r, !.owners = Owners])
  /\ requests' = requests + 1
  /\ UNCHANGED <<team, inviteVars, planVars, lock, staleTeam>>

RoleCommit(c) ==
  /\ Has(c, "role")
  /\ role' = [role EXCEPT ![teamCall[c].user] = teamCall[c].role]
  /\ Note("owner", Miscounts(teamCall[c]))
  /\ Goes(c, NoOne)
  /\ UNCHANGED <<member, inviteVars, planVars, lock, requests>>

\* changePlan, on request.
PlanRead(c) ==
  /\ teamCall[c] = NoOne /\ requests < MaxRequests
  /\ \E target \in Plans :
       /\ target # plan \/ pending # NoOne
       /\ PlanChange(c, target)
  /\ requests' = requests + 1
  /\ UNCHANGED <<team, inviteVars, planVars, lock, staleTeam>>

CountMembers(c) ==
  /\ Has(c, "usage")
  /\ LET n == Cardinality(Active) IN
     Goes(c, [teamCall[c] EXCEPT !.n = n,
              !.op = IF n > Seats[teamCall[c].target] THEN "pend" ELSE "plan"])
  /\ UNCHANGED <<team, inviteVars, planVars, lock, requests, staleTeam>>

\* The plan is swapped, or put off until the workspace fits.
PlanCommit(c) ==
  /\ Has(c, "plan") \/ Has(c, "pend")
  /\ LET d == teamCall[c]
         swap == d.op = "plan"
         downgrade == d.target < d.plan IN
     /\ plan' = IF swap THEN d.target ELSE plan
     /\ pending' = IF swap THEN NoOne ELSE d.target
     /\ Note("plan", \/ d.plan # plan
                     \/ downgrade /\ d.n # Cardinality(Active)
                     \/ downgrade /\ swap /\ Pending # {})
  /\ Goes(c, NoOne)
  /\ UNCHANGED <<team, inviteVars, lock, requests>>

\* A statement rejects or the process dies: a transaction is rolled back and the
\* rest of the request, a retry of the pending downgrade included, is dropped.
Abort(c) ==
  /\ teamCall[c] # NoOne
  /\ IF lock = c THEN Unlock(c) ELSE UNCHANGED lock
  /\ Note("plan", teamCall[c].op \in {"retry", "usage", "plan", "pend"})
  /\ Goes(c, NoOne)
  /\ UNCHANGED <<team, inviteVars, planVars, requests>>

-------------------------------------------------------------------------------
CallStep(c) ==
  \/ InviteLock(c) \/ InviteCommit(c) \/ AcceptReRead(c) \/ AcceptCommit(c)
  \/ CloseCommit(c) \/ RemoveCommit(c) \/ Retry(c) \/ RoleCommit(c)
  \/ CountMembers(c) \/ PlanCommit(c)

TeamNext ==
  \/ \E c \in TeamCallers :
       \/ InviteRead(c) \/ RemoveRead(c) \/ RoleRead(c) \/ PlanRead(c)
       \/ CallStep(c) \/ Abort(c)
       \/ \E i \in Ids : AcceptRead(c, i) \/ CloseRead(c, i)
  \/ \E i \in Ids : Expire(i)

TeamSpec == TeamInit /\ [][TeamNext]_teamVars

-------------------------------------------------------------------------------
\* "A burst of invitations cannot collectively over-commit seats" (inviteMember,
\* lines 57-60): members and reserved seats fit the plan, unless an acceptance
\* slipped between the two counts or the plan was lowered under invitations.
SeatsFit == staleTeam \cap {"count", "plan", "token"} = {} => SeatsTaken <= Seats[plan]

\* At most one PENDING invitation per user, and none for a member (lines 46-55),
\* whatever is accepted or cancelled meanwhile, unless a token was used twice.
OneInvitation == staleTeam \cap {"token"} = {} => \A i, j \in Pending :
  /\ invite[i].user = invite[j].user => i = j
  /\ invite[i].user \notin Active

\* "The last OWNER can never be removed or demoted" (member.service.ts, lines
\* 6-13), also by calls that overlap, unless an owner that one of them has counted was
\* lost, or its member made an owner, before it wrote; joining costs no owner either.
OwnerStays == staleTeam \cap {"owner", "token"} = {} => Owners # {}

\* A pending downgrade is carried out by the removal that makes it fit
\* (removeMember, lines 61-63): at rest the members exceed its seats.
PendingMeansOver ==
  (staleTeam \cap {"plan", "token"} = {} /\ pending # NoOne /\ \A c \in TeamCallers : teamCall[c] = NoOne)
    => pending < plan /\ Cardinality(Active) > Seats[pending]

\* What the seat checks promise together.
SeatsHold == SeatsFit /\ OneInvitation /\ PendingMeansOver

\* "Single-use token" (acceptInvitation, lines 114-120): a row is accepted, declined,
\* revoked or expired once.
TokenUsedOnce == "token" \notin staleTeam
===============================================================================
