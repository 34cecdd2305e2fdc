------------------------------ MODULE Subscription ------------------------------
(***************************************************************************)
(* Subscriptions of the workspaces of one owner: creation, plan changes,   *)
(* cancellation, trials (src/backend/src/modules/billing/                  *)
(* subscription.service.ts and trial.service.ts; workspace.service.ts for  *)
(* the creation of a workspace). Each call reads the current row and       *)
(* decides; its transaction writes the columns it decided on by id,        *)
(* whatever happened in between. Every statement that matters is an        *)
(* action.                                                                 *)
(***************************************************************************)
EXTENDS Integers, Sequences, FiniteSets

CONSTANTS
  Workspaces,   \* of one owner
  Callers,      \* requests and jobs, each working on one call at a time
  Trialers,     \* the callers that may start a trial
  MaxPlan,      \* plans are 0..MaxPlan by sortOrder; 0 is "free"
  None,         \* no call, no pending plan
  MaxRows,      \* bound: Subscription rows
  MaxChanges,   \* bound: plan changes, cancellations and reactivations
  MaxCrashes    \* bound: calls cut short

VARIABLES
  subs,      \* the Subscription table, oldest row first
  trials,    \* workspaces of the audit rows with direction "trial_start"
  created,   \* the workspaces that exist
  call,      \* each caller: what its call is about to write
  changes, crashes  \* spent from the bounds

subVars == <<subs, trials, created, call, changes, crashes>>

Plans == 0..MaxPlan
Statuses == {"TRIALING", "ACTIVE", "PAST_DUE", "PAUSED", "CANCELED", "EXPIRED"}
\* trial: trialEndsAt is unset, ahead or past; grants: PLAN_GRANT rows created
\* while this row was the newest of its workspace.
Rows == [ws : Workspaces, status : Statuses, plan : Plans, pending : Plans \cup {None},
         ending : BOOLEAN, trial : {"unset", "ahead", "past"}, grants : Nat]
Ops == {"status", "plan", "pend", "end", "keep", "eligible", "trial", "expire",
        "create", "grant"}
Calls == [op : Ops, ws : Workspaces, row : 0..MaxRows, status : Statuses, plan : Plans]

\* The callers that may start a trial are processes, so finitely many.
ASSUME SubscriptionAssumption ==
  /\ Trialers \subseteq Callers /\ IsFiniteSet(Trialers)
  /\ MaxPlan \in Nat /\ MaxRows \in Nat /\ MaxChanges \in Nat /\ MaxCrashes \in Nat
  /\ None \notin Nat \cup Calls

\* Type invariant: the rows, and calls that write rows that exist.
SubscriptionTypeOK ==
  /\ subs \in Seq(Rows) /\ Len(subs) <= MaxRows
  /\ trials \in Seq(Workspaces)
  /\ created \subseteq Workspaces
  /\ call \in [Callers -> Calls \cup {None}]
  /\ \A c \in Callers : call[c] # None => call[c].row <= Len(subs)
  /\ changes \in 0..MaxChanges /\ crashes \in 0..MaxCrashes

SubscriptionInit ==
  /\ subs = <<>>
  /\ trials = <<>>
  /\ created = {}
  /\ call = [c \in Callers |-> None]
  /\ changes = 0 /\ crashes = 0

-------------------------------------------------------------------------------
RowsOf(w) == {i \in DOMAIN subs : subs[i].ws = w}
Latest(S) == IF S = {} THEN 0 ELSE CHOOSE i \in S : \A j \in S : j <= i

\* getCurrentSubscription: the newest row that is not EXPIRED; 0 for none.
Current(w) == Latest({i \in RowsOf(w) : subs[i].status # "EXPIRED"})

\* LEGAL_TRANSITIONS, and the no-op assertLegalTransition lets pass.
LegalNext(from) == {from} \cup
  CASE from = "TRIALING" -> {"ACTIVE", "EXPIRED", "CANCELED"}
    [] from = "ACTIVE" -> {"PAST_DUE", "CANCELED", "PAUSED"}
    [] from \in {"PAST_DUE", "PAUSED"} -> {"ACTIVE", "CANCELED"}
    [] from = "CANCELED" -> {"EXPIRED"}
    [] from = "EXPIRED" -> {}

\* Where the current row of w may go; nowhere without one.
LegalTargets(w) == IF Current(w) = 0 THEN {} ELSE LegalNext(subs[Current(w)].status)

\* Faulty variants: a trial is remembered by the rows only; one that ends has no
\* successor.
EligibleIfNotTrialing(w) == \A i \in RowsOf(w) : subs[i].status # "TRIALING"
ExpireOnly(d) == None

\* isTrialEligible: no workspace of the owner has started one.
TrialEligible(w) == trials = <<>>

\* What follows a call's update: expireTrialIfDue goes on to create a free row.
AfterWrite(d) == IF d.op = "expire" THEN [d EXCEPT !.op = "create"] ELSE None

\* Updated columns of row r, per statement.
Updated(r, d) ==
  CASE d.op = "status" -> [r EXCEPT !.status = d.status]
    [] d.op = "plan" -> [r EXCEPT !.plan = d.plan, !.pending = None]
    [] d.op = "pend" -> [r EXCEPT !.pending = d.plan]
    [] d.op = "end" -> [r EXCEPT !.ending = TRUE]
    [] d.op = "keep" -> [r EXCEPT !.ending = FALSE]
    [] d.op = "trial" -> [r EXCEPT !.status = "TRIALING", !.plan = d.plan, !.trial = "ahead"]
    [] d.op = "expire" -> [r EXCEPT !.status = "EXPIRED"]

Write(op, w, i, status, plan) ==
  [op |-> op, ws |-> w, row |-> i, status |-> status, plan |-> plan]

\* A call decided: c will carry out d next.
Decide(c, d) == call' = [call EXCEPT ![c] = d]

-------------------------------------------------------------------------------
\* createWorkspace commits the workspace; its subscription is another transaction.
CreateWorkspace(c) ==
  /\ call[c] = None
  /\ \E w \in Workspaces \ created :
       /\ created' = created \cup {w}
       /\ Decide(c, Write("create", w, 0, "ACTIVE", 0))
  /\ UNCHANGED <<subs, trials, changes, crashes>>

\* transitionSubscription (and an immediate cancelSubscription): read, check.
ReadForStatus(c, w, to) ==
  /\ call[c] = None
  /\ to \in LegalTargets(w)
  /\ Decide(c, Write("status", w, Current(w), to, 0))
  /\ UNCHANGED <<subs, trials, created, changes, crashes>>

\* changePlan, for a downgrade with the usage it counted (TeamSeats): an upgrade
\* or a downgrade that fits is applied, one that does not is put off.
\* retryPendingDowngrade is changePlan to the pending plan.
ReadForPlan(c, w) ==
  LET i == Current(w) IN
  /\ call[c] = None /\ i # 0 /\ changes < MaxChanges
  /\ changes' = changes + 1
  /\ \E plan \in Plans, fits \in BOOLEAN :
       /\ plan # subs[i].plan \/ subs[i].pending # None
       /\ Decide(c, Write(IF plan >= subs[i].plan \/ fits THEN "plan" ELSE "pend",
                          w, i, subs[i].status, plan))
  /\ UNCHANGED <<subs, trials, created, crashes>>

\* cancelSubscription, at once or at the end of the period, and its reversal.
ReadForCancel(c, w) ==
  LET i == Current(w) IN
  /\ call[c] = None /\ i # 0 /\ changes < MaxChanges
  /\ changes' = changes + 1
  /\ \/ Decide(c, Write("end", w, i, subs[i].status, 0))
     \/ subs[i].ending /\ Decide(c, Write("keep", w, i, subs[i].status, 0))
     \/ "CANCELED" \in LegalTargets(w) /\ Decide(c, Write("status", w, i, "CANCELED", 0))
  /\ UNCHANGED <<subs, trials, created, crashes>>

\* startTrial: eligibility first ...
CheckEligible(c, w) ==
  /\ c \in Trialers /\ call[c] = None
  /\ w \in created /\ TrialEligible(w)
  /\ Decide(c, Write("eligible", w, 0, "ACTIVE", 0))
  /\ UNCHANGED <<subs, trials, created, changes, crashes>>

\* ... then the current row, which must be ACTIVE and free.
ReadForTrial(c) ==
  /\ call[c] # None /\ call[c].op = "eligible"
  /\ LET w == call[c].ws
         i == Current(w) IN
     IF i # 0 /\ subs[i].status = "ACTIVE" /\ subs[i].plan = 0
     THEN \E plan \in Plans \ {0} : Decide(c, Write("trial", w, i, "ACTIVE", plan))
     ELSE Decide(c, None)
  /\ UNCHANGED <<subs, trials, created, changes, crashes>>

\* convertTrial.
ReadForConvert(c, w) ==
  LET i == Current(w) IN
  /\ call[c] = None /\ i # 0
  /\ subs[i].status = "TRIALING"
  /\ Decide(c, Write("status", w, i, "ACTIVE", 0))
  /\ UNCHANGED <<subs, trials, created, changes, crashes>>

\* expireTrialIfDue.
ReadForExpire(c, w) ==
  LET i == Current(w) IN
  /\ call[c] = None /\ i # 0
  /\ subs[i].status = "TRIALING" /\ subs[i].trial = "past"
  /\ Decide(c, Write("expire", w, i, "EXPIRED", 0))
  /\ UNCHANGED <<subs, trials, created, changes, crashes>>

\* The transaction: update by id, with its audit row.
CommitWrite(c) ==
  /\ call[c] # None
  /\ call[c].op \notin {"eligible", "create", "grant"}
  /\ subs' = [subs EXCEPT ![call[c].row] = Updated(@, call[c])]
  /\ trials' = IF call[c].op = "trial" THEN Append(trials, call[c].ws) ELSE trials
  /\ Decide(c, AfterWrite(call[c]))
  /\ UNCHANGED <<created, changes, crashes>>

\* createFreeSubscriptionForWorkspace: the row ...
CreateFree(c) ==
  /\ call[c] # None /\ call[c].op = "create"
  /\ Len(subs) < MaxRows
  /\ subs' = Append(subs, [ws |-> call[c].ws, status |-> "ACTIVE", plan |-> 0,
       pending |-> None, ending |-> FALSE, trial |-> "unset", grants |-> 0])
  /\ Decide(c, [call[c] EXCEPT !.op = "grant", !.row = Len(subs) + 1])
  /\ UNCHANGED <<trials, created, changes, crashes>>

\* ... then, in a transaction of its own (grantCredits), its first allowance.
GrantTo(w) == subs' = [subs EXCEPT ![Latest(RowsOf(w))].grants = @ + 1]
GrantInitial(c) ==
  /\ call[c] # None /\ call[c].op = "grant"
  /\ GrantTo(call[c].ws)
  /\ Decide(c, None)
  /\ UNCHANGED <<trials, created, changes, crashes>>

\* A statement of a call rejects, or its process dies: the rest does not happen.
CrashCall(c) ==
  /\ call[c] # None
  /\ crashes < MaxCrashes
  /\ crashes' = crashes + 1
  /\ Decide(c, None)
  /\ UNCHANGED <<subs, trials, created, changes>>

\* trialEndsAt passes.
TrialRunsOut ==
  /\ \E i \in DOMAIN subs :
       /\ subs[i].trial = "ahead"
       /\ subs' = [subs EXCEPT ![i].trial = "past"]
  /\ UNCHANGED <<trials, created, call, changes, crashes>>

\* The steps a call takes once it has begun.
CallStep(c) == ReadForTrial(c) \/ CommitWrite(c) \/ CreateFree(c) \/ GrantInitial(c)

\* The calls users and operators make.
UserCall(c) ==
  \/ CreateWorkspace(c)
  \/ \E w \in Workspaces :
       ReadForPlan(c, w) \/ ReadForCancel(c, w) \/ CheckEligible(c, w)
       \/ ReadForConvert(c, w) \/ ReadForExpire(c, w)

-------------------------------------------------------------------------------
\* Created workspaces without a current subscription, and nobody about to
\* create one.
Orphaned == {w \in created :
  /\ Current(w) = 0
  /\ ~ \E c \in Callers : call[c] # None /\ call[c].ws = w /\ call[c].op = "create"}

\* "Never subscription = NULL" (subscription.service.ts, lines 76-81, and
\* trial.service.ts, lines 99-105), across creation and trial expiry: only a call
\* cut short leaves a workspace without one, and no more than one workspace each.
NeverWithoutSubscription == Cardinality(Orphaned) <= crashes

\* "Limited to one per account" (trial.service.ts, lines 17-24): however trials
\* end, an account never gets more than the calls of startTrial that overlap.
TrialsLimited == Len(trials) <= Cardinality(Trialers)

\* What an owner may count on: a plan for every workspace, one trial for all of them.
SubscriptionsHold == NeverWithoutSubscription /\ TrialsLimited

\* The status machine of lines 27-34: no write moves a row along any other edge.
\* ACTIVE to TRIALING is startTrial's.
LegalTransitions ==
  [][\A i \in DOMAIN subs :
       \/ subs'[i].status \in LegalNext(subs[i].status)
       \/ subs[i].status = "ACTIVE" /\ subs'[i].status = "TRIALING"]_subVars
===============================================================================
