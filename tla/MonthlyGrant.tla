------------------------------ MODULE MonthlyGrant ------------------------------
(***************************************************************************)
(* The monthly credit grant of a workspace                                 *)
(* (src/backend/src/modules/billing/scheduler.service.ts, and              *)
(* grantMonthlyCreditsIfDue of subscription.service.ts), run by concurrent *)
(* executions of the job. A billing period is named by the Subscription    *)
(* row that starts it: nothing in the code advances currentPeriodStart.    *)
(***************************************************************************)
EXTENDS Subscription

VARIABLES
  slot,       \* ScheduledJobRun, per period: "none" before its row is created
  job,        \* each caller: the grant job it runs
  jobGrants   \* history: grants made by jobs, per workspace

grantVars == <<slot, job, jobGrants>>

Periods == 1..MaxRows
SlotStatuses == {"none", "RUNNING", "SUCCEEDED", "FAILED"}
Jobs == [stage : {"claim", "due", "look", "grant", "close"},
         ws : Workspaces, period : Periods, row : 0..MaxRows]

Claimed(c) == job[c] # None /\ job[c].stage # "claim"

\* Type invariant: the slots and the jobs under way, one at most for a slot.
GrantTypeOK ==
  /\ slot \in [Periods -> SlotStatuses]
  /\ job \in [Callers -> Jobs \cup {None}]
  /\ \A c \in Callers : job[c] # None => call[c] = None
  /\ \A c \in Callers : Claimed(c) =>
       /\ slot[job[c].period] = "RUNNING"
       /\ \A d \in Callers : Claimed(d) /\ job[d].period = job[c].period => d = c
  /\ jobGrants \in [Workspaces -> Nat]

GrantInit ==
  /\ slot = [p \in Periods |-> "none"]
  /\ job = [c \in Callers |-> None]
  /\ jobGrants = [w \in Workspaces |-> 0]

-------------------------------------------------------------------------------
\* Faulty variants: a slot reclaimed whatever its state; one never reclaimed.
ClaimsAnySlot(p) == TRUE
ClaimsNewSlot(p) == slot[p] = "none"

\* claimJobSlot: create the row, or flip it back from FAILED, conditionally.
ClaimHits(p) == slot[p] \in {"none", "FAILED"}

\* grantMonthlyCreditsIfDue: a PLAN_GRANT exists since row i's period started.
GrantedSince(i) == \E j \in RowsOf(subs[i].ws) : j >= i /\ subs[j].grants > 0

Stage(c, stage) == job' = [job EXCEPT ![c].stage = stage]
EndJob(c) == job' = [job EXCEPT ![c] = None]

\* dedupeKeyFor: the current row names the period.
JobStart(c, w) ==
  /\ job[c] = None /\ call[c] = None /\ Current(w) # 0
  /\ job' = [job EXCEPT ![c] =
       [stage |-> "claim", ws |-> w, period |-> Current(w), row |-> 0]]
  /\ UNCHANGED <<subVars, slot, jobGrants>>

ClaimSlot(c) ==
  /\ job[c] # None /\ job[c].stage = "claim"
  /\ IF ClaimHits(job[c].period)
     THEN slot' = [slot EXCEPT ![job[c].period] = "RUNNING"] /\ Stage(c, "due")
     ELSE EndJob(c) /\ UNCHANGED slot
  /\ UNCHANGED <<subVars, jobGrants>>

\* grantMonthlyCreditsIfDue reads the current row once more ...
ReadDue(c) ==
  /\ job[c] # None /\ job[c].stage = "due"
  /\ Current(job[c].ws) # 0
  /\ job' = [job EXCEPT ![c].stage = "look", ![c].row = Current(job[c].ws)]
  /\ UNCHANGED <<subVars, slot, jobGrants>>

\* ... looks for a grant since its period started ...
LookForGrant(c) ==
  /\ job[c] # None /\ job[c].stage = "look"
  /\ Stage(c, IF GrantedSince(job[c].row) THEN "close" ELSE "grant")
  /\ UNCHANGED <<subVars, slot, jobGrants>>

\* ... and calls grantCredits.
GrantByJob(c) ==
  /\ job[c] # None /\ job[c].stage = "grant"
  /\ GrantTo(job[c].ws)
  /\ jobGrants' = [jobGrants EXCEPT ![job[c].ws] = @ + 1]
  /\ Stage(c, "close")
  /\ UNCHANGED <<trials, created, call, changes, crashes, slot>>

\* The run is SUCCEEDED.
CloseSlot(c) ==
  /\ job[c] # None /\ job[c].stage = "close"
  /\ slot' = [slot EXCEPT ![job[c].period] = "SUCCEEDED"]
  /\ EndJob(c)
  /\ UNCHANGED <<subVars, jobGrants>>

\* Any statement after the claim rejects, the SUCCEEDED update included (and
\* getCurrentSubscription when there is no row): the run is FAILED.
FailSlot(c) ==
  /\ job[c] # None /\ job[c].stage # "claim"
  /\ \/ crashes < MaxCrashes /\ crashes' = crashes + 1
     \/ job[c].stage = "due" /\ Current(job[c].ws) = 0 /\ UNCHANGED crashes
  /\ slot' = [slot EXCEPT ![job[c].period] = "FAILED"]
  /\ EndJob(c)
  /\ UNCHANGED <<subs, trials, created, call, changes, jobGrants>>

\* The process dies: its slot stays RUNNING.
CrashJob(c) ==
  /\ job[c] # None /\ crashes < MaxCrashes
  /\ crashes' = crashes + 1
  /\ EndJob(c)
  /\ UNCHANGED <<subs, trials, created, call, changes, slot, jobGrants>>

JobStep(c) == ClaimSlot(c) \/ ReadDue(c) \/ LookForGrant(c) \/ GrantByJob(c)
              \/ CloseSlot(c) \/ FailSlot(c)

\* runMonthlyCreditGrantForAllDueWorkspaces: the workspaces it runs the job for.
InBatch(w) == \E i \in RowsOf(w) : subs[i].status \in {"TRIALING", "ACTIVE", "PAST_DUE", "PAUSED"}
BatchStart(c) == \E w \in Workspaces : InBatch(w) /\ JobStart(c, w)

-------------------------------------------------------------------------------
\* "Same billing period + same workspace = exactly one grant" (scheduler.service.ts,
\* lines 14-19), retries after a failure included, as long as the workspace has
\* had one Subscription row only.
JobGrantsOnce == \A w \in Workspaces : Cardinality(RowsOf(w)) = 1 => jobGrants[w] <= 1

\* A period whose slot a crash has orphaned.
Stuck(p) == slot[p] = "RUNNING" /\ \A c \in Callers : Claimed(c) => job[c].period # p

\* Row i is current, in the batch, and its period has no grant.
Due(i) ==
  /\ i \in DOMAIN subs /\ i = Current(subs[i].ws)
  /\ subs[i].status # "CANCELED" /\ ~GrantedSince(i)

\* A job that has claimed its period settles it: a slot that succeeds leaves no grant of the
\* current period due, one that fails may be claimed again, and only a crash orphans one.
SlotSettles == \A p \in Periods :
  slot[p] = "RUNNING" ~> \/ slot[p] = "SUCCEEDED" /\ ~Due(p)
                         \/ slot[p] = "FAILED"
                         \/ Stuck(p)
===============================================================================
