------------------------------ MODULE CreditLedger ------------------------------
(***************************************************************************)
(* The AI-credit ledger of one workspace                                     *)
(* (src/backend/src/modules/billing/credit-ledger.service.ts) under the AI     *)
(* steps that spend from it (marketing-autopilot.steps.ts), each retried by    *)
(* runStepWithRetry (workflow-engine.service.ts).                             *)
(*                                                                         *)
(* The AICredit and AIUsage tables are kept as their sums; the transactions    *)
(* on them lock the Workspace row. Every statement is an action.              *)
(***************************************************************************)
EXTENDS Integers, FiniteSets

CONSTANTS
  Actions,          \* executions of an AI step: one logical action each
  Grantors,         \* calls of grantCredits: plan grants, admin adjustments
  Nobody,           \* who holds the Workspace row lock when it is free
  Cost,             \* CREDIT_COSTS, per action
  Amounts,          \* amounts granted; an admin may take credits away
  MaxStepAttempts,  \* MAX_STEP_ATTEMPTS
  TrackingFaults    \* TRUE: a FIRST_AI_ACTION statement may fail in Postgres

Callers == Actions \cup Grantors

ASSUME CreditAssumption ==
  /\ Actions \cap Grantors = {}
  /\ Nobody \notin Callers
  /\ Cost \in [Actions -> Nat \ {0}]
  /\ Amounts \subseteq Int
  /\ MaxStepAttempts \in Nat \ {0}
  /\ TrackingFaults \in BOOLEAN

VARIABLES
  supply, used,    \* sum(AICredit.amount), sum(AIUsage.creditsConsumed)
  balanceAfter,    \* of the latest AICredit row
  firstEvents,     \* ProductEvent rows FIRST_AI_ACTION of the workspace
  lock,            \* who holds the Workspace row FOR UPDATE
  pc,              \* where each call is
  left, sum,       \* computeBalance: tables still to aggregate, sum so far
  amount,          \* what a grant adds
  tries,           \* localAttempt of runStepWithRetry
  charges, late    \* history, per action: rows charged, faults after a charge

ledger == <<supply, used, balanceAfter, firstEvents>>
history == <<charges, late>>
vars == <<ledger, lock, pc, left, sum, amount, tries, history>>

Tables == {"AICredit", "AIUsage"}
Ended == {"done", "failed"}
Stages == {"idle", "checking", "calling", "locking", "charging", "alerting"} \cup Ended

\* Type invariant: the ledger, the lock and the locals of each call.
TypeOK ==
  /\ supply \in Int /\ used \in Nat /\ balanceAfter \in Int /\ firstEvents \in Nat
  /\ lock \in Callers \cup {Nobody}
  /\ pc \in [Callers -> Stages]
  /\ \A g \in Grantors : pc[g] \notin {"checking", "calling", "alerting"}
  /\ left \in [Callers -> SUBSET Tables]
  /\ sum \in [Callers -> Int]
  /\ amount \in [Grantors -> Int]
  /\ tries \in [Actions -> 1..MaxStepAttempts]
  /\ charges \in [Actions -> Nat] /\ late \in [Actions -> Nat]

Init ==
  /\ supply = 0 /\ used = 0 /\ balanceAfter = 0 /\ firstEvents = 0
  /\ lock = Nobody
  /\ pc = [c \in Callers |-> "idle"]
  /\ left = [c \in Callers |-> {}]
  /\ sum = [c \in Callers |-> 0]
  /\ amount = [g \in Grantors |-> 0]
  /\ tries = [a \in Actions |-> 1]
  /\ charges = [a \in Actions |-> 0] /\ late = [a \in Actions |-> 0]

-------------------------------------------------------------------------------
\* Faulty variants: the reads not serialized; the charge before the provider
\* (as it was before Phase 24); the event written without looking; a transaction
\* that keeps its lock when it ends; one retry too many.
LockIgnored(c) == TRUE
ChargeFirst(stage) ==
  CASE stage = "checking" -> "locking"
    [] stage = "charging" -> "calling"
    [] stage = "calling" -> "alerting"
    [] stage = "alerting" -> "done"
EventEachTime == TRUE
KeepLock(c) == UNCHANGED lock
RetriesOnceMore(a) == tries[a] <= MaxStepAttempts

\* SELECT ... FOR UPDATE returns when nobody else holds the row.
MayLock(c) == lock = Nobody

\* The end of a transaction, committed or rolled back.
Unlock(c) == lock' = IF lock = c THEN Nobody ELSE lock

\* The order of a step handler: assertSufficientCredits, the provider, recordUsage,
\* checkAndTriggerUsageAlerts.
Following(stage) ==
  CASE stage = "checking" -> "calling"
    [] stage = "calling" -> "locking"
    [] stage = "charging" -> "alerting"
    [] stage = "alerting" -> "done"

\* recordUsage: no FIRST_AI_ACTION row is on record yet.
EventDue == firstEvents = 0

\* runStepWithRetry: a transient failure is retried while attempts are left.
MayRetry(a) == tries[a] < MaxStepAttempts

Goto(c, stage) == pc' = [pc EXCEPT ![c] = stage]

\* computeBalance starts: both tables to aggregate, in either order.
StartSum(c) == left' = [left EXCEPT ![c] = Tables] /\ sum' = [sum EXCEPT ![c] = 0]

\* The handler of a throws: the step is tried again from its start, or it fails.
Throw(a) ==
  \/ /\ MayRetry(a)
     /\ tries' = [tries EXCEPT ![a] = @ + 1]
     /\ Goto(a, "checking") /\ StartSum(a)
  \/ Goto(a, "failed") /\ UNCHANGED <<left, sum, tries>>

-------------------------------------------------------------------------------
\* A step handler starts with assertSufficientCredits.
Begin(a) ==
  /\ pc[a] = "idle"
  /\ Goto(a, "checking") /\ StartSum(a)
  /\ UNCHANGED <<ledger, lock, amount, tries, history>>

\* grantCredits is called.
Request(g) ==
  /\ pc[g] = "idle"
  /\ \E n \in Amounts : amount' = [amount EXCEPT ![g] = n]
  /\ Goto(g, "locking")
  /\ UNCHANGED <<ledger, lock, left, sum, tries, history>>

\* computeBalance: one of its two aggregates, outside a transaction or under the lock.
ComputeBalance(c) ==
  /\ pc[c] \in {"checking", "charging"}
  /\ \E t \in left[c] :
       /\ left' = [left EXCEPT ![c] = @ \ {t}]
       /\ sum' = [sum EXCEPT ![c] = @ + (IF t = "AICredit" THEN supply ELSE -used)]
  /\ UNCHANGED <<ledger, lock, pc, amount, tries, history>>

\* assertSufficientCredits decides; a lack of credits is permanent.
AssertSufficient(a) ==
  /\ pc[a] = "checking" /\ left[a] = {}
  /\ Goto(a, IF sum[a] >= Cost[a] THEN Following("checking") ELSE "failed")
  /\ UNCHANGED <<ledger, lock, left, sum, amount, tries, history>>

\* The provider answers; an answer that does not parse is permanent.
Provide(a) ==
  /\ pc[a] = "calling"
  /\ \E stage \in {Following("calling"), "failed"} : Goto(a, stage)
  /\ UNCHANGED <<ledger, lock, left, sum, amount, tries, history>>

\* recordUsage and grantCredits open their transaction with the row lock.
Lock(c) ==
  /\ pc[c] = "locking" /\ MayLock(c)
  /\ lock' = c
  /\ Goto(c, "charging") /\ StartSum(c)
  /\ UNCHANGED <<ledger, amount, tries, history>>

\* The AIUsage row of a charge and, with the first one, its product event.
Record(a) ==
  /\ used' = used + Cost[a]
  /\ charges' = [charges EXCEPT ![a] = @ + 1]
  /\ firstEvents' = IF EventDue THEN firstEvents + 1 ELSE firstEvents
  /\ UNCHANGED <<supply, balanceAfter>>

\* recordUsage commits. A blocked attempt consumes nothing and throws for good.
Charge(a) ==
  /\ pc[a] = "charging" /\ left[a] = {}
  /\ \/ /\ sum[a] < Cost[a]
        /\ Goto(a, "failed")
        /\ UNCHANGED <<ledger, history, left, sum, tries>>
     \/ /\ sum[a] >= Cost[a]
        /\ Record(a)
        /\ \/ Goto(a, Following("charging")) /\ UNCHANGED <<left, sum, tries, late>>
           \/ Throw(a) /\ late' = [late EXCEPT ![a] = @ + 1]   \* the answer is lost
     \/ \* The event's statement failed: the error is swallowed, but Postgres has
        \* aborted the transaction and turns its COMMIT into a rollback.
        /\ sum[a] >= Cost[a] /\ TrackingFaults
        /\ Goto(a, Following("charging"))
        /\ UNCHANGED <<ledger, history, left, sum, tries>>
  /\ Unlock(a)
  /\ UNCHANGED amount

\* grantCredits commits its AICredit row; its answer may get lost.
Grant(g) ==
  /\ pc[g] = "charging" /\ left[g] = {}
  /\ supply' = supply + amount[g]
  /\ balanceAfter' = sum[g] + amount[g]
  /\ \E stage \in Ended : Goto(g, stage)
  /\ Unlock(g)
  /\ UNCHANGED <<used, firstEvents, left, sum, amount, tries, history>>

\* checkAndTriggerUsageAlerts returns and the handler with it.
Alert(a) ==
  /\ pc[a] = "alerting"
  /\ Goto(a, Following("alerting"))
  /\ UNCHANGED <<ledger, lock, left, sum, amount, tries, history>>

\* Any await of a handler rejects, rolling an open transaction back: with a
\* transient error, or with a permanent one (or the process dies).
StepFault(a) ==
  /\ pc[a] \notin {"idle"} \cup Ended
  /\ Throw(a)
  /\ late' = IF pc[a] = "alerting" THEN [late EXCEPT ![a] = @ + 1] ELSE late
  /\ Unlock(a)
  /\ UNCHANGED <<ledger, amount, charges>>

GrantFault(g) ==
  /\ pc[g] \in {"locking", "charging"}
  /\ Goto(g, "failed")
  /\ Unlock(g)
  /\ UNCHANGED <<ledger, left, sum, amount, tries, history>>

-------------------------------------------------------------------------------
ActionStep(a) ==
  \/ ComputeBalance(a) \/ AssertSufficient(a) \/ Provide(a) \/ Lock(a)
  \/ Charge(a) \/ Alert(a)
GrantStep(g) == ComputeBalance(g) \/ Lock(g) \/ Grant(g)

Next ==
  \/ \E a \in Actions : Begin(a) \/ ActionStep(a) \/ StepFault(a)
  \/ \E g \in Grantors : Request(g) \/ GrantStep(g) \/ GrantFault(g)

Spec == Init /\ [][Next]_vars

\* A call that has begun goes on until it returns, and no fault is needed to end
\* it. Weak fairness is enough for the lock too: there are finitely many calls,
\* so each waits for finitely many.
Fairness ==
  /\ \A a \in Actions : WF_vars(ActionStep(a))
  /\ \A g \in Grantors : WF_vars(GrantStep(g))
FairSpec == Spec /\ Fairness

-------------------------------------------------------------------------------
\* No charge is allowed past the balance, however many steps passed their
\* unlocked check at once (recordUsage; an admin adjustment may, a charge never).
NeverOverdrawn == [][used' # used => used' <= supply']_vars

\* A grant's balanceAfter is the true balance at its commit, under concurrent
\* charges and other grants (grantCredits).
SnapshotExact ==
  [][supply' # supply => balanceAfter' = supply' - used']_vars

\* FIRST_AI_ACTION is written exactly once, by the first charge (recordUsage,
\* lines 109-122: the check used to race after the commit).
FirstActionOnce == firstEvents = IF used = 0 THEN 0 ELSE 1

\* The ledger stays exact under any interleaving of charges and grants: nothing is
\* overdrawn, snapshots are true, and the first action is recorded with the first charge.
LedgerIsExact == NeverOverdrawn /\ SnapshotExact /\ []FirstActionOnce

\* Retries of a step do not charge again: a delivered action has been charged,
\* and every charge but one was followed by a fault of its own (recordUsage,
\* lines 61-66, with the handlers' order and runStepWithRetry).
PaidOnce == \A a \in Actions :
  /\ charges[a] <= 1 + late[a]
  /\ pc[a] = "done" => charges[a] >= 1

\* What those lines promise outright: one charge per logical action.
ChargedOncePerAction == \A a \in Actions : charges[a] <= 1

\* "Never allowed to abort the real credit charge" (lines 119-122): an action
\* whose recordUsage reported success has its AIUsage row.
ReportedMeansCharged == \A a \in Actions : pc[a] = "alerting" => charges[a] >= 1

\* Every step comes to an end: no lock is kept by a call that is gone, and no
\* retry goes on for ever.
ActionsSettle == \A a \in Actions : (pc[a] # "idle") ~> (pc[a] \in Ended)
===============================================================================
