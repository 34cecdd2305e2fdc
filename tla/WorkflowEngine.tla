---------------------------- MODULE WorkflowEngine ----------------------------
(***************************************************************************)
(* The workflow engine on one WorkflowInstance, the row of one idempotency   *)
(* key (src/backend/src/modules/workflows/workflow-engine.service.ts).        *)
(*                                                                         *)
(* Callers are requests and job handlers: they start, approve, reject or      *)
(* retry the instance, and the call that makes it RUNNING executes its steps  *)
(* itself. Every database statement is an action, so calls interleave at      *)
(* every await; an await that rejects, or a process that dies, ends the call  *)
(* and leaves the row as it is (Abort). Most writes of the step loop are      *)
(* unconditional: the model lets them hit whatever the row has become.        *)
(*                                                                         *)
(* Attempts of a step are numbered without gaps, so made[s], the highest      *)
(* number, stands for the WorkflowStepRun rows of step s.                    *)
(***************************************************************************)
EXTENDS Integers, FiniteSets

CONSTANTS
  Starters,         \* calls of startWorkflow with this idempotency key
  Reviewers,        \* calls of approveInstance, rejectInstance, retryInstance
  NumSteps,         \* the registered steps, in order
  Gates,            \* the steps whose handler asks for approval
  MaxStepAttempts,  \* MAX_STEP_ATTEMPTS
  MaxRetries,       \* bound: successful retryInstance claims
  MaxAborts         \* bound: calls cut short

Callers == Starters \cup Reviewers
Steps == 1..NumSteps

ASSUME WorkflowAssumption ==
  /\ NumSteps \in Nat /\ Gates \subseteq Steps
  /\ MaxStepAttempts \in Nat \ {0}
  /\ MaxRetries \in Nat /\ MaxAborts \in Nat

VARIABLES
  status, cursor, outcome,   \* WorkflowInstance: status, currentStepKey (0: null), outcomeSignal
  made, done,                \* WorkflowStepRun: attempts made, steps with a SUCCEEDED run
  pc, step, attempt, local,  \* each call: where it is, i, DB attempt number, localAttempt
  seen,                      \* each call: status of its in-memory `instance`
  rewind,                    \* each call: retryInstance's rewindToStepKey
  retries, aborts            \* spent from the bounds

row == <<status, cursor, outcome>>
stepRuns == <<made, done>>
callVars == <<pc, step, attempt, local, seen, rewind>>
vars == <<row, stepRuns, callVars, retries, aborts>>

Statuses == {"ABSENT", "PENDING", "RUNNING", "AWAITING_APPROVAL", "COMPLETED",
             "FAILED", "RETRYING", "CANCELLED"}

\* VALID_TRANSITIONS and assertTransition, which lets a status stay as it is.
NextStatuses ==
  [s \in Statuses |->
    CASE s = "ABSENT" -> {"PENDING"}
      [] s = "PENDING" -> {"RUNNING", "CANCELLED"}
      [] s = "RUNNING" -> {"RUNNING", "AWAITING_APPROVAL", "COMPLETED", "FAILED"}
      [] s = "AWAITING_APPROVAL" -> {"RUNNING", "CANCELLED"}
      [] s = "FAILED" -> {"RETRYING", "CANCELLED"}
      [] s = "RETRYING" -> {"RUNNING", "FAILED"}
      [] s \in {"COMPLETED", "CANCELLED"} -> {}]
ValidTransition(s, t) == s = t \/ t \in NextStatuses[s]

\* The step loop of runToNextGate, from its first look at a step on.
Looping == {"stepping", "creating", "handling", "advancing", "failing", "gating"}
Places == {"idle", "creatingInstance", "entering", "claiming", "rereading",
           "retrying", "reviving"} \cup Looping

\* Type invariant: the row, its step runs and the locals of each call.
TypeOK ==
  /\ status \in Statuses
  /\ cursor \in 0..NumSteps
  /\ outcome \in {"PENDING", "ACCEPTED", "DISMISSED"}
  /\ made \in [Steps -> Nat]
  /\ done \in SUBSET Steps
  /\ pc \in [Callers -> Places]
  /\ step \in [Callers -> 0..(NumSteps + 1)]
  /\ \A c \in Callers : pc[c] \in Looping \ {"stepping"} => step[c] \in Steps
  /\ attempt \in [Callers -> Nat]
  /\ local \in [Callers -> 0..MaxStepAttempts]
  /\ seen \in [Callers -> Statuses]
  /\ rewind \in [Callers -> 0..NumSteps]
  /\ retries \in 0..MaxRetries
  /\ aborts \in 0..MaxAborts

Init ==
  /\ status = "ABSENT" /\ cursor = 0 /\ outcome = "PENDING"
  /\ made = [s \in Steps |-> 0] /\ done = {}
  /\ pc = [c \in Callers |-> "idle"]
  /\ step = [c \in Callers |-> 0]
  /\ attempt = [c \in Callers |-> 0]
  /\ local = [c \in Callers |-> 0]
  /\ seen = [c \in Callers |-> "ABSENT"]
  /\ rewind = [c \in Callers |-> 0]
  /\ retries = 0 /\ aborts = 0

-------------------------------------------------------------------------------
At(c, place) == pc[c] = place
Goto(c, place) == pc' = [pc EXCEPT ![c] = place]
SetLocals(c, i, a, l, s, r) ==
  /\ step' = [step EXCEPT ![c] = i]
  /\ attempt' = [attempt EXCEPT ![c] = a]
  /\ local' = [local EXCEPT ![c] = l]
  /\ seen' = [seen EXCEPT ![c] = s]
  /\ rewind' = [rewind EXCEPT ![c] = r]

\* The call returns or throws.
Return(c) == Goto(c, "idle") /\ SetLocals(c, 0, 0, 0, "ABSENT", 0)
Continue(c, place) == Goto(c, place) /\ UNCHANGED <<step, attempt, local, seen, rewind>>

\* Faulty variants: the conditional writes as plain updates, attempts counted
\* per call, the rewind off by one or left out, gates ignored, a PENDING row
\* that nobody resumes, a loop that never starts.
ApproveAlways(c) == status \in {"AWAITING_APPROVAL", "RUNNING"}
RejectAlways(c) == status \in {"AWAITING_APPROVAL", "RUNNING"}
FirstAttemptAnew(s) == 1
RewindNowhere(c) == cursor
RewindBelowFirst(c) == cursor - 1
GateIgnored(s) == FALSE
RetryUnclaimed(c) == status \in {"FAILED", "RUNNING"}
ReturnsExisting == FALSE
TakesUpWhenPending == status = "PENDING"

\* The WHERE clauses of approveInstance, rejectInstance and retryInstance.
ApproveHits(c) == status = "AWAITING_APPROVAL"
RejectHits(c) == status = "AWAITING_APPROVAL"
RetryHits(c) == status = "FAILED"
\* runStepWithRetry: the attempt after the highest one on record.
FirstAttempt(s) == made[s] + 1
\* retryInstance: the step before the one the row stands at, null for none.
RewindTo(c) == IF cursor > 1 THEN cursor - 1 ELSE 0
\* runToNextGate: startIndex, one past currentStepKey.
ResumeAt(k) == k + 1
\* startWorkflow resumes a row that no call has taken beyond PENDING.
ResumesExisting == status = "PENDING"
\* runToNextGate runs the loop only on a RUNNING row.
TakesUp == status = "RUNNING"
\* assertTransition on the in-memory instance.
MayBecome(c, t) == ValidTransition(seen[c], t)
\* stepResult.requiresApproval.
AsksApproval(s) == s \in Gates

-------------------------------------------------------------------------------
\* startWorkflow: look for the row of the idempotency key. A row that is past
\* PENDING is returned as it is, which changes nothing.
StartLook(c) ==
  /\ At(c, "idle")
  /\ \/ status = "ABSENT" /\ Continue(c, "creatingInstance")
     \/ ResumesExisting /\ Continue(c, "entering")
  /\ UNCHANGED <<row, stepRuns, retries, aborts>>

\* startWorkflow: create; the unique constraint lets one caller win, the
\* others return the winner's row.
CreateInstance(c) ==
  /\ At(c, "creatingInstance")
  /\ IF status = "ABSENT"
     THEN status' = "PENDING" /\ Continue(c, "entering")
     ELSE Return(c) /\ UNCHANGED status
  /\ UNCHANGED <<cursor, outcome, stepRuns, retries, aborts>>

\* runToNextGate on a RUNNING row: take the loop up after the cursor just read.
BeginLoop(c) ==
  /\ Goto(c, "stepping")
  /\ SetLocals(c, ResumeAt(cursor), 0, 0, "RUNNING", 0)

\* runToNextGate: the first read of the row decides.
Enter(c) ==
  /\ At(c, "entering")
  /\ \/ status = "PENDING" /\ Continue(c, "claiming")
     \/ TakesUp /\ BeginLoop(c)
     \/ status # "PENDING" /\ ~TakesUp /\ Return(c)
  /\ UNCHANGED <<row, stepRuns, retries, aborts>>

\* runToNextGate: the conditional PENDING -> RUNNING; a loser just returns.
Claim(c) ==
  /\ At(c, "claiming")
  /\ IF status = "PENDING"
     THEN status' = "RUNNING" /\ Continue(c, "rereading")
     ELSE Return(c) /\ UNCHANGED status
  /\ UNCHANGED <<cursor, outcome, stepRuns, retries, aborts>>

Reread(c) ==
  /\ At(c, "rereading")
  /\ IF TakesUp THEN BeginLoop(c) ELSE Return(c)
  /\ UNCHANGED <<row, stepRuns, retries, aborts>>

\* Head of the step loop: read the attempts of the next step.
NextStep(c) ==
  /\ At(c, "stepping") /\ step[c] <= NumSteps
  /\ Goto(c, "creating")
  /\ SetLocals(c, step[c], FirstAttempt(step[c]), 1, seen[c], 0)
  /\ UNCHANGED <<row, stepRuns, retries, aborts>>

\* Past the last step: COMPLETED, if the in-memory status allows it.
Finish(c) ==
  /\ At(c, "stepping") /\ step[c] > NumSteps
  /\ status' = IF MayBecome(c, "COMPLETED") THEN "COMPLETED" ELSE status
  /\ Return(c)
  /\ UNCHANGED <<cursor, outcome, stepRuns, retries, aborts>>

\* workflowStepRun.create: an attempt number already on record is a unique
\* violation, outside the try block, and ends the whole call.
CreateStepRun(c) ==
  /\ At(c, "creating")
  /\ IF attempt[c] > made[step[c]]
     THEN made' = [made EXCEPT ![step[c]] = attempt[c]] /\ Continue(c, "handling")
     ELSE Return(c) /\ UNCHANGED made
  /\ UNCHANGED <<row, done, retries, aborts>>

HandlerSucceeds(c) ==
  /\ At(c, "handling")
  /\ done' = done \cup {step[c]}
  /\ Continue(c, "advancing")
  /\ UNCHANGED <<row, made, retries, aborts>>

\* A transient error is retried MaxStepAttempts times, a permanent one never.
HandlerFails(c) ==
  /\ At(c, "handling")
  /\ \/ /\ local[c] < MaxStepAttempts
        /\ Goto(c, "creating")
        /\ SetLocals(c, step[c], attempt[c] + 1, local[c] + 1, seen[c], 0)
     \/ Continue(c, "failing")
  /\ UNCHANGED <<row, stepRuns, retries, aborts>>

\* The step is exhausted: FAILED at this step, whatever the row says.
FailInstance(c) ==
  /\ At(c, "failing")
  /\ status' = "FAILED" /\ cursor' = step[c]
  /\ Return(c)
  /\ UNCHANGED <<outcome, stepRuns, retries, aborts>>

\* The step is done: move the cursor and take back the row as it is now.
Advance(c) ==
  /\ At(c, "advancing")
  /\ cursor' = step[c]
  /\ LET gate == AsksApproval(step[c]) IN
       /\ Goto(c, IF gate THEN "gating" ELSE "stepping")
       /\ SetLocals(c, IF gate THEN step[c] ELSE step[c] + 1, 0, 0, status, 0)
  /\ UNCHANGED <<status, outcome, stepRuns, retries, aborts>>

AwaitApproval(c) ==
  /\ At(c, "gating")
  /\ status' = IF MayBecome(c, "AWAITING_APPROVAL") THEN "AWAITING_APPROVAL" ELSE status
  /\ Return(c)
  /\ UNCHANGED <<cursor, outcome, stepRuns, retries, aborts>>

\* approveInstance and rejectInstance; when nothing matches they throw.
Approve(c) ==
  /\ At(c, "idle") /\ ApproveHits(c)
  /\ status' = "RUNNING" /\ outcome' = "ACCEPTED"
  /\ Continue(c, "entering")
  /\ UNCHANGED <<cursor, stepRuns, retries, aborts>>

Reject(c) ==
  /\ At(c, "idle") /\ RejectHits(c)
  /\ status' = "CANCELLED" /\ outcome' = "DISMISSED"
  /\ UNCHANGED <<cursor, stepRuns, callVars, retries, aborts>>

\* retryInstance: the cursor to rewind to is computed from a first read ...
RetryRead(c) ==
  /\ At(c, "idle") /\ status # "ABSENT"
  /\ retries < MaxRetries
  /\ Goto(c, "retrying")
  /\ SetLocals(c, 0, 0, 0, "ABSENT", RewindTo(c))
  /\ UNCHANGED <<row, stepRuns, retries, aborts>>

\* ... and written by the conditional claim of the FAILED row.
RetryClaim(c) ==
  /\ At(c, "retrying")
  /\ IF RetryHits(c) /\ retries < MaxRetries
     THEN /\ status' = "RETRYING" /\ cursor' = rewind[c]
          /\ retries' = retries + 1
          /\ Continue(c, "reviving")
     ELSE Return(c) /\ UNCHANGED <<status, cursor, retries>>
  /\ UNCHANGED <<outcome, stepRuns, aborts>>

\* retryInstance: RETRYING -> RUNNING, its result ignored, then runToNextGate.
Revive(c) ==
  /\ At(c, "reviving")
  /\ status' = IF status = "RETRYING" THEN "RUNNING" ELSE status
  /\ Continue(c, "entering")
  /\ UNCHANGED <<cursor, outcome, stepRuns, retries, aborts>>

\* An await rejects, or the process dies.
Abort(c) ==
  /\ ~At(c, "idle") /\ aborts < MaxAborts
  /\ aborts' = aborts + 1
  /\ Return(c)
  /\ UNCHANGED <<row, stepRuns, retries>>

-------------------------------------------------------------------------------
\* What a call does once it is under way.
Proceed(c) ==
  \/ CreateInstance(c) \/ Enter(c) \/ Claim(c) \/ Reread(c)
  \/ NextStep(c) \/ Finish(c) \/ CreateStepRun(c)
  \/ HandlerSucceeds(c) \/ HandlerFails(c) \/ FailInstance(c)
  \/ Advance(c) \/ AwaitApproval(c) \/ RetryClaim(c) \/ Revive(c)

Next ==
  \/ \E c \in Starters : StartLook(c)
  \/ \E c \in Reviewers : Approve(c) \/ Reject(c) \/ RetryRead(c)
  \/ \E c \in Callers : Proceed(c) \/ Abort(c)

Spec == Init /\ [][Next]_vars

\* Calls under way proceed, and the job queue calls startWorkflow again as long
\* as the instance has not left PENDING; no reviewer has to do anything.
Fairness == /\ \A c \in Callers : WF_vars(Proceed(c))
            /\ \A c \in Starters : WF_vars(StartLook(c))
FairSpec == Spec /\ Fairness

-------------------------------------------------------------------------------
(***************************** Safety properties ***************************)

\* One call at a time executes steps of the instance: the promise that the
\* claims of runToNextGate, approveInstance and retryInstance rest on
\* (workflow-engine.service.ts, lines 192-199).
SoleExecutor == \A c, d \in Callers :
  (pc[c] \in Looping /\ pc[d] \in Looping) => c = d

\* While the instance waits for a human, or once it has ended, no call is left
\* in the step loop that could still move it (its writes are unconditional).
RestIsQuiet ==
  status \in {"PENDING", "AWAITING_APPROVAL", "COMPLETED", "FAILED", "RETRYING", "CANCELLED"}
    => \A c \in Callers : pc[c] \notin Looping

\* No step is passed over: what lies before the cursor has succeeded, the step
\* at the cursor too unless it is the one that failed, and a completed
\* instance has a successful run of every step, after any retries.
NothingSkipped ==
  /\ \A s \in Steps : (s < cursor \/ (s = cursor /\ status # "FAILED")) => s \in done
  /\ status = "COMPLETED" => done = Steps

\* Nothing behind a gate is attempted before somebody approved the instance,
\* and it is never both dismissed and anything but cancelled.
GateHolds ==
  /\ (\E g \in Gates, s \in Steps : g < s /\ made[s] > 0) => outcome # "PENDING"
  /\ outcome = "DISMISSED" <=> status = "CANCELLED"

\* A new run of a step takes a number no earlier run of it has, in a first
\* execution and in every retry: workflowStepRun.create never collides.
AttemptIsFresh == \A c \in Callers : At(c, "creating") => attempt[c] = made[step[c]] + 1

\* The status moves only along VALID_TRANSITIONS, although most writes of it
\* are unconditional updates.
LegalTransitions == [][status' # status => status' \in NextStatuses[status]]_vars

\* The unconditional writes of the step loop overwrite nobody: none is pending at rest, and
\* none takes the status off VALID_TRANSITIONS.
OverwritesNothing == []RestIsQuiet /\ LegalTransitions

\* Steps are run in order, behind their gates, under numbers of their own, through any
\* failures, approvals and retries.
StepsInOrder == NothingSkipped /\ GateHolds /\ AttemptIsFresh

\* retryInstance says it re-lands on the failed step (lines 495-501): a retry
\* puts the cursor right before the step at which the instance failed.
RetryRewindsToFailedStep ==
  [][status = "FAILED" /\ status' = "RETRYING" => cursor' = cursor - 1]_vars

(*************************** Liveness properties ***************************)

\* An instance whose creator died before its first step is still run: the next
\* call with its key resumes a PENDING row (startWorkflow).
PendingIsResumed == status = "PENDING" ~> status # "PENDING"

\* If no call is cut short, execution reaches a gate or an end.
ExecutionRests == (aborts = 0 /\ status = "RUNNING") ~>
  (aborts > 0 \/ status \in {"AWAITING_APPROVAL", "COMPLETED", "FAILED"})

\* Neither a creator that died nor a call under way leaves the instance hanging.
CallsSettle == PendingIsResumed /\ ExecutionRests
===============================================================================
