------------------------------- MODULE JobQueue -------------------------------
(***************************************************************************)
(* The lease-based job queue of the backend, one jobKey at a time           *)
(* (src/backend/src/modules/scheduler/job-queue.service.ts), with the        *)
(* dead-letter operations of the admin console (admin.service.ts).           *)
(*                                                                         *)
(* Job rows live in Postgres and every statement on them is atomic. A        *)
(* worker is a process that calls runWorkerTick in a loop; each await in     *)
(* that function is a point where other workers, the clock and crashes may   *)
(* interleave, so every database statement of it is an action of its own.    *)
(*                                                                         *)
(* Instants are kept relative to the present: dueIn = nextRunAt - now,       *)
(* leaseLeft = leaseExpiresAt - now, and age = now - the worker's captured   *)
(* `now`. They stop counting at Past, which no captured `now` reaches.       *)
(***************************************************************************)
EXTENDS Integers, FiniteSets

CONSTANTS
  Jobs,         \* the (jobKey, dedupeKey) pairs a producer may enqueue
  Workers,      \* worker processes
  NoJob,        \* what a worker that holds no job holds
  NoWorker,     \* leaseOwner = null
  MaxAttempts,  \* Job.maxAttempts
  Lease,        \* leaseDurationMs, in clock ticks
  BackoffBase,  \* the 1000 of backoffMs, in clock ticks
  BackoffCap,   \* the 30_000 of backoffMs, in clock ticks
  MaxStall,     \* bound: ticks between a claim's `new Date()` and its write
  MaxCrashes,   \* bound: worker crashes
  MaxResets,    \* bound: dead-letter retries by an admin
  Timely        \* TRUE: handlers return within their lease

Min2(a, b) == IF a < b THEN a ELSE b

\* backoffMs: exponential in the number of recorded failures, capped.
BackoffMs(n) == Min2(BackoffCap, BackoffBase * 2^n)

ASSUME JobQueueAssumption ==
  /\ NoJob \notin Jobs
  /\ NoWorker \notin Workers
  /\ MaxAttempts \in Nat \ {0}
  /\ Lease \in Nat /\ MaxStall \in Nat
  /\ MaxCrashes \in Nat /\ MaxResets \in Nat
  /\ BackoffBase \in Nat /\ BackoffCap \in Nat
  /\ \A n \in 1..MaxAttempts : BackoffMs(n) \in 0..BackoffCap
  /\ Timely \in BOOLEAN

VARIABLES
  status, attempts, leaseOwner, leaseLeft, dueIn,   \* the Job table
  pc, held, age, seen,                              \* each worker's runWorkerTick
  crashes, resets                                   \* spent from the bounds

rowVars == <<status, attempts, leaseOwner, leaseLeft, dueIn>>
workerVars == <<pc, held, age, seen>>
vars == <<rowVars, workerVars, crashes, resets>>

Leased == {"CLAIMED", "RUNNING"}
Waiting == {"PENDING", "RETRY_WAIT"}
Statuses == {"ABSENT", "SUCCEEDED", "FAILED", "CANCELLED"} \cup Leased \cup Waiting

\* Where a worker stands in runWorkerTick. The last five hold a claimed job.
Driving == {"claimed", "running", "completing", "failing", "recording"}
Stages == {"idle", "claiming"} \cup Driving

Past == -(MaxStall + 1)

\* What a worker keeps of a row it read: the columns its next write relies on.
RowsSeen == [status : Statuses, owner : Workers \cup {NoWorker}, attempts : 0..MaxAttempts]
Nothing == [status |-> "ABSENT", owner |-> NoWorker, attempts |-> 0]

RowsTyped ==
  /\ status \in [Jobs -> Statuses]
  /\ attempts \in [Jobs -> 0..MaxAttempts]
  /\ leaseOwner \in [Jobs -> Workers \cup {NoWorker}]
  /\ leaseLeft \in [Jobs -> Past..Lease]
  /\ dueIn \in [Jobs -> Past..BackoffCap]

WorkersTyped ==
  /\ pc \in [Workers -> Stages]
  /\ held \in [Workers -> Jobs \cup {NoJob}]
  /\ \A w \in Workers : held[w] = NoJob <=> pc[w] = "idle"
  /\ age \in [Workers -> 0..MaxStall]
  /\ seen \in [Workers -> RowsSeen]

\* Type invariant: the columns and each worker's place in runWorkerTick.
TypeOK ==
  /\ RowsTyped
  /\ WorkersTyped
  /\ crashes \in 0..MaxCrashes
  /\ resets \in 0..MaxResets

Init ==
  /\ status = [j \in Jobs |-> "ABSENT"]
  /\ attempts = [j \in Jobs |-> 0]
  /\ leaseOwner = [j \in Jobs |-> NoWorker]
  /\ leaseLeft = [j \in Jobs |-> 0]
  /\ dueIn = [j \in Jobs |-> 0]
  /\ pc = [w \in Workers |-> "idle"]
  /\ held = [w \in Workers |-> NoJob]
  /\ age = [w \in Workers |-> 0]
  /\ seen = [w \in Workers |-> Nothing]
  /\ crashes = 0
  /\ resets = 0

-------------------------------------------------------------------------------
\* Faulty variants: a lease taken over in its last tick, or never.
ClaimableAtExpiry(j, stale) ==
  \/ status[j] \in Waiting /\ dueIn[j] <= -stale
  \/ status[j] \in Leased /\ leaseLeft[j] <= -stale
ClaimableUnlessLeased(j, stale) == status[j] \in Waiting /\ dueIn[j] <= -stale

\* claimableWhere(now), for a `now` captured `stale` ticks ago.
Claimable(j, stale) ==
  \/ status[j] \in Waiting /\ dueIn[j] <= -stale
  \/ status[j] \in Leased /\ leaseLeft[j] < -stale

RowSeen(j) == [status |-> status[j], owner |-> leaseOwner[j], attempts |-> attempts[j]]

\* The WHERE clause { id, status, leaseOwner: workerId }.
Owns(w, s) == status[held[w]] = s /\ leaseOwner[held[w]] = w

\* Faulty variants of the WHERE clauses below: no condition, or no leaseOwner.
HitsAlways(w) == TRUE
HitsIfClaimed(w) == status[held[w]] = "CLAIMED"
HitsIfRunning(w) == status[held[w]] = "RUNNING"

\* Whether the conditional updates of claimJob, startJob, completeJob and
\* failJob affect the row.
ClaimHits(w) == Claimable(held[w], age[w])
StartHits(w) == Owns(w, "CLAIMED")
CompleteHits(w) == Owns(w, "RUNNING")
FailHits(w) == Owns(w, "RUNNING")

ExhaustedTooLate(n) == n > MaxAttempts    \* faulty: one attempt too many
Exhausted(n) == n >= MaxAttempts

ResetKeepsCount(j) == attempts[j]         \* faulty: the reset forgets attempts
ResetAttempts(j) == 0

DeadOrRetrying(j) == status[j] \in {"FAILED", "RETRY_WAIT"}   \* faulty
DeadLettered(j) == status[j] = "FAILED"

Advance(w, stage) == pc' = [pc EXCEPT ![w] = stage] /\ UNCHANGED <<held, age, seen>>

Release(w) ==
  /\ pc' = [pc EXCEPT ![w] = "idle"]
  /\ held' = [held EXCEPT ![w] = NoJob]
  /\ age' = [age EXCEPT ![w] = 0]
  /\ seen' = [seen EXCEPT ![w] = Nothing]

\* The row leaves the worker's hands with leaseOwner and leaseExpiresAt null.
Settle(j, s, n, due) ==
  /\ status' = [status EXCEPT ![j] = s]
  /\ attempts' = [attempts EXCEPT ![j] = n]
  /\ dueIn' = [dueIn EXCEPT ![j] = due]
  /\ leaseOwner' = [leaseOwner EXCEPT ![j] = NoWorker]
  /\ leaseLeft' = [leaseLeft EXCEPT ![j] = 0]

-------------------------------------------------------------------------------
\* enqueueJob: the unique (jobKey, dedupeKey) makes a second call a no-op.
Enqueue(j) ==
  /\ status[j] = "ABSENT"
  /\ status' = [status EXCEPT ![j] = "PENDING"]
  /\ dueIn' = [dueIn EXCEPT ![j] = 0]
  /\ UNCHANGED <<attempts, leaseOwner, leaseLeft, workerVars, crashes, resets>>

\* claimJob, first half: capture `now`, read the claimable row due longest.
ClaimRead(w) ==
  /\ pc[w] = "idle"
  /\ \E j \in Jobs :
       /\ Claimable(j, 0)
       /\ \A k \in Jobs : Claimable(k, 0) => dueIn[j] <= dueIn[k]
       /\ held' = [held EXCEPT ![w] = j]
       /\ seen' = [seen EXCEPT ![w] = RowSeen(j)]
  /\ pc' = [pc EXCEPT ![w] = "claiming"]
  /\ UNCHANGED <<rowVars, age, crashes, resets>>

\* claimJob, second half: the conditional update, with the captured `now`.
ClaimWrite(w) ==
  /\ pc[w] = "claiming"
  /\ \/ /\ ClaimHits(w)
        /\ status' = [status EXCEPT ![held[w]] = "CLAIMED"]
        /\ leaseOwner' = [leaseOwner EXCEPT ![held[w]] = w]
        /\ leaseLeft' = [leaseLeft EXCEPT ![held[w]] = Lease - age[w]]
        /\ pc' = [pc EXCEPT ![w] = "claimed"]
        /\ age' = [age EXCEPT ![w] = 0]
        /\ seen' = [seen EXCEPT ![w] = Nothing]
        /\ UNCHANGED <<attempts, dueIn, held>>
     \/ /\ ~ClaimHits(w)
        /\ Release(w)
        /\ UNCHANGED rowVars
  /\ UNCHANGED <<crashes, resets>>

\* startJob; on zero rows the tick ends with { claimed: false }.
Start(w) ==
  /\ pc[w] = "claimed"
  /\ \/ /\ StartHits(w)
        /\ status' = [status EXCEPT ![held[w]] = "RUNNING"]
        /\ Advance(w, "running")
        /\ UNCHANGED <<attempts, leaseOwner, leaseLeft, dueIn>>
     \/ /\ ~StartHits(w)
        /\ Release(w)
        /\ UNCHANGED rowVars
  /\ UNCHANGED <<crashes, resets>>

\* The handler resolves; or it rejects (or none is registered for the jobKey).
HandlerReturns(w) ==
  /\ pc[w] = "running"
  /\ \E stage \in {"completing", "failing"} : Advance(w, stage)
  /\ UNCHANGED <<rowVars, crashes, resets>>

\* completeJob: its result is ignored, so losing the lease changes nothing here.
Complete(w) ==
  /\ pc[w] = "completing"
  /\ IF CompleteHits(w)
     THEN Settle(held[w], "SUCCEEDED", attempts[held[w]], dueIn[held[w]])
     ELSE UNCHANGED rowVars
  /\ Release(w)
  /\ UNCHANGED <<crashes, resets>>

\* completeJob rejects, its write applied or not: the same catch as the
\* handler's sends the worker to failJob.
CompleteRejects(w) ==
  /\ pc[w] = "completing"
  /\ \/ UNCHANGED rowVars
     \/ /\ CompleteHits(w)
        /\ Settle(held[w], "SUCCEEDED", attempts[held[w]], dueIn[held[w]])
  /\ Advance(w, "failing")
  /\ UNCHANGED <<crashes, resets>>

\* failJob, first half: read the row this worker should still be running.
FailRead(w) ==
  /\ pc[w] = "failing"
  /\ IF Owns(w, "RUNNING")
     THEN /\ seen' = [seen EXCEPT ![w] = RowSeen(held[w])]
          /\ pc' = [pc EXCEPT ![w] = "recording"]
          /\ UNCHANGED <<held, age>>
     ELSE Release(w)
  /\ UNCHANGED <<rowVars, crashes, resets>>

\* failJob, second half: count the failure read before, retry or dead-letter.
FailWrite(w) ==
  /\ pc[w] = "recording"
  /\ IF FailHits(w)
     THEN LET n == seen[w].attempts + 1 IN
          IF Exhausted(n)
          THEN Settle(held[w], "FAILED", n, dueIn[held[w]])
          ELSE Settle(held[w], "RETRY_WAIT", n, BackoffMs(n))
     ELSE UNCHANGED rowVars
  /\ Release(w)
  /\ UNCHANGED <<crashes, resets>>

\* The process dies between two statements (or a rejected failJob ends it);
\* it restarts idle under a fresh workerId, its rows stay as they are.
Crash(w) ==
  /\ pc[w] # "idle"
  /\ crashes < MaxCrashes
  /\ crashes' = crashes + 1
  /\ Release(w)
  /\ UNCHANGED <<rowVars, resets>>

\* retryDeadLetterJob: FAILED back to PENDING with a fresh attempt budget.
RetryDeadLetter(j) ==
  /\ DeadLettered(j)
  /\ resets < MaxResets
  /\ resets' = resets + 1
  /\ Settle(j, "PENDING", ResetAttempts(j), 0)
  /\ UNCHANGED <<workerVars, crashes>>

\* cancelDeadLetterJob.
CancelDeadLetter(j) ==
  /\ DeadLettered(j)
  /\ status' = [status EXCEPT ![j] = "CANCELLED"]
  /\ UNCHANGED <<attempts, leaseOwner, leaseLeft, dueIn, workerVars, crashes, resets>>

\* The clock moves: the present comes closer to every instant on record.
Tick ==
  /\ \A w \in Workers : pc[w] = "claiming" => age[w] < MaxStall
  /\ Timely => \A w \in Workers :
       pc[w] \in Driving /\ leaseOwner[held[w]] = w => leaseLeft[held[w]] > 0
  /\ dueIn' = [j \in Jobs |-> IF dueIn[j] > Past THEN dueIn[j] - 1 ELSE Past]
  /\ leaseLeft' = [j \in Jobs |->
       IF leaseOwner[j] # NoWorker /\ leaseLeft[j] > Past
       THEN leaseLeft[j] - 1 ELSE leaseLeft[j]]
  /\ age' = [w \in Workers |-> IF pc[w] = "claiming" THEN age[w] + 1 ELSE age[w]]
  /\ UNCHANGED <<status, attempts, leaseOwner, pc, held, seen, crashes, resets>>

-------------------------------------------------------------------------------
WorkerStep(w) ==
  \/ ClaimRead(w) \/ ClaimWrite(w) \/ Start(w) \/ HandlerReturns(w)
  \/ Complete(w) \/ CompleteRejects(w) \/ FailRead(w) \/ FailWrite(w)

Next ==
  \/ \E j \in Jobs : Enqueue(j) \/ RetryDeadLetter(j) \/ CancelDeadLetter(j)
  \/ \E w \in Workers : WorkerStep(w) \/ Crash(w)
  \/ Tick

Spec == Init /\ [][Next]_vars

\* Worker loops keep ticking and time passes; nobody has to enqueue, crash,
\* reset or cancel.
Fairness == (\A w \in Workers : WF_vars(WorkerStep(w))) /\ WF_vars(Tick)
FairSpec == Spec /\ Fairness

-------------------------------------------------------------------------------
(***************************** Safety properties ***************************)

\* The failure count and the lifecycle agree (failJob, retryDeadLetterJob): a
\* job waiting for a retry has failed at least once, nothing that may still run
\* or has succeeded has exhausted maxAttempts, and dead letters have used all
\* of it, whichever workers' failures were interleaved on the way.
AttemptBudget == \A j \in Jobs :
  /\ status[j] \in {"ABSENT", "PENDING"} => attempts[j] = 0
  /\ status[j] = "RETRY_WAIT" => attempts[j] \in 1..(MaxAttempts - 1)
  /\ status[j] \in Leased \cup {"SUCCEEDED"} => attempts[j] < MaxAttempts
  /\ status[j] \in {"FAILED", "CANCELLED"} => attempts[j] = MaxAttempts

\* workerId is not a fencing token, yet it fences: when the row says that a
\* worker holds the job it is driving, the row is at the stage that worker
\* brought it to and has the failure count that worker read, however often
\* the lease ran out and changed hands meanwhile (startJob, completeJob and
\* failJob test leaseOwner, never the claim they belong to).
OwnershipIsCurrent == \A w \in Workers :
  (pc[w] \in Driving /\ status[held[w]] \in Leased /\ leaseOwner[held[w]] = w) =>
    /\ status[held[w]] = (IF pc[w] = "claimed" THEN "CLAIMED" ELSE "RUNNING")
    /\ pc[w] = "recording" => seen[w].attempts = attempts[held[w]]

\* If handlers return within their lease, the lease is a lock: no two workers
\* are ever between startJob and the end of their tick on the same job, even
\* with crashed holders and late claims (claimJob, runWorkerTick).
SoleExecutor == \A v, w \in Workers :
  (v # w /\ pc[v] \in Driving /\ pc[w] \in Driving) => held[v] # held[w]

\* A lease changes hands only after it has run out: no claim, however old the
\* `now` it was computed with, displaces a worker whose lease is still valid.
LeaseRespected == [][\A j \in Jobs :
  (status[j] \in Leased /\ leaseOwner'[j] \in Workers \ {leaseOwner[j]})
    => leaseLeft[j] < 0]_vars

\* Only the current holder settles a job, and only after its handler ended: a
\* worker that lost its lease can neither complete nor fail the job any more.
SettledByHolder == [][\A j \in Jobs :
  (status[j] \in Leased /\ status'[j] \notin Leased) =>
    \E w \in Workers : /\ leaseOwner[j] = w /\ held[w] = j /\ status[j] = "RUNNING"
                       /\ pc[w] \in {"completing", "recording"}]_vars

\* Success and cancellation are final whatever late workers still write, and a
\* dead letter stays put until the administrator decides (failJob's WHERE).
FinalIsFinal == [][\A j \in Jobs :
  /\ status[j] \in {"SUCCEEDED", "CANCELLED"} => status'[j] = status[j]
  /\ status[j] = "FAILED" => status'[j] \in {"FAILED", "PENDING", "CANCELLED"}]_vars

\* failJob reads the count and writes it back incremented in two statements;
\* still no recorded failure is lost or counted twice.
FailuresCountOnce == [][\A j \in Jobs :
  status'[j] \in {"RETRY_WAIT", "FAILED"} /\ status[j] \in Leased
    => attempts'[j] = attempts[j] + 1]_vars

\* The lease without a fencing token is a fence all the same: rows and holders agree, and
\* a lease is taken over only after it has run out.
LeasesFence == []OwnershipIsCurrent /\ LeaseRespected

\* A job is settled once for each budget of attempts, by its holder, with every failure
\* counted once, and stays settled.
SettledOnce == []AttemptBudget /\ SettledByHolder /\ FinalIsFinal /\ FailuresCountOnce

\* The queue implements the lifecycle promised to producers.
PhaseOf(s) ==
  CASE s = "ABSENT" -> "absent"
    [] s \in Waiting -> "ready"
    [] s \in Leased -> "inflight"
    [] s = "SUCCEEDED" -> "done"
    [] s = "FAILED" -> "dead"
    [] s = "CANCELLED" -> "cancelled"

Lifecycle == INSTANCE JobLifecycle WITH
  phase <- [j \in Jobs |-> PhaseOf(status[j])], failures <- attempts

ImplementsLifecycle == Lifecycle!Spec

\* The comment of claimJob's module (job-queue.service.ts, lines 20-25) says
\* that only the update which observes the pre-claim state affects a row: a
\* claim never succeeds on a row that was claimed since it was read.
ClaimSeesPreClaimState == [][\A w \in Workers :
  (pc[w] = "claiming" /\ pc'[w] = "claimed") =>
    /\ status[held[w]] = seen[w].status
    /\ leaseOwner[held[w]] = seen[w].owner]_vars

(**************************** Liveness property ****************************)

\* Every enqueued job is eventually settled: it succeeds or reaches the dead
\* letters, despite crashed holders, backoff and contending workers.
EnqueuedSettles == \A j \in Jobs :
  status[j] = "PENDING" ~> status[j] \in {"SUCCEEDED", "FAILED", "CANCELLED"}
===============================================================================
