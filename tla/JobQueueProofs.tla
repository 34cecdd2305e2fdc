---------------------------- MODULE JobQueueProofs ----------------------------
(***************************************************************************)
(* Proofs about JobQueue for any number of jobs and workers, any           *)
(* maxAttempts, lease, backoff and stall, and any number of crashes and    *)
(* resets; and about Maintenance for any processes, hour, interval and     *)
(* days.                                                                   *)
(***************************************************************************)
EXTENDS MCWorkers, FiniteSetTheorems, TLAPS

\* The inductive invariant. TypeOK is not inductive alone: that failJob writes
\* a count within bounds needs the count it read to be current
\* (OwnershipIsCurrent) and the row to have attempts left (AttemptBudget).
IInv == TypeOK /\ AttemptBudget /\ OwnershipIsCurrent

\* Facts about the sorts every step uses.
LEMMA PastBelow == Past \in Int /\ Past < 0 /\ 0 \in Past..Lease /\ 0 \in Past..BackoffCap
  BY JobQueueAssumption DEF Past, BackoffMs

\* The initial states satisfy the inductive invariant.
LEMMA InitInvariant == Init => IInv
  BY JobQueueAssumption, PastBelow
  DEF Init, IInv, TypeOK, RowsTyped, WorkersTyped, AttemptBudget, OwnershipIsCurrent, Statuses, Stages,
      Driving, Leased, Waiting, RowsSeen, Nothing

\* A worker that leaves its tick, or only advances in it, stays well-typed.
LEMMA ReleaseTyped == ASSUME NEW w \in Workers, WorkersTyped, Release(w) PROVE WorkersTyped'
  BY JobQueueAssumption
  DEF WorkersTyped, Release, Stages, RowsSeen, Nothing, Statuses, Leased, Waiting

\* A worker that moves on with its job stays well-typed.
LEMMA AdvanceTyped ==
  ASSUME NEW w \in Workers, NEW stage \in Driving, WorkersTyped, pc[w] # "idle", Advance(w, stage)
  PROVE  WorkersTyped'
  BY JobQueueAssumption DEF WorkersTyped, Advance, Stages, Driving

\* A settled row stays well-typed if its new columns are.
LEMMA SettleTyped ==
  ASSUME NEW j \in Jobs, NEW s \in Statuses, NEW n \in 0..MaxAttempts,
         NEW due \in Past..BackoffCap, RowsTyped, Settle(j, s, n, due)
  PROVE  RowsTyped'
  BY JobQueueAssumption, PastBelow DEF RowsTyped, Settle

\* A new row starts with a full budget and no owner.
LEMMA EnqueueStep == ASSUME NEW j \in Jobs, IInv, Enqueue(j) PROVE IInv'
<1>. USE JobQueueAssumption, PastBelow DEF IInv, RowsTyped, WorkersTyped, Statuses, Stages, Driving, Leased, Waiting, RowsSeen, Nothing
<1>1. TypeOK'
  BY DEF TypeOK, AttemptBudget, OwnershipIsCurrent, Enqueue, rowVars, workerVars
<1>2. AttemptBudget'
  BY DEF TypeOK, AttemptBudget, OwnershipIsCurrent, Enqueue, rowVars, workerVars
<1>3. OwnershipIsCurrent'
  BY DEF TypeOK, AttemptBudget, OwnershipIsCurrent, Enqueue, rowVars, workerVars
<1>. QED BY <1>1, <1>2, <1>3

\* Reading a claimable row changes no row.
LEMMA ClaimReadStep == ASSUME NEW w \in Workers, IInv, ClaimRead(w) PROVE IInv'
<1>. USE JobQueueAssumption, PastBelow DEF IInv, RowsTyped, WorkersTyped, Statuses, Stages, Driving, Leased, Waiting, RowsSeen, Nothing
<1>1. TypeOK'
  BY DEF TypeOK, AttemptBudget, OwnershipIsCurrent, ClaimRead, Claimable, RowSeen, rowVars
<1>2. AttemptBudget'
  BY DEF TypeOK, AttemptBudget, OwnershipIsCurrent, ClaimRead, Claimable, RowSeen, rowVars
<1>3. OwnershipIsCurrent'
  BY DEF TypeOK, AttemptBudget, OwnershipIsCurrent, ClaimRead, Claimable, RowSeen, rowVars
<1>. QED BY <1>1, <1>2, <1>3

\* A claim takes a row that is not exhausted, and its new owner is at "claimed".
LEMMA ClaimWriteStep == ASSUME NEW w \in Workers, IInv, ClaimWrite(w) PROVE IInv'
<1>1. TypeOK'
  <2>. TypeOK /\ RowsTyped /\ WorkersTyped
    BY DEF IInv, TypeOK
  <2>1. CASE ClaimHits(w)
    <3>1. held[w] \in Jobs /\ age[w] \in 0..MaxStall
      BY DEF WorkersTyped, ClaimWrite
    <3>2. Lease - age[w] \in Past..Lease
      BY <3>1, JobQueueAssumption DEF Past
    <3>3. /\ status' = [status EXCEPT ![held[w]] = "CLAIMED"]
          /\ leaseOwner' = [leaseOwner EXCEPT ![held[w]] = w]
          /\ leaseLeft' = [leaseLeft EXCEPT ![held[w]] = Lease - age[w]]
          /\ pc' = [pc EXCEPT ![w] = "claimed"] /\ age' = [age EXCEPT ![w] = 0]
          /\ seen' = [seen EXCEPT ![w] = Nothing]
          /\ UNCHANGED <<attempts, dueIn, held, crashes, resets>>
      BY <2>1 DEF ClaimWrite
    <3>4. RowsTyped'
      BY <3>2, <3>3 DEF RowsTyped, Statuses, Leased
    <3>5. WorkersTyped'
      BY <3>1, <3>3, JobQueueAssumption DEF WorkersTyped, Stages, Driving, RowsSeen, Nothing, Statuses
    <3>. QED BY <3>3, <3>4, <3>5 DEF TypeOK
  <2>2. CASE ~ClaimHits(w)
    <3>1. Release(w) /\ UNCHANGED <<rowVars, crashes, resets>>
      BY <2>2 DEF ClaimWrite
    <3>. QED BY <3>1, ReleaseTyped DEF TypeOK, RowsTyped, rowVars
  <2>. QED BY <2>1, <2>2
<1>. USE JobQueueAssumption, PastBelow DEF IInv, RowsTyped, WorkersTyped, Statuses, Stages, Driving, Leased, Waiting, RowsSeen, Nothing
<1>2. AttemptBudget'
  BY DEF TypeOK, AttemptBudget, OwnershipIsCurrent, ClaimWrite, ClaimHits, Claimable, Release, rowVars
<1>3. OwnershipIsCurrent'
  BY DEF TypeOK, AttemptBudget, OwnershipIsCurrent, ClaimWrite, ClaimHits, Claimable, Release, rowVars
<1>. QED BY <1>1, <1>2, <1>3

\* startJob moves row and worker together.
LEMMA StartStep == ASSUME NEW w \in Workers, IInv, Start(w) PROVE IInv'
<1>. USE JobQueueAssumption, PastBelow DEF IInv, RowsTyped, WorkersTyped, Statuses, Stages, Driving, Leased, Waiting, RowsSeen, Nothing
<1>1. TypeOK'
  <2>1. CASE StartHits(w)
    BY <2>1, AdvanceTyped DEF TypeOK, Start
  <2>2. CASE ~StartHits(w)
    BY <2>2, ReleaseTyped DEF TypeOK, Start, rowVars
  <2>. QED BY <2>1, <2>2
<1>2. AttemptBudget'
  BY DEF TypeOK, AttemptBudget, OwnershipIsCurrent, Start, StartHits, Owns, Advance, Release, rowVars
<1>3. OwnershipIsCurrent'
  BY DEF TypeOK, AttemptBudget, OwnershipIsCurrent, Start, StartHits, Owns, Advance, Release, rowVars
<1>. QED BY <1>1, <1>2, <1>3

\* The handler touches no row.
LEMMA HandlerReturnsStep == ASSUME NEW w \in Workers, IInv, HandlerReturns(w) PROVE IInv'
<1>. USE JobQueueAssumption, PastBelow DEF IInv, RowsTyped, WorkersTyped, Statuses, Stages, Driving, Leased, Waiting, RowsSeen, Nothing
<1>1. TypeOK'
  BY DEF TypeOK, AttemptBudget, OwnershipIsCurrent, HandlerReturns, Advance, rowVars
<1>2. AttemptBudget'
  BY DEF TypeOK, AttemptBudget, OwnershipIsCurrent, HandlerReturns, Advance, rowVars
<1>3. OwnershipIsCurrent'
  BY DEF TypeOK, AttemptBudget, OwnershipIsCurrent, HandlerReturns, Advance, rowVars
<1>. QED BY <1>1, <1>2, <1>3

\* A completed row has no owner.
LEMMA CompleteStep == ASSUME NEW w \in Workers, IInv, Complete(w) PROVE IInv'
<1>. USE JobQueueAssumption, PastBelow DEF IInv, RowsTyped, WorkersTyped, Statuses, Stages, Driving, Leased, Waiting, RowsSeen, Nothing
<1>1. TypeOK'
  <2>1. CASE CompleteHits(w)
    BY <2>1, ReleaseTyped, SettleTyped DEF TypeOK, Complete
  <2>2. CASE ~CompleteHits(w)
    BY <2>2, ReleaseTyped DEF TypeOK, Complete, rowVars
  <2>. QED BY <2>1, <2>2
<1>2. AttemptBudget'
  BY DEF TypeOK, AttemptBudget, OwnershipIsCurrent, Complete, CompleteHits, Owns, Settle, Release, rowVars
<1>3. OwnershipIsCurrent'
  BY DEF TypeOK, AttemptBudget, OwnershipIsCurrent, Complete, CompleteHits, Owns, Settle, Release, rowVars
<1>. QED BY <1>1, <1>2, <1>3

\* Nor has one whose completeJob was applied and then rejected.
LEMMA CompleteRejectsStep == ASSUME NEW w \in Workers, IInv, CompleteRejects(w) PROVE IInv'
<1>. USE JobQueueAssumption, PastBelow DEF IInv, RowsTyped, WorkersTyped, Statuses, Stages, Driving, Leased, Waiting, RowsSeen, Nothing
<1>1. TypeOK'
  BY DEF TypeOK, AttemptBudget, OwnershipIsCurrent, CompleteRejects, CompleteHits, Owns, Settle, Advance, rowVars
<1>2. AttemptBudget'
  BY DEF TypeOK, AttemptBudget, OwnershipIsCurrent, CompleteRejects, CompleteHits, Owns, Settle, Advance, rowVars
<1>3. OwnershipIsCurrent'
  BY DEF TypeOK, AttemptBudget, OwnershipIsCurrent, CompleteRejects, CompleteHits, Owns, Settle, Advance, rowVars
<1>. QED BY <1>1, <1>2, <1>3

\* The count that failJob reads is the current one.
LEMMA FailReadStep == ASSUME NEW w \in Workers, IInv, FailRead(w) PROVE IInv'
<1>. USE JobQueueAssumption, PastBelow DEF IInv, RowsTyped, WorkersTyped, Statuses, Stages, Driving, Leased, Waiting, RowsSeen, Nothing
<1>1. TypeOK'
  <2>1. RowsTyped' /\ crashes' \in 0..MaxCrashes /\ resets' \in 0..MaxResets
    BY DEF TypeOK, FailRead, rowVars
  <2>2. CASE Owns(w, "RUNNING")
    <3>1. pc' = [pc EXCEPT ![w] = "recording"] /\ pc[w] = "failing" /\ UNCHANGED <<held, age>>
      BY <2>2 DEF FailRead
    <3>2. seen' = [seen EXCEPT ![w] = RowSeen(held[w])] /\ RowSeen(held[w]) \in RowsSeen
      BY <2>2 DEF TypeOK, FailRead, RowSeen
    <3>. QED BY <2>1, <3>1, <3>2 DEF TypeOK
  <2>3. CASE ~Owns(w, "RUNNING")
    <3>1. Release(w)
      BY <2>3 DEF FailRead
    <3>. QED BY <2>1, <3>1, ReleaseTyped DEF TypeOK
  <2>. QED BY <2>2, <2>3
<1>2. AttemptBudget'
  BY DEF TypeOK, AttemptBudget, OwnershipIsCurrent, FailRead, Owns, RowSeen, Release, rowVars
<1>3. OwnershipIsCurrent'
  BY DEF TypeOK, AttemptBudget, OwnershipIsCurrent, FailRead, Owns, RowSeen, Release, rowVars
<1>. QED BY <1>1, <1>2, <1>3

\* The count that failJob writes is within the budget, or exhausts it.
LEMMA FailWriteStep == ASSUME NEW w \in Workers, IInv, FailWrite(w) PROVE IInv'
<1>. USE JobQueueAssumption, PastBelow DEF IInv, RowsTyped, WorkersTyped, Statuses, Stages, Driving, Leased, Waiting, RowsSeen, Nothing
<1>1. TypeOK'
  <2>1. WorkersTyped' /\ crashes' \in 0..MaxCrashes /\ resets' \in 0..MaxResets
    BY ReleaseTyped DEF TypeOK, FailWrite
  <2>2. CASE FailHits(w)
    <3> DEFINE n == seen[w].attempts + 1
    <3>1. held[w] \in Jobs /\ n \in 1..MaxAttempts
      BY <2>2 DEF TypeOK, AttemptBudget, OwnershipIsCurrent, FailWrite, FailHits, Owns
    <3>2. dueIn[held[w]] \in Past..BackoffCap /\ BackoffMs(n) \in Past..BackoffCap
      BY <3>1 DEF TypeOK
    <3>3. Settle(held[w], "FAILED", n, dueIn[held[w]]) \/ Settle(held[w], "RETRY_WAIT", n, BackoffMs(n))
      BY <2>2 DEF FailWrite
    <3> HIDE DEF n
    <3>4. RowsTyped'
      <4>1. n \in 0..MaxAttempts
        BY <3>1
      <4>. QED BY <3>1, <3>2, <3>3, <4>1, SettleTyped DEF TypeOK
    <3>. QED BY <2>1, <3>4 DEF TypeOK
  <2>3. CASE ~FailHits(w)
    <3>1. UNCHANGED rowVars
      BY <2>3 DEF FailWrite
    <3>. QED BY <2>1, <3>1 DEF TypeOK, rowVars
  <2>. QED BY <2>2, <2>3
<1>2. AttemptBudget'
  BY DEF TypeOK, AttemptBudget, OwnershipIsCurrent, FailWrite, FailHits, Exhausted, Owns, Settle, Release, rowVars
<1>3. OwnershipIsCurrent'
  BY DEF TypeOK, AttemptBudget, OwnershipIsCurrent, FailWrite, FailHits, Exhausted, Owns, Settle, Release, rowVars
<1>. QED BY <1>1, <1>2, <1>3

\* A crash leaves every row as it is.
LEMMA CrashStep == ASSUME NEW w \in Workers, IInv, Crash(w) PROVE IInv'
<1>. USE JobQueueAssumption, PastBelow DEF IInv, RowsTyped, WorkersTyped, Statuses, Stages, Driving, Leased, Waiting, RowsSeen, Nothing
<1>1. TypeOK'
  BY DEF TypeOK, AttemptBudget, OwnershipIsCurrent, Crash, Release, rowVars
<1>2. AttemptBudget'
  BY DEF TypeOK, AttemptBudget, OwnershipIsCurrent, Crash, Release, rowVars
<1>3. OwnershipIsCurrent'
  BY DEF TypeOK, AttemptBudget, OwnershipIsCurrent, Crash, Release, rowVars
<1>. QED BY <1>1, <1>2, <1>3

\* A dead letter that is retried has its whole budget again.
LEMMA RetryDeadLetterStep == ASSUME NEW j \in Jobs, IInv, RetryDeadLetter(j) PROVE IInv'
<1>. USE JobQueueAssumption, PastBelow DEF IInv, RowsTyped, WorkersTyped, Statuses, Stages, Driving, Leased, Waiting, RowsSeen, Nothing
<1>1. TypeOK'
  BY DEF TypeOK, AttemptBudget, OwnershipIsCurrent, RetryDeadLetter, DeadLettered, ResetAttempts, Settle, workerVars
<1>2. AttemptBudget'
  BY DEF TypeOK, AttemptBudget, OwnershipIsCurrent, RetryDeadLetter, DeadLettered, ResetAttempts, Settle, workerVars
<1>3. OwnershipIsCurrent'
  BY DEF TypeOK, AttemptBudget, OwnershipIsCurrent, RetryDeadLetter, DeadLettered, ResetAttempts, Settle, workerVars
<1>. QED BY <1>1, <1>2, <1>3

\* A cancelled dead letter keeps its count.
LEMMA CancelDeadLetterStep == ASSUME NEW j \in Jobs, IInv, CancelDeadLetter(j) PROVE IInv'
<1>. USE JobQueueAssumption, PastBelow DEF IInv, RowsTyped, WorkersTyped, Statuses, Stages, Driving, Leased, Waiting, RowsSeen, Nothing
<1>1. TypeOK'
  BY DEF TypeOK, AttemptBudget, OwnershipIsCurrent, CancelDeadLetter, DeadLettered, workerVars
<1>2. AttemptBudget'
  BY DEF TypeOK, AttemptBudget, OwnershipIsCurrent, CancelDeadLetter, DeadLettered, workerVars
<1>3. OwnershipIsCurrent'
  BY DEF TypeOK, AttemptBudget, OwnershipIsCurrent, CancelDeadLetter, DeadLettered, workerVars
<1>. QED BY <1>1, <1>2, <1>3

\* The passage of time changes neither status, owner nor count.
LEMMA TickStep == ASSUME IInv, Tick PROVE IInv'
<1>. USE JobQueueAssumption, PastBelow DEF IInv, RowsTyped, WorkersTyped, Statuses, Stages, Driving, Leased, Waiting, RowsSeen, Nothing
<1>1. TypeOK'
  BY DEF TypeOK, AttemptBudget, OwnershipIsCurrent, Tick, Past
<1>2. AttemptBudget'
  BY DEF TypeOK, AttemptBudget, OwnershipIsCurrent, Tick
<1>3. OwnershipIsCurrent'
  BY DEF TypeOK, AttemptBudget, OwnershipIsCurrent, Tick
<1>. QED BY <1>1, <1>2, <1>3

\* Every step of the queue preserves the inductive invariant.
LEMMA NextInvariant == IInv /\ [Next]_vars => IInv'
<1> SUFFICES ASSUME IInv, [Next]_vars PROVE IInv'
  OBVIOUS
<1>1. ASSUME NEW j \in Jobs, Enqueue(j) \/ RetryDeadLetter(j) \/ CancelDeadLetter(j)
      PROVE  IInv'
  BY <1>1, EnqueueStep, RetryDeadLetterStep, CancelDeadLetterStep
<1>2. ASSUME NEW w \in Workers, WorkerStep(w) \/ Crash(w) PROVE IInv'
  BY <1>2, ClaimReadStep, ClaimWriteStep, StartStep, HandlerReturnsStep, CompleteStep,
     CompleteRejectsStep, FailReadStep, FailWriteStep, CrashStep DEF WorkerStep
<1>3. CASE Tick
  BY <1>3, TickStep
<1>4. CASE UNCHANGED vars
  BY <1>4 DEF vars, rowVars, workerVars, IInv, TypeOK, RowsTyped, WorkersTyped,
              AttemptBudget, OwnershipIsCurrent
<1>. QED BY <1>1, <1>2, <1>3, <1>4 DEF Next

-------------------------------------------------------------------------------
\* The queue never leaves the inductive invariant.
THEOREM Invariant == Spec => []IInv
  BY InitInvariant, NextInvariant, PTL DEF Spec

\* Type correctness: above all, no count ever written exceeds maxAttempts.
THEOREM TypeCorrect == Spec => []TypeOK
<1>1. IInv => TypeOK
  BY DEF IInv
<1>. QED BY <1>1, Invariant, PTL

\* The lifecycle and the failure count agree (failJob, retryDeadLetterJob).
THEOREM BudgetKept == Spec => []AttemptBudget
<1>1. IInv => AttemptBudget
  BY DEF IInv
<1>. QED BY <1>1, Invariant, PTL

\* leaseOwner = workerId fences as well as a token per claim would.
THEOREM OwnershipFences == Spec => []OwnershipIsCurrent
<1>1. IInv => OwnershipIsCurrent
  BY DEF IInv
<1>. QED BY <1>1, Invariant, PTL

\* A claim never displaces a worker whose lease is still valid (claimJob).
THEOREM LeaseIsRespected == Spec => LeaseRespected
<1> DEFINE Respected == \A j \in Jobs :
      (status[j] \in Leased /\ leaseOwner'[j] \in Workers \ {leaseOwner[j]})
        => leaseLeft[j] < 0
<1>1. IInv /\ [Next]_vars => [Respected]_vars
  <2> SUFFICES ASSUME IInv, Next, NEW j \in Jobs, status[j] \in Leased,
                      leaseOwner'[j] \in Workers \ {leaseOwner[j]}
               PROVE  leaseLeft[j] < 0
    OBVIOUS
  <2>1. PICK w \in Workers : ClaimWrite(w) /\ held[w] = j
    <3> USE JobQueueAssumption DEF IInv, TypeOK, RowsTyped, WorkersTyped, rowVars
    <3>1. ASSUME NEW k \in Jobs PROVE ~Enqueue(k) /\ ~RetryDeadLetter(k) /\ ~CancelDeadLetter(k)
      BY <3>1 DEF Enqueue, RetryDeadLetter, CancelDeadLetter, Settle
    <3>2. ASSUME NEW w \in Workers, WorkerStep(w) \/ Crash(w)
          PROVE  ClaimWrite(w) /\ held[w] = j
      <4>1. ~ClaimRead(w) /\ ~HandlerReturns(w) /\ ~FailRead(w) /\ ~Crash(w)
        BY DEF ClaimRead, HandlerReturns, FailRead, Crash
      <4>2. ~Start(w)
        BY DEF Start
      <4>3. ~Complete(w) /\ ~CompleteRejects(w)
        BY DEF Complete, CompleteRejects, Settle
      <4>4. ~FailWrite(w)
        BY DEF FailWrite, Settle
      <4>5. ClaimWrite(w) => held[w] = j
        BY DEF ClaimWrite
      <4>. QED BY <3>2, <4>1, <4>2, <4>3, <4>4, <4>5 DEF WorkerStep
    <3>3. ~Tick
      BY DEF Tick
    <3>. QED BY <3>1, <3>2, <3>3 DEF Next
  <2>2. Claimable(j, age[w])
    BY <2>1 DEF ClaimWrite, ClaimHits, rowVars
  <2>. QED BY <2>1, <2>2, JobQueueAssumption
           DEF Claimable, Waiting, Leased, IInv, TypeOK, RowsTyped, WorkersTyped, Past
<1>. QED BY <1>1, Invariant, PTL DEF Spec, LeaseRespected

-------------------------------------------------------------------------------
\* The ways a step may change the status or the failure count of job j.
Put(j, s, n) ==
  /\ status' = [status EXCEPT ![j] = s]
  /\ attempts' = [attempts EXCEPT ![j] = n]

Taken(j) ==
  \/ status[j] = "ABSENT" /\ Put(j, "PENDING", attempts[j])
  \/ status[j] \in Waiting \cup Leased /\ Put(j, "CLAIMED", attempts[j])
  \/ status[j] = "CLAIMED" /\ Put(j, "RUNNING", attempts[j])

Settled(j) == \E w \in Workers :
  /\ status[j] = "RUNNING" /\ leaseOwner[j] = w /\ held[w] = j
  /\ \/ pc[w] = "completing" /\ Put(j, "SUCCEEDED", attempts[j])
     \/ /\ pc[w] = "recording" /\ attempts[j] + 1 < MaxAttempts
        /\ Put(j, "RETRY_WAIT", attempts[j] + 1)
     \/ /\ pc[w] = "recording" /\ attempts[j] + 1 = MaxAttempts
        /\ Put(j, "FAILED", attempts[j] + 1)

Reopened(j) == status[j] = "FAILED" /\ (Put(j, "PENDING", 0) \/ Put(j, "CANCELLED", attempts[j]))

RowStep(j) == Taken(j) \/ Settled(j) \/ Reopened(j)

\* Every step leaves all rows alone or changes exactly one of them in one of
\* those ways: what the queue does, seen from the Job table.
LEMMA OneRowSteps ==
  ASSUME IInv, [Next]_vars
  PROVE  UNCHANGED <<status, attempts>> \/ \E j \in Jobs : RowStep(j)
<1> USE JobQueueAssumption DEF IInv, TypeOK, RowsTyped, WorkersTyped, rowVars, RowStep, Put
<1>1. ASSUME NEW j \in Jobs, Enqueue(j) PROVE Taken(j)
  BY <1>1 DEF Enqueue, Taken
<1>2. ASSUME NEW j \in Jobs, RetryDeadLetter(j) \/ CancelDeadLetter(j) PROVE Reopened(j)
  BY <1>2 DEF RetryDeadLetter, CancelDeadLetter, DeadLettered, ResetAttempts, Settle, Reopened
<1>3. ASSUME NEW w \in Workers,
             ClaimRead(w) \/ HandlerReturns(w) \/ FailRead(w) \/ Crash(w)
      PROVE  UNCHANGED <<status, attempts>>
  BY <1>3 DEF ClaimRead, HandlerReturns, FailRead, Crash
<1>4. ASSUME NEW w \in Workers, pc[w] # "idle" PROVE held[w] \in Jobs
  BY <1>4
<1>5. ASSUME NEW w \in Workers, ClaimWrite(w) \/ Start(w)
      PROVE  UNCHANGED <<status, attempts>> \/ Taken(held[w])
  BY <1>5, <1>4 DEF ClaimWrite, ClaimHits, Claimable, Start, StartHits, Owns, Taken
<1>6. ASSUME NEW w \in Workers, Complete(w) \/ CompleteRejects(w)
      PROVE  UNCHANGED <<status, attempts>> \/ Settled(held[w])
  BY <1>6, <1>4 DEF Complete, CompleteRejects, CompleteHits, Owns, Settle, Settled
<1>7. ASSUME NEW w \in Workers, FailWrite(w)
      PROVE  UNCHANGED <<status, attempts>> \/ Settled(held[w])
  <2>1. CASE ~FailHits(w)
    BY <1>7, <2>1 DEF FailWrite
  <2>2. CASE FailHits(w)
    <3>1. pc[w] = "recording" /\ Owns(w, "RUNNING") /\ held[w] \in Jobs
      BY <1>7, <2>2, <1>4 DEF FailWrite, FailHits
    <3>2. seen[w].attempts = attempts[held[w]] /\ attempts[held[w]] + 1 \in 1..MaxAttempts
      BY <3>1 DEF OwnershipIsCurrent, AttemptBudget, Owns, Driving, Leased
    <3>. QED BY <1>7, <2>2, <3>1, <3>2 DEF FailWrite, Exhausted, Settle, Owns, Settled
  <2>. QED BY <2>1, <2>2
<1>8. Tick => UNCHANGED <<status, attempts>>
  BY DEF Tick
<1>9. CASE UNCHANGED vars
  BY <1>9 DEF vars
<1>. QED BY <1>1, <1>2, <1>3, <1>4, <1>5, <1>6, <1>7, <1>8, <1>9
         DEF Next, WorkerStep, ClaimWrite, Start, Complete, CompleteRejects, FailWrite

\* Success and cancellation are final; a dead letter waits for the admin.
THEOREM FinalStaysFinal == Spec => FinalIsFinal
<1>1. IInv /\ [Next]_vars => [\A j \in Jobs :
        /\ status[j] \in {"SUCCEEDED", "CANCELLED"} => status'[j] = status[j]
        /\ status[j] = "FAILED" => status'[j] \in {"FAILED", "PENDING", "CANCELLED"}]_vars
  BY OneRowSteps DEF RowStep, Taken, Settled, Reopened, Put, Waiting, Leased, IInv, TypeOK, RowsTyped
<1>. QED BY <1>1, Invariant, PTL DEF Spec, FinalIsFinal

\* A job leaves the leased states only by the hand of its holder, once its
\* handler has ended.
THEOREM OnlyTheHolderSettles == Spec => SettledByHolder
<1>1. IInv /\ [Next]_vars => [\A j \in Jobs :
        (status[j] \in Leased /\ status'[j] \notin Leased) =>
          \E w \in Workers : /\ leaseOwner[j] = w /\ held[w] = j /\ status[j] = "RUNNING"
                             /\ pc[w] \in {"completing", "recording"}]_vars
  BY OneRowSteps DEF RowStep, Taken, Settled, Reopened, Put, Waiting, Leased, IInv, TypeOK, RowsTyped
<1>. QED BY <1>1, Invariant, PTL DEF Spec, SettledByHolder

\* failJob's read and write count every recorded failure exactly once.
THEOREM FailuresAreCountedOnce == Spec => FailuresCountOnce
<1>1. IInv /\ [Next]_vars => [\A j \in Jobs :
        status'[j] \in {"RETRY_WAIT", "FAILED"} /\ status[j] \in Leased
          => attempts'[j] = attempts[j] + 1]_vars
  BY OneRowSteps DEF RowStep, Taken, Settled, Reopened, Put, Waiting, Leased, IInv, TypeOK, RowsTyped
<1>. QED BY <1>1, Invariant, PTL DEF Spec, FailuresCountOnce

\* The lease fences: rows and holders agree, and no valid lease is taken over.
THEOREM LeasesAreFenced == Spec => LeasesFence
  BY OwnershipFences, LeaseIsRespected DEF LeasesFence

\* A job is settled once per budget, by its holder, and stays settled.
THEOREM JobsSettleOnce == Spec => SettledOnce
  BY BudgetKept, OnlyTheHolderSettles, FinalStaysFinal, FailuresAreCountedOnce
  DEF SettledOnce

-------------------------------------------------------------------------------
\* With timely handlers a driving worker holds a lease that has not run out, unless its
\* completeJob was applied and then rejected; and it is the only one.
LeaseLasts(w) == pc[w] \in Driving =>
  \/ status[held[w]] \in Leased /\ leaseOwner[held[w]] = w /\ leaseLeft[held[w]] >= 0
  \/ status[held[w]] = "SUCCEEDED" /\ pc[w] = "failing"
LockInv == SoleExecutor /\ \A w \in Workers : LeaseLasts(w)

\* A worker's step on a job that it drives leaves the jobs of all others alone.
LEMMA DriverSteps ==
  ASSUME IInv, LockInv, NEW w \in Workers, pc[w] \in Driving, WorkerStep(w)
  PROVE  LockInv'
<1>. USE JobQueueAssumption DEF IInv, TypeOK, RowsTyped, WorkersTyped, rowVars, Driving, Leased, Stages
<1>1. held[w] \in Jobs /\ \A v \in Workers : v # w /\ pc[v] \in Driving => held[v] \in Jobs /\ held[v] # held[w]
  BY DEF LockInv, SoleExecutor
<1>2. \A j \in Jobs : j # held[w] => /\ status'[j] = status[j] /\ leaseOwner'[j] = leaseOwner[j]
                                     /\ leaseLeft'[j] = leaseLeft[j]
  <2>1. CASE UNCHANGED rowVars
    BY <2>1
  <2>2. CASE Start(w) /\ StartHits(w)
    BY <1>1, <2>2 DEF Start
  <2>3. CASE \E s, n, due : Settle(held[w], s, n, due)
    BY <1>1, <2>3 DEF Settle
  <2>. QED BY <2>1, <2>2, <2>3 DEF WorkerStep, ClaimRead, ClaimWrite, Start, HandlerReturns, Complete,
                                    CompleteRejects, FailRead, FailWrite
<1>3. /\ \A v \in Workers : v # w => pc'[v] = pc[v] /\ held'[v] = held[v]
      /\ pc'[w] = "idle" \/ (pc'[w] \in Driving /\ held'[w] = held[w])
  <2>1. CASE Release(w)
    BY <2>1 DEF Release
  <2>2. CASE \E stage \in Driving : Advance(w, stage)
    BY <2>2 DEF Advance
  <2>3. CASE pc' = [pc EXCEPT ![w] = "recording"] /\ held' = held
    BY <2>3
  <2>. QED BY <2>1, <2>2, <2>3 DEF WorkerStep, ClaimRead, ClaimWrite, Start, HandlerReturns, Complete,
                                    CompleteRejects, FailRead, FailWrite
<1>4. LeaseLasts(w)'
  <2>1. CASE Start(w) \/ HandlerReturns(w) \/ FailRead(w)
    BY <1>1, <2>1 DEF LockInv, LeaseLasts, Start, StartHits, Owns, HandlerReturns, FailRead, Release, Advance
  <2>2. CASE CompleteRejects(w)
    BY <1>1, <2>2 DEF LockInv, LeaseLasts, CompleteRejects, Settle, Advance
  <2>3. CASE Complete(w) \/ FailWrite(w)
    BY <2>3 DEF LeaseLasts, Complete, FailWrite, Release
  <2>. QED BY <2>1, <2>2, <2>3 DEF WorkerStep, ClaimRead, ClaimWrite
<1>5. \A v \in Workers : v # w => LeaseLasts(v)'
  BY <1>1, <1>2, <1>3 DEF LockInv, LeaseLasts
<1>6. SoleExecutor'
  BY <1>1, <1>2, <1>3 DEF LockInv, SoleExecutor
<1>. QED BY <1>4, <1>5, <1>6 DEF LockInv

\* A claim takes a job that nobody drives, and its lease has not run out yet.
LEMMA ClaimSteps ==
  ASSUME MaxStall <= Lease, IInv, LockInv, NEW w \in Workers, ClaimRead(w) \/ ClaimWrite(w)
  PROVE  LockInv'
<1>. USE JobQueueAssumption DEF IInv, TypeOK, RowsTyped, WorkersTyped, rowVars, Driving, Leased, Stages
<1>1. CASE UNCHANGED rowVars /\ pc'[w] \notin Driving /\ \A v \in Workers : v # w => pc'[v] = pc[v] /\ held'[v] = held[v]
  BY <1>1 DEF LockInv, SoleExecutor, LeaseLasts
<1>2. CASE /\ pc[w] = "claiming" /\ ClaimHits(w) /\ held' = held
           /\ status' = [status EXCEPT ![held[w]] = "CLAIMED"]
           /\ leaseOwner' = [leaseOwner EXCEPT ![held[w]] = w]
           /\ leaseLeft' = [leaseLeft EXCEPT ![held[w]] = Lease - age[w]]
           /\ pc' = [pc EXCEPT ![w] = "claimed"]
  <2>1. held[w] \in Jobs /\ age[w] \in 0..MaxStall
    BY <1>2
  <2>2. \A v \in Workers : pc[v] \in Driving => held[v] \in Jobs /\ held[v] # held[w]
    BY <1>2, <2>1 DEF LockInv, LeaseLasts, ClaimHits, Claimable, Waiting
  <2>3. LeaseLasts(w)'
    BY <1>2, <2>1 DEF LeaseLasts
  <2>4. \A v \in Workers : v # w => LeaseLasts(v)'
    BY <1>2, <2>1, <2>2 DEF LockInv, LeaseLasts
  <2>5. SoleExecutor'
    BY <1>2, <2>2 DEF LockInv, SoleExecutor
  <2>. QED BY <2>3, <2>4, <2>5 DEF LockInv
<1>. QED BY <1>1, <1>2 DEF ClaimRead, ClaimWrite, Release

\* Nobody else interferes, and the clock waits for workers whose lease is about to end.
LEMMA OtherSteps ==
  ASSUME Timely, IInv, LockInv,
         \/ \E j \in Jobs : Enqueue(j) \/ RetryDeadLetter(j) \/ CancelDeadLetter(j)
         \/ \E w \in Workers : Crash(w)
         \/ Tick
         \/ UNCHANGED vars
  PROVE  LockInv'
<1>. USE JobQueueAssumption DEF IInv, TypeOK, RowsTyped, WorkersTyped, rowVars, Driving, Leased, Stages
<1>1. ASSUME NEW j \in Jobs, Enqueue(j) \/ RetryDeadLetter(j) \/ CancelDeadLetter(j) PROVE LockInv'
  BY <1>1 DEF Enqueue, RetryDeadLetter, CancelDeadLetter, DeadLettered, Settle, workerVars, LockInv,
              SoleExecutor, LeaseLasts
<1>2. ASSUME NEW w \in Workers, Crash(w) PROVE LockInv'
  BY <1>2 DEF Crash, Release, LockInv, SoleExecutor, LeaseLasts
<1>3. CASE Tick
  <2>1. UNCHANGED <<status, leaseOwner, pc, held>>
    BY <1>3 DEF Tick
  <2>2. ASSUME NEW w \in Workers, pc[w] \in Driving, leaseOwner[held[w]] = w, status[held[w]] \in Leased
        PROVE  leaseLeft'[held[w]] >= 0
    <3>1. held[w] \in Jobs /\ leaseLeft[held[w]] > 0 /\ leaseLeft[held[w]] \in Int
      BY <1>3, <2>2 DEF Tick, Past
    <3>. QED BY <1>3, <2>2, <3>1 DEF Tick
  <2>. QED BY <2>1, <2>2 DEF LockInv, SoleExecutor, LeaseLasts
<1>4. CASE UNCHANGED vars
  BY <1>4 DEF vars, workerVars, LockInv, SoleExecutor, LeaseLasts
<1>. QED BY <1>1, <1>2, <1>3, <1>4

LEMMA LockStep ==
  ASSUME Timely, MaxStall <= Lease
  PROVE  IInv /\ LockInv /\ [Next]_vars => LockInv'
<1>. SUFFICES ASSUME IInv, LockInv, [Next]_vars PROVE LockInv'
  OBVIOUS
<1>1. ASSUME NEW w \in Workers, WorkerStep(w) PROVE LockInv'
  <2>1. CASE pc[w] \in Driving
    BY <1>1, <2>1, DriverSteps
  <2>2. CASE pc[w] \notin Driving
    <3>1. ClaimRead(w) \/ ClaimWrite(w)
      BY <1>1, <2>2 DEF WorkerStep, Start, HandlerReturns, Complete, CompleteRejects, FailRead, FailWrite, Driving
    <3>. QED BY <3>1, ClaimSteps
  <2>. QED BY <2>1, <2>2
<1>. QED BY <1>1, OtherSteps DEF Next

LEMMA LockStarts == Init => LockInv
  BY DEF Init, LockInv, SoleExecutor, LeaseLasts, Driving

\* If handlers return within their lease, and a claim's write within a lease of its read, the
\* lease is a lock, for any number of workers, crashes and resets (claimJob, runWorkerTick).
THEOREM LeaseIsALock ==
  ASSUME Timely, MaxStall <= Lease
  PROVE  Spec => []SoleExecutor
<1>1. LockInv => SoleExecutor
  BY DEF LockInv
<1>. QED BY <1>1, LockStarts, LockStep, Invariant, PTL DEF Spec

-------------------------------------------------------------------------------
\* The lease-based queue implements the lifecycle promised to producers: each
\* step of a worker, of the clock or of a crash is one of its steps or none.
THEOREM Refinement == Spec => ImplementsLifecycle
<1>1. Init => Lifecycle!Init
  <2>1. PhaseOf("ABSENT") = "absent"
    BY DEF PhaseOf, Waiting, Leased
  <2>. QED BY <2>1 DEF Init, Lifecycle!Init
<1>2. IInv /\ [Next]_vars => [Lifecycle!Next]_Lifecycle!jobVars
  <2> SUFFICES ASSUME IInv, [Next]_vars PROVE [Lifecycle!Next]_Lifecycle!jobVars
    OBVIOUS
  <2> DEFINE phase == [j \in Jobs |-> PhaseOf(status[j])]
  <2>1. CASE UNCHANGED <<status, attempts>>
    BY <2>1 DEF Lifecycle!jobVars
  <2>2. ASSUME NEW j \in Jobs, RowStep(j) PROVE [Lifecycle!Next]_Lifecycle!jobVars
    <3>1. ASSUME NEW s \in Statuses, NEW n, Put(j, s, n)
          PROVE  phase' = [phase EXCEPT ![j] = PhaseOf(s)]
      BY <3>1 DEF Put, IInv, TypeOK, RowsTyped
    <3>2. CASE Taken(j)
      <4>1. attempts' = attempts
        BY <3>2 DEF Taken, Put, IInv, TypeOK, RowsTyped
      <4>2. \/ phase[j] = "absent" /\ phase' = [phase EXCEPT ![j] = "ready"]
            \/ phase[j] = "ready" /\ phase' = [phase EXCEPT ![j] = "inflight"]
            \/ phase[j] = "inflight" /\ phase' = [phase EXCEPT ![j] = "inflight"]
        BY <3>2, <3>1 DEF Taken, PhaseOf, Waiting, Leased, Statuses
      <4>. QED BY <4>1, <4>2 DEF Lifecycle!jobVars, Lifecycle!Next, Lifecycle!Submit,
                                 Lifecycle!Begin, Lifecycle!Move
    <3>3. CASE Settled(j)
      <4>1. phase[j] = "inflight"
        BY <3>3 DEF Settled, PhaseOf, Leased, Waiting
      <4>3. PhaseOf("SUCCEEDED") = "done" /\ PhaseOf("RETRY_WAIT") = "ready" /\ PhaseOf("FAILED") = "dead"
        BY DEF PhaseOf, Waiting, Leased
      <4>2. \/ phase' = [phase EXCEPT ![j] = "done"] /\ attempts' = attempts
            \/ /\ phase' = [phase EXCEPT ![j] = "ready"]
               /\ attempts[j] + 1 < MaxAttempts
               /\ attempts' = [attempts EXCEPT ![j] = @ + 1]
            \/ /\ phase' = [phase EXCEPT ![j] = "dead"]
               /\ attempts[j] + 1 = MaxAttempts
               /\ attempts' = [attempts EXCEPT ![j] = @ + 1]
        <5>. HIDE DEF phase
        <5>1. {"SUCCEEDED", "RETRY_WAIT", "FAILED"} \subseteq Statuses
          BY DEF Statuses, Waiting, Leased
        <5>2. attempts \in [Jobs -> 0..MaxAttempts]
          <6>1. RowsTyped
            BY DEF IInv, TypeOK
          <6>. QED BY <6>1 DEF RowsTyped
        <5>3. ASSUME Put(j, "SUCCEEDED", attempts[j]) PROVE phase' = [phase EXCEPT ![j] = "done"] /\ attempts' = attempts
          BY <3>1, <4>3, <5>1, <5>2, <5>3 DEF Put
        <5>4. ASSUME Put(j, "RETRY_WAIT", attempts[j] + 1) PROVE phase' = [phase EXCEPT ![j] = "ready"] /\ attempts' = [attempts EXCEPT ![j] = @ + 1]
          BY <3>1, <4>3, <5>1, <5>2, <5>4 DEF Put
        <5>5. ASSUME Put(j, "FAILED", attempts[j] + 1) PROVE phase' = [phase EXCEPT ![j] = "dead"] /\ attempts' = [attempts EXCEPT ![j] = @ + 1]
          BY <3>1, <4>3, <5>1, <5>2, <5>5 DEF Put
        <5>. QED BY <3>3, <5>3, <5>4, <5>5 DEF Settled
      <4>. QED BY <4>1, <4>2 DEF Lifecycle!Next, Lifecycle!Succeed, Lifecycle!Fail, Lifecycle!Move
    <3>4. CASE Reopened(j)
      <4>1. phase[j] = "dead"
        BY <3>4 DEF Reopened, PhaseOf, Leased, Waiting
      <4>2. \/ phase' = [phase EXCEPT ![j] = "ready"] /\ attempts' = [attempts EXCEPT ![j] = 0]
            \/ phase' = [phase EXCEPT ![j] = "cancelled"] /\ attempts' = attempts
        BY <3>4, <3>1 DEF Reopened, Put, PhaseOf, Leased, Waiting, Statuses, IInv, TypeOK, RowsTyped
      <4>. QED BY <4>1, <4>2 DEF Lifecycle!Next, Lifecycle!Revive, Lifecycle!GiveUp, Lifecycle!Move
    <3>. QED BY <2>2, <3>2, <3>3, <3>4 DEF RowStep
  <2>. QED BY <2>1, <2>2, OneRowSteps
<1>. QED BY <1>1, <1>2, Invariant, PTL DEF Spec, ImplementsLifecycle, Lifecycle!Spec

(***************************************************************************)
(* The maintenance schedule and the processes that keep it.                *)
(***************************************************************************)
MachineStates == [do : {"down", "create", "tick", "claim", "enqueue", "drain", "run"},
                  occ : Slots, at : 0..MaxInstant, drained : 0..MaxDrain]
Firings == [occ : Slots, at : 0..MaxInstant]

\* The rows and the processes.
MaintenanceTypes ==
  /\ clock \in 0..MaxInstant
  /\ nextDue \in Slots \cup {NoRow}
  /\ job \in [Dates -> {"none", "queued", "held", "done"}]
  /\ machine \in [Machines -> MachineStates]
  /\ deaths \in 0..MaxDeaths /\ fired \subseteq Firings

\* A process that runs a job holds it, and it alone.
JobsAreHeld ==
  /\ \A p \in Machines : At(p, "run") =>
       machine[p].occ \in Dates /\ job[machine[p].occ] = "held" /\ machine[p].drained < MaxDrain
  /\ \A p, q \in Machines : At(p, "run") /\ At(q, "run") /\ machine[p].occ = machine[q].occ => p = q
  /\ \A d \in Dates : job[d] = "held" => \E p \in Machines : At(p, "run") /\ machine[p].occ = d

\* Nothing happens before there is a schedule, and what a process claims was due.
ClaimsAreDue ==
  /\ \A p \in Machines : ~At(p, "down") /\ ~At(p, "create") => nextDue # NoRow
  /\ \A p \in Machines : At(p, "claim") => machine[p].occ <= machine[p].at
  /\ \A p \in Machines : At(p, "enqueue") => \E f \in fired : f.occ = machine[p].occ

\* A claim moves nextRunAt past all that was due, so that no occurrence fires twice.
FiringsArePast == \A f \in fired : f.occ <= f.at /\ f.at < nextDue
FiringsDiffer == \A f, g \in fired : f.occ = g.occ => f = g
FiringsInOrder == \A f, g \in fired : f.occ < g.occ => g.occ > f.at
JobsWereFired == \A d \in Dates : job[d] # "none" => \E f \in fired : DateOf(f.occ) = d

\* Occurrences that fired and were never enqueued.
LostDays == {f \in fired : /\ job[DateOf(f.occ)] = "none"
                           /\ \A p \in Machines : At(p, "enqueue") => machine[p].occ # f.occ}
DaysLostToDeaths == Cardinality(LostDays) <= deaths

\* The inductive invariant.
MaintenanceInv ==
  /\ MaintenanceTypes /\ JobsAreHeld /\ ClaimsAreDue
  /\ FiringsArePast /\ FiringsDiffer /\ FiringsInOrder /\ JobsWereFired
  /\ IsFiniteSet(fired) /\ DaysLostToDeaths

-------------------------------------------------------------------------------
LEMMA MaintenanceBounds ==
  /\ DayLength \in Nat \ {0} /\ HourOfDay \in Nat /\ HourOfDay < DayLength /\ Interval \in Nat \ {0}
  /\ Interval * DayLength \in Nat \ {0} /\ LastSlot \in Nat
  /\ MaxDrain \in Nat \ {0} /\ MaxInstant \in Nat /\ MaxDeaths \in Nat
<1>1. /\ DayLength \in Nat \ {0} /\ HourOfDay \in Nat /\ HourOfDay < DayLength /\ Interval \in Nat \ {0}
      /\ MaxDrain \in Nat \ {0} /\ MaxInstant \in Nat /\ MaxDeaths \in Nat
  BY MaintenanceAssumption
<1>2. Interval * DayLength \in Nat \ {0}
  BY <1>1
<1>. QED BY <1>1, <1>2 DEF LastSlot

\* Division rounds down.
LEMMA RoundedDown ==
  ASSUME NEW x \in Nat, NEW n \in Nat \ {0}
  PROVE  x \div n \in Nat /\ n * (x \div n) <= x /\ x < n * (x \div n) + n
  OBVIOUS

LEMMA FirstDueIs ==
  ASSUME NEW t \in 0..MaxInstant
  PROVE  FirstDue(t) \in Slots
<1>1. t \in Nat /\ t <= MaxInstant
  BY MaintenanceBounds
<1>2. PICK m \in Nat : m = DayLength * (t \div DayLength) /\ m <= t
  BY <1>1, MaintenanceBounds, RoundedDown
<1>3. DateOf(t) * DayLength = m
  BY <1>1, <1>2, MaintenanceBounds, RoundedDown DEF DateOf
<1>4. FirstDue(t) = IF m + HourOfDay <= t THEN m + HourOfDay + DayLength ELSE m + HourOfDay
  BY <1>3 DEF FirstDue
<1>5. PICK n \in Nat : n = Interval * DayLength /\ LastSlot = MaxInstant + n + DayLength
  BY MaintenanceBounds DEF LastSlot
<1>. QED BY <1>1, <1>2, <1>4, <1>5, MaintenanceBounds DEF Slots

LEMMA NextDueIs ==
  ASSUME NEW o \in Nat, NEW t \in 0..MaxInstant, o <= t
  PROVE  NextDue(o, t) \in Slots /\ NextDue(o, t) > t
<1>1. PICK n \in Nat \ {0} : n = Interval * DayLength
  BY MaintenanceBounds
<1>2. PICK x \in Nat : x = t - o /\ t \in Nat /\ t <= MaxInstant
  BY MaintenanceBounds
<1>3. x \div n \in Nat /\ n * (x \div n) <= x /\ x < n * (x \div n) + n
  BY RoundedDown
<1>4. PICK y \in Nat : y = n * (x \div n) /\ y <= x /\ x < y + n
  BY <1>3
<1>5. NextDue(o, t) = o + (y + n)
  <2>1. n * ((x \div n) + 1) = y + n
    BY <1>3, <1>4
  <2>. QED BY <1>1, <1>2, <2>1 DEF NextDue
<1>6. LastSlot = MaxInstant + n + DayLength
  BY <1>1 DEF LastSlot
<1>. QED BY <1>2, <1>4, <1>5, <1>6, MaintenanceBounds DEF Slots

LEMMA DateIs ==
  ASSUME NEW s \in Slots
  PROVE  DateOf(s) \in Dates
<1>1. PICK n \in Nat \ {0} : n = DayLength
  BY MaintenanceBounds
<1>2. s \in Nat /\ s <= LastSlot /\ LastSlot \in Nat
  BY MaintenanceBounds DEF Slots
<1>3. PICK x \in Nat, y \in Nat : x = s \div n /\ y = LastSlot \div n
  BY <1>2, RoundedDown
<1>4. n * x <= s /\ LastSlot < n * y + n
  BY <1>2, <1>3, RoundedDown
<1>5. n * x < n * (y + 1)
  BY <1>2, <1>4
<1>6. x < y + 1
  BY <1>5
<1>. QED BY <1>1, <1>3, <1>6 DEF DateOf, Dates

LEMMA FewerLost ==
  ASSUME MaintenanceInv, LostDays' \subseteq LostDays, deaths' = deaths
  PROVE  DaysLostToDeaths'
<1>1. IsFiniteSet(LostDays)
  BY FS_Subset DEF MaintenanceInv, LostDays
<1>2. Cardinality(LostDays') <= Cardinality(LostDays) /\ Cardinality(LostDays) \in Nat
      /\ Cardinality(LostDays') \in Nat
  BY <1>1, FS_Subset, FS_CardinalityType
<1>. QED BY <1>2 DEF MaintenanceInv, DaysLostToDeaths, MaintenanceTypes

LEMMA FiringIs ==
  ASSUME MaintenanceInv, NEW f \in fired
  PROVE  f.occ \in Nat /\ f.at \in Nat /\ f.occ \in Slots /\ DateOf(f.occ) \in Dates /\ nextDue # NoRow
<1>1. f \in Firings /\ f.occ \in Slots /\ f.at \in 0..MaxInstant
  BY DEF MaintenanceInv, MaintenanceTypes, Firings
<1>2. f.occ \in Nat /\ f.at \in Nat
  BY <1>1, MaintenanceBounds DEF Slots
<1>. QED BY <1>1, <1>2, DateIs DEF MaintenanceInv, FiringsArePast, NoRow

\* A process goes on to something else, with nothing fired, enqueued or run.
LEMMA MachineKeeps ==
  ASSUME MaintenanceInv, NEW p \in Machines, NEW d \in MachineStates,
         machine' = [machine EXCEPT ![p] = d], UNCHANGED <<clock, job, deaths, fired>>,
         ~At(p, "run"), ~At(p, "enqueue"), d.do \notin {"run", "enqueue"},
         d.do \in {"tick", "claim", "drain"} => nextDue' # NoRow,
         d.do = "claim" => d.occ <= d.at,
         nextDue' = nextDue \/ (nextDue = NoRow /\ nextDue' \in Slots)
  PROVE  MaintenanceInv'
<1>1. /\ machine' \in [Machines -> MachineStates] /\ machine'[p] = d
      /\ \A q \in Machines \ {p} : machine'[q] = machine[q]
  BY DEF MaintenanceInv, MaintenanceTypes
<1>2. /\ \A q \in Machines : At(q, "run")' <=> At(q, "run")
      /\ \A q \in Machines : At(q, "enqueue")' <=> At(q, "enqueue")
      /\ \A q \in Machines : At(q, "run") \/ At(q, "enqueue") => machine'[q] = machine[q]
  BY <1>1 DEF At
<1>3. MaintenanceTypes'
  BY <1>1 DEF MaintenanceInv, MaintenanceTypes
<1>4. JobsAreHeld'
  BY <1>2 DEF MaintenanceInv, JobsAreHeld
<1>5. ClaimsAreDue'
  <2>1. \A q \in Machines : ~At(q, "down")' /\ ~At(q, "create")' => nextDue' # NoRow
    BY <1>1 DEF At, MaintenanceInv, ClaimsAreDue, NoRow, Slots, MachineStates
  <2>2. \A q \in Machines : At(q, "claim")' => machine'[q].occ <= machine'[q].at
    BY <1>1 DEF At, MaintenanceInv, ClaimsAreDue
  <2>3. \A q \in Machines : At(q, "enqueue")' => \E f \in fired' : f.occ = machine'[q].occ
    BY <1>2 DEF MaintenanceInv, ClaimsAreDue
  <2>. QED BY <2>1, <2>2, <2>3 DEF ClaimsAreDue
<1>6. FiringsArePast'
  <2>1. nextDue = NoRow => fired = {}
    BY FiringIs
  <2>. QED BY <2>1 DEF MaintenanceInv, FiringsArePast
<1>7. DaysLostToDeaths'
  <2>1. LostDays' = LostDays
    BY <1>2 DEF LostDays
  <2>. QED BY <2>1, FewerLost
<1>. QED BY <1>3, <1>4, <1>5, <1>6, <1>7 DEF MaintenanceInv, FiringsDiffer, FiringsInOrder, JobsWereFired

LEMMA DownIs == Down \in MachineStates /\ Down.do = "down"
  BY MaintenanceBounds DEF Down, MachineStates, Slots

LEMMA BootKeeps == ASSUME MaintenanceInv, NEW p \in Machines, Boot(p) PROVE MaintenanceInv'
<1>1. PICK o \in {"create", "tick"} : o = IF nextDue = NoRow THEN "create" ELSE "tick"
  OBVIOUS
<1>2. PICK t \in 0..MaxInstant : t = clock
  BY DEF MaintenanceInv, MaintenanceTypes
<1>3. PICK d : d = [Down EXCEPT !.do = o, !.at = t]
  OBVIOUS
<1>4. d \in MachineStates /\ d.do = o
  <2>1. \A x \in MachineStates : LET y == [x EXCEPT !.do = o, !.at = t] IN y \in MachineStates /\ y.do = o
    BY DEF MachineStates
  <2>. QED BY <1>3, <2>1, DownIs
<1>5. /\ machine' = [machine EXCEPT ![p] = d] /\ UNCHANGED <<clock, nextDue, job, deaths, fired>>
      /\ ~At(p, "run") /\ ~At(p, "enqueue")
  BY <1>1, <1>2, <1>3 DEF Boot, At
<1>. QED BY <1>1, <1>4, <1>5, MachineKeeps

\* A process that only turns to something else.
LEMMA MovedMachine ==
  ASSUME MaintenanceInv, NEW p \in Machines,
         NEW o \in {"down", "create", "tick", "claim", "enqueue", "drain", "run"}, Moves(p, o)
  PROVE  \E d \in MachineStates : /\ machine' = [machine EXCEPT ![p] = d]
                                  /\ d.do = o /\ d.occ = machine[p].occ /\ d.at = machine[p].at
<1>1. PICK x \in MachineStates : x = machine[p]
  BY DEF MaintenanceInv, MaintenanceTypes
<1>2. PICK d : d = [x EXCEPT !.do = o]
  OBVIOUS
<1>3. d \in MachineStates /\ d.do = o /\ d.occ = x.occ /\ d.at = x.at
  <2>1. \A y \in MachineStates : LET z == [y EXCEPT !.do = o] IN
          z \in MachineStates /\ z.do = o /\ z.occ = y.occ /\ z.at = y.at
    BY DEF MachineStates
  <2>. QED BY <1>2, <2>1
<1>4. machine' = [machine EXCEPT ![p] = d]
  BY <1>1, <1>2 DEF Moves
<1>. QED BY <1>1, <1>3, <1>4

LEMMA DrainingMachine ==
  ASSUME MaintenanceInv, NEW p \in Machines, Drains(p)
  PROVE  \E d \in MachineStates : machine' = [machine EXCEPT ![p] = d] /\ d.do = "drain"
<1>1. PICK x \in MachineStates : x = machine[p]
  BY DEF MaintenanceInv, MaintenanceTypes
<1>2. PICK d : d = [x EXCEPT !.do = "drain", !.drained = 0]
  OBVIOUS
<1>3. d \in MachineStates /\ d.do = "drain"
  <2>1. \A y \in MachineStates : LET z == [y EXCEPT !.do = "drain", !.drained = 0] IN
          z \in MachineStates /\ z.do = "drain"
    <3>1. 0 \in 0..MaxDrain
      BY MaintenanceBounds
    <3>. QED BY <3>1 DEF MachineStates
  <2>. QED BY <1>2, <2>1
<1>4. machine' = [machine EXCEPT ![p] = d]
  BY <1>1, <1>2 DEF Drains
<1>. QED BY <1>3, <1>4

LEMMA CreateScheduleKeeps == ASSUME MaintenanceInv, NEW p \in Machines, CreateSchedule(p) PROVE MaintenanceInv'
<1>1. At(p, "create") /\ ~At(p, "run") /\ ~At(p, "enqueue") /\ UNCHANGED <<clock, job, deaths, fired>>
  BY DEF CreateSchedule, At
<1>2. machine[p].at \in 0..MaxInstant
  BY DEF MaintenanceInv, MaintenanceTypes, MachineStates
<1>3. CASE nextDue = NoRow
  <2>1. nextDue' \in Slots /\ nextDue' # NoRow /\ Moves(p, "tick")
    BY <1>2, <1>3, FirstDueIs DEF CreateSchedule, Slots, NoRow
  <2>2. PICK d \in MachineStates : machine' = [machine EXCEPT ![p] = d] /\ d.do = "tick"
    BY <2>1, MovedMachine
  <2>. QED BY <1>1, <1>3, <2>1, <2>2, MachineKeeps
<1>4. CASE nextDue # NoRow
  <2>1. nextDue' = nextDue /\ Moves(p, "down")
    BY <1>4 DEF CreateSchedule
  <2>2. PICK d \in MachineStates : machine' = [machine EXCEPT ![p] = d] /\ d.do = "down"
    BY <2>1, MovedMachine
  <2>. QED BY <1>1, <2>1, <2>2, MachineKeeps
<1>. QED BY <1>3, <1>4

LEMMA ReadDueKeeps == ASSUME MaintenanceInv, NEW p \in Machines, ReadDue(p) PROVE MaintenanceInv'
<1>1. At(p, "tick") /\ ~At(p, "run") /\ ~At(p, "enqueue") /\ UNCHANGED <<clock, nextDue, job, deaths, fired>>
  BY DEF ReadDue, At
<1>2. nextDue # NoRow /\ nextDue \in Slots /\ clock \in 0..MaxInstant
  BY <1>1 DEF At, MaintenanceInv, ClaimsAreDue, MaintenanceTypes
<1>3. CASE nextDue <= clock
  <2>1. PICK d : d = [do |-> "claim", occ |-> nextDue, at |-> clock, drained |-> 0]
    OBVIOUS
  <2>2. d \in MachineStates /\ d.do = "claim" /\ d.occ <= d.at
    BY <1>2, <1>3, <2>1, MaintenanceBounds DEF MachineStates
  <2>3. machine' = [machine EXCEPT ![p] = d]
    BY <1>3, <2>1 DEF ReadDue
  <2>. QED BY <1>1, <1>2, <2>2, <2>3, MachineKeeps
<1>4. CASE ~(nextDue <= clock)
  <2>1. PICK d \in MachineStates : machine' = [machine EXCEPT ![p] = d] /\ d.do = "drain"
    BY <1>4, DrainingMachine DEF ReadDue
  <2>. QED BY <1>1, <1>2, <2>1, MachineKeeps
<1>. QED BY <1>3, <1>4

LEMMA DrainEndsKeeps == ASSUME MaintenanceInv, NEW p \in Machines, DrainEnds(p) PROVE MaintenanceInv'
<1>1. At(p, "drain") /\ ~At(p, "run") /\ ~At(p, "enqueue") /\ UNCHANGED <<clock, nextDue, job, deaths, fired>>
  BY DEF DrainEnds, At
<1>2. nextDue # NoRow
  BY <1>1 DEF At, MaintenanceInv, ClaimsAreDue
<1>3. PICK d \in MachineStates : machine' = [machine EXCEPT ![p] = d] /\ d.do = "tick"
  BY MovedMachine DEF DrainEnds
<1>. QED BY <1>1, <1>2, <1>3, MachineKeeps

LEMMA ClaimDueKeeps == ASSUME MaintenanceInv, NEW p \in Machines, ClaimDue(p) PROVE MaintenanceInv'
<1>1. At(p, "claim") /\ ~At(p, "run") /\ ~At(p, "enqueue") /\ UNCHANGED <<clock, job, deaths>>
  BY DEF ClaimDue, At
<1>2. /\ machine[p].occ \in Slots /\ machine[p].at \in 0..MaxInstant /\ machine[p].occ <= machine[p].at
      /\ nextDue # NoRow
  BY <1>1 DEF At, MaintenanceInv, ClaimsAreDue, MaintenanceTypes, MachineStates
<1>3. PICK o \in Slots, t \in 0..MaxInstant : o = machine[p].occ /\ t = machine[p].at /\ o <= t
  BY <1>2
<1>4. CASE nextDue # o
  <2>1. UNCHANGED <<nextDue, fired>> /\ Drains(p)
    BY <1>3, <1>4 DEF ClaimDue, ClaimsRow
  <2>2. PICK d \in MachineStates : machine' = [machine EXCEPT ![p] = d] /\ d.do = "drain"
    BY <2>1, DrainingMachine
  <2>. QED BY <1>1, <1>2, <2>1, <2>2, MachineKeeps
<1>5. CASE nextDue = o
  <2>1. nextDue' = NextDue(o, t) /\ fired' = fired \cup {[occ |-> o, at |-> t]} /\ Moves(p, "enqueue")
    BY <1>3, <1>5 DEF ClaimDue, ClaimsRow
  <2>2. PICK d \in MachineStates : machine' = [machine EXCEPT ![p] = d] /\ d.do = "enqueue" /\ d.occ = o
    BY <1>3, <2>1, MovedMachine
  <2>3. PICK f \in Firings : f = [occ |-> o, at |-> t] /\ f.occ = o /\ f.at = t
    <3>1. [occ |-> o, at |-> t] \in Firings
      BY DEF Firings
    <3>. QED BY <3>1
  <2>4. o \in Nat /\ t \in Nat
    BY MaintenanceBounds DEF Slots
  <2>5. nextDue' \in Slots /\ nextDue' \in Nat /\ nextDue' > t
    BY <1>3, <2>1, <2>4, NextDueIs, MaintenanceBounds DEF Slots
  <2>6. /\ machine' \in [Machines -> MachineStates] /\ machine'[p] = d
        /\ \A q \in Machines \ {p} : machine'[q] = machine[q]
    BY <2>2 DEF MaintenanceInv, MaintenanceTypes
  <2>7. \A g \in fired : g.occ \in Nat /\ g.at \in Nat /\ g.occ <= g.at /\ g.at < o
    BY <1>5, FiringIs DEF MaintenanceInv, FiringsArePast
  <2>8. fired' = fired \cup {f}
    BY <2>1, <2>3
  <2>9. MaintenanceTypes'
    BY <1>1, <2>5, <2>6, <2>8 DEF MaintenanceInv, MaintenanceTypes
  <2>10. JobsAreHeld'
    <3>1. \A q \in Machines : At(q, "run")' <=> At(q, "run")
      BY <1>1, <2>2, <2>6 DEF At
    <3>2. \A q \in Machines : At(q, "run") => machine'[q] = machine[q]
      BY <1>1, <2>6
    <3>. QED BY <1>1, <3>1, <3>2 DEF MaintenanceInv, JobsAreHeld
  <2>11. ClaimsAreDue'
    <3>1. nextDue' # NoRow
      BY <2>5 DEF NoRow
    <3>2. \A q \in Machines : At(q, "claim")' => machine'[q].occ <= machine'[q].at
      BY <2>2, <2>6 DEF At, MaintenanceInv, ClaimsAreDue
    <3>3. \A q \in Machines : At(q, "enqueue")' => \E g \in fired' : g.occ = machine'[q].occ
      BY <2>2, <2>3, <2>6, <2>8 DEF At, MaintenanceInv, ClaimsAreDue
    <3>. QED BY <3>1, <3>2, <3>3 DEF ClaimsAreDue
  <2>12. FiringsArePast'
    BY <1>3, <2>3, <2>4, <2>5, <2>7, <2>8 DEF FiringsArePast
  <2>13. FiringsDiffer' /\ FiringsInOrder'
    BY <2>3, <2>4, <2>7, <2>8 DEF MaintenanceInv, FiringsDiffer, FiringsInOrder
  <2>14. JobsWereFired' /\ IsFiniteSet(fired)'
    BY <1>1, <2>8, FS_AddElement DEF MaintenanceInv, JobsWereFired
  <2>15. DaysLostToDeaths'
    <3>1. f \notin LostDays'
      BY <2>2, <2>3, <2>6 DEF LostDays, At
    <3>2. \A q \in Machines : At(q, "enqueue") => At(q, "enqueue")' /\ machine'[q] = machine[q]
      BY <1>1, <2>6 DEF At
    <3>3. LostDays' \subseteq LostDays
      BY <1>1, <2>8, <3>1, <3>2 DEF LostDays
    <3>. QED BY <1>1, <3>3, FewerLost
  <2>. QED BY <2>9, <2>10, <2>11, <2>12, <2>13, <2>14, <2>15 DEF MaintenanceInv
<1>. QED BY <1>4, <1>5

\* A step that leaves schedule and firings alone.
LEMMA FiringsStay ==
  ASSUME MaintenanceInv, UNCHANGED <<nextDue, fired>>
  PROVE  FiringsArePast' /\ FiringsDiffer' /\ FiringsInOrder' /\ IsFiniteSet(fired)'
  BY DEF MaintenanceInv, FiringsArePast, FiringsDiffer, FiringsInOrder

LEMMA EnqueueDueKeeps == ASSUME MaintenanceInv, NEW p \in Machines, EnqueueDue(p) PROVE MaintenanceInv'
<1>1. At(p, "enqueue") /\ ~At(p, "run") /\ UNCHANGED <<clock, nextDue, deaths, fired>>
  BY DEF EnqueueDue, At
<1>2. PICK f \in fired : f.occ = machine[p].occ
  BY <1>1 DEF MaintenanceInv, ClaimsAreDue
<1>3. PICK y \in Dates : y = DateOf(f.occ)
  BY FiringIs
<1>4. job' = IF job[y] = "none" THEN [job EXCEPT ![y] = "queued"] ELSE job
  BY <1>2, <1>3 DEF EnqueueDue, KeyDate
<1>5. PICK d \in MachineStates : machine' = [machine EXCEPT ![p] = d] /\ d.do = "drain"
  BY DrainingMachine DEF EnqueueDue
<1>6. /\ machine' \in [Machines -> MachineStates] /\ machine'[p] = d
      /\ \A q \in Machines \ {p} : machine'[q] = machine[q]
  BY <1>5 DEF MaintenanceInv, MaintenanceTypes
<1>7. /\ job' \in [Dates -> {"none", "queued", "held", "done"}] /\ job'[y] # "none"
      /\ \A x \in Dates : job'[x] = "none" => job[x] = "none"
      /\ \A x \in Dates : x # y => job'[x] = job[x]
      /\ \A x \in Dates : job'[x] = "held" <=> job[x] = "held"
  BY <1>4 DEF MaintenanceInv, MaintenanceTypes
<1>8. MaintenanceTypes'
  BY <1>1, <1>6, <1>7 DEF MaintenanceInv, MaintenanceTypes
<1>9. \A q \in Machines : At(q, "run")' <=> At(q, "run")
  BY <1>1, <1>5, <1>6 DEF At
<1>10. JobsAreHeld'
  <2>1. \A q \in Machines : At(q, "run") => machine'[q] = machine[q]
    BY <1>1, <1>6
  <2>. QED BY <1>7, <1>9, <2>1 DEF MaintenanceInv, JobsAreHeld
<1>11. ClaimsAreDue'
  BY <1>1, <1>5, <1>6 DEF At, MaintenanceInv, ClaimsAreDue
<1>12. JobsWereFired'
  BY <1>1, <1>3, <1>7 DEF MaintenanceInv, JobsWereFired
<1>13. DaysLostToDeaths'
  <2>1. LostDays' \subseteq LostDays
    <3>1. SUFFICES ASSUME NEW g \in LostDays' PROVE g \in LostDays
      OBVIOUS
    <3>2. /\ g \in fired /\ job'[DateOf(g.occ)] = "none" /\ DateOf(g.occ) \in Dates
          /\ \A q \in Machines : At(q, "enqueue")' => machine'[q].occ # g.occ
      BY <1>1, FiringIs DEF LostDays
    <3>3. g.occ # machine[p].occ
      BY <1>2, <1>3, <1>7, <3>2
    <3>4. \A q \in Machines : At(q, "enqueue") => machine[q].occ # g.occ
      BY <1>6, <3>2, <3>3 DEF At
    <3>. QED BY <1>7, <3>2, <3>4 DEF LostDays
  <2>. QED BY <1>1, <2>1, FewerLost
<1>. QED BY <1>1, <1>8, <1>10, <1>11, <1>12, <1>13, FiringsStay DEF MaintenanceInv

\* What was enqueued stays so; whoever is about to enqueue still is.
LEMMA LostStay ==
  ASSUME MaintenanceInv, UNCHANGED <<nextDue, fired, deaths>>,
         \A x \in Dates : job[x] = "none" <=> job'[x] = "none",
         \A q \in Machines : /\ At(q, "enqueue") <=> At(q, "enqueue")'
                             /\ At(q, "enqueue") => machine'[q] = machine[q]
  PROVE  JobsWereFired' /\ DaysLostToDeaths'
<1>1. JobsWereFired'
  BY DEF MaintenanceInv, JobsWereFired
<1>2. LostDays' \subseteq LostDays
  <2>1. SUFFICES ASSUME NEW g \in LostDays' PROVE g \in LostDays
    OBVIOUS
  <2>2. /\ g \in fired /\ job'[DateOf(g.occ)] = "none" /\ DateOf(g.occ) \in Dates
        /\ \A q \in Machines : At(q, "enqueue")' => machine'[q].occ # g.occ
    BY FiringIs DEF LostDays
  <2>. QED BY <2>2 DEF LostDays
<1>. QED BY <1>1, <1>2, FewerLost

LEMMA TakeDueKeeps == ASSUME MaintenanceInv, NEW p \in Machines, TakeDue(p) PROVE MaintenanceInv'
<1>1. At(p, "drain") /\ ~At(p, "run") /\ ~At(p, "enqueue") /\ UNCHANGED <<clock, nextDue, deaths, fired>>
  BY DEF TakeDue, At
<1>2. PICK y \in Dates : /\ job[y] = "queued" /\ job' = [job EXCEPT ![y] = "held"]
                         /\ machine' = [machine EXCEPT ![p].do = "run", ![p].occ = y]
  BY DEF TakeDue
<1>3. y \in Slots
  <2>1. PICK n \in Nat \ {0} : n = DayLength
    BY MaintenanceBounds
  <2>2. LastSlot \div n \in Nat /\ LastSlot \div n <= LastSlot
    BY MaintenanceBounds
  <2>. QED BY <2>1, <2>2, MaintenanceBounds DEF Dates, Slots
<1>4. PICK x \in MachineStates : x = machine[p]
  BY DEF MaintenanceInv, MaintenanceTypes
<1>5. PICK d : d = [x EXCEPT !.do = "run", !.occ = y]
  OBVIOUS
<1>6. d \in MachineStates /\ d.do = "run" /\ d.occ = y /\ d.drained < MaxDrain
  <2>1. \A z \in MachineStates : LET w == [z EXCEPT !.do = "run", !.occ = y] IN
          w \in MachineStates /\ w.do = "run" /\ w.occ = y /\ w.drained = z.drained
    BY <1>3 DEF MachineStates
  <2>. QED BY <1>4, <1>5, <2>1 DEF TakeDue
<1>7. /\ machine' \in [Machines -> MachineStates] /\ machine'[p] = d
      /\ \A q \in Machines \ {p} : machine'[q] = machine[q]
  BY <1>2, <1>4, <1>5, <1>6 DEF MaintenanceInv, MaintenanceTypes
<1>8. /\ job' \in [Dates -> {"none", "queued", "held", "done"}] /\ job'[y] = "held"
      /\ \A z \in Dates : z # y => job'[z] = job[z]
  BY <1>2 DEF MaintenanceInv, MaintenanceTypes
<1>9. MaintenanceTypes'
  BY <1>1, <1>7, <1>8 DEF MaintenanceInv, MaintenanceTypes
<1>10. JobsAreHeld'
  <2>1. \A q \in Machines : At(q, "run") => machine[q].occ # y /\ machine'[q] = machine[q]
    BY <1>1, <1>2, <1>7 DEF MaintenanceInv, JobsAreHeld
  <2>2. \A q \in Machines : At(q, "run")' => q = p \/ At(q, "run")
    BY <1>7 DEF At
  <2>3. \A q \in Machines : At(q, "run") => At(q, "run")'
    BY <2>1 DEF At
  <2>4. At(p, "run")'
    BY <1>6, <1>7 DEF At
  <2>5. \A q \in Machines : At(q, "run")' => /\ machine'[q].occ \in Dates /\ job'[machine'[q].occ] = "held"
                                            /\ machine'[q].drained < MaxDrain
    BY <1>6, <1>7, <1>8, <2>1, <2>2 DEF MaintenanceInv, JobsAreHeld
  <2>6. \A q, r \in Machines : At(q, "run")' /\ At(r, "run")' /\ machine'[q].occ = machine'[r].occ => q = r
    BY <1>6, <1>7, <2>1, <2>2 DEF MaintenanceInv, JobsAreHeld
  <2>7. \A z \in Dates : job'[z] = "held" => \E q \in Machines : At(q, "run")' /\ machine'[q].occ = z
    BY <1>6, <1>7, <1>8, <2>1, <2>3, <2>4 DEF MaintenanceInv, JobsAreHeld
  <2>. QED BY <2>5, <2>6, <2>7 DEF JobsAreHeld
<1>11. ClaimsAreDue'
  BY <1>1, <1>6, <1>7 DEF At, MaintenanceInv, ClaimsAreDue
<1>12. JobsWereFired' /\ DaysLostToDeaths'
  <2>1. \A q \in Machines : /\ At(q, "enqueue") <=> At(q, "enqueue")'
                            /\ At(q, "enqueue") => machine'[q] = machine[q]
    BY <1>1, <1>6, <1>7 DEF At
  <2>2. \A z \in Dates : job[z] = "none" <=> job'[z] = "none"
    BY <1>2, <1>8
  <2>. QED BY <1>1, <2>1, <2>2, LostStay
<1>. QED BY <1>1, <1>9, <1>10, <1>11, <1>12, FiringsStay DEF MaintenanceInv

LEMMA RunDueKeeps == ASSUME MaintenanceInv, NEW p \in Machines, RunDue(p) PROVE MaintenanceInv'
<1>1. At(p, "run") /\ ~At(p, "enqueue") /\ UNCHANGED <<clock, nextDue, deaths, fired>>
      /\ nextDue # NoRow
  BY DEF RunDue, At, MaintenanceInv, ClaimsAreDue
<1>2. PICK x \in MachineStates : x = machine[p]
  BY DEF MaintenanceInv, MaintenanceTypes
<1>3. PICK y \in Dates : y = x.occ /\ job[y] = "held" /\ x.drained < MaxDrain
  BY <1>1, <1>2 DEF MaintenanceInv, JobsAreHeld
<1>4. PICK n \in 0..MaxDrain : n = x.drained + 1
  BY <1>3, MaintenanceBounds DEF MachineStates
<1>5. PICK d : d = [x EXCEPT !.do = "drain", !.drained = n]
  OBVIOUS
<1>6. d \in MachineStates /\ d.do = "drain"
  <2>1. \A z \in MachineStates : LET w == [z EXCEPT !.do = "drain", !.drained = n] IN
          w \in MachineStates /\ w.do = "drain"
    BY DEF MachineStates
  <2>. QED BY <1>5, <2>1
<1>7. machine' = [machine EXCEPT ![p] = d] /\ job' = [job EXCEPT ![y] = "done"]
  BY <1>2, <1>3, <1>4, <1>5 DEF RunDue
<1>8. /\ machine' \in [Machines -> MachineStates] /\ machine'[p] = d
      /\ \A q \in Machines \ {p} : machine'[q] = machine[q]
  BY <1>6, <1>7 DEF MaintenanceInv, MaintenanceTypes
<1>9. /\ job' \in [Dates -> {"none", "queued", "held", "done"}] /\ job'[y] = "done"
      /\ \A z \in Dates : z # y => job'[z] = job[z]
  BY <1>7 DEF MaintenanceInv, MaintenanceTypes
<1>10. MaintenanceTypes'
  BY <1>1, <1>8, <1>9 DEF MaintenanceInv, MaintenanceTypes
<1>11. JobsAreHeld'
  <2>1. \A q \in Machines : At(q, "run")' <=> q # p /\ At(q, "run")
    BY <1>6, <1>8 DEF At
  <2>2. \A q \in Machines \ {p} : At(q, "run") => machine[q].occ # y /\ machine'[q] = machine[q]
    BY <1>1, <1>2, <1>3, <1>8 DEF MaintenanceInv, JobsAreHeld
  <2>3. \A q \in Machines : At(q, "run")' => /\ machine'[q].occ \in Dates /\ job'[machine'[q].occ] = "held"
                                            /\ machine'[q].drained < MaxDrain
    BY <1>9, <2>1, <2>2 DEF MaintenanceInv, JobsAreHeld
  <2>4. \A q, r \in Machines : At(q, "run")' /\ At(r, "run")' /\ machine'[q].occ = machine'[r].occ => q = r
    BY <2>1, <2>2 DEF MaintenanceInv, JobsAreHeld
  <2>5. \A z \in Dates : job'[z] = "held" => \E q \in Machines : At(q, "run")' /\ machine'[q].occ = z
    BY <1>2, <1>3, <1>9, <2>1, <2>2 DEF MaintenanceInv, JobsAreHeld
  <2>. QED BY <2>3, <2>4, <2>5 DEF JobsAreHeld
<1>12. ClaimsAreDue'
  BY <1>1, <1>6, <1>8 DEF At, MaintenanceInv, ClaimsAreDue
<1>13. JobsWereFired' /\ DaysLostToDeaths'
  <2>1. \A q \in Machines : /\ At(q, "enqueue") <=> At(q, "enqueue")'
                            /\ At(q, "enqueue") => machine'[q] = machine[q]
    BY <1>1, <1>6, <1>8 DEF At
  <2>2. \A z \in Dates : job[z] = "none" <=> job'[z] = "none"
    BY <1>3, <1>9
  <2>. QED BY <1>1, <2>1, <2>2, LostStay
<1>. QED BY <1>1, <1>10, <1>11, <1>12, <1>13, FiringsStay DEF MaintenanceInv

\* A death loses at most the one occurrence its process had claimed and not enqueued.
LEMMA DieKeeps == ASSUME MaintenanceInv, NEW p \in Machines, Die(p) PROVE MaintenanceInv'
<1>1. /\ ~At(p, "down") /\ deaths < MaxDeaths /\ deaths' = deaths + 1
      /\ UNCHANGED <<clock, nextDue, fired>> /\ machine' = [machine EXCEPT ![p] = Down]
  BY DEF Die
<1>2. /\ machine' \in [Machines -> MachineStates] /\ machine'[p] = Down
      /\ \A q \in Machines \ {p} : machine'[q] = machine[q]
  BY <1>1, DownIs DEF MaintenanceInv, MaintenanceTypes
<1>3. deaths \in Nat /\ deaths' \in 0..MaxDeaths
  BY <1>1, MaintenanceBounds DEF MaintenanceInv, MaintenanceTypes
<1>4. /\ job' \in [Dates -> {"none", "queued", "held", "done"}]
      /\ \A x \in Dates : job'[x] = "none" <=> job[x] = "none"
      /\ \A x \in Dates : job'[x] = "held" <=> job[x] = "held" /\ ~(At(p, "run") /\ machine[p].occ = x)
  <2>1. CASE At(p, "run")
    <3>1. PICK y \in Dates : y = machine[p].occ /\ job[y] = "held"
      BY <2>1 DEF MaintenanceInv, JobsAreHeld
    <3>2. job' = [job EXCEPT ![y] = "queued"]
      BY <2>1, <3>1 DEF Die
    <3>. QED BY <2>1, <3>1, <3>2 DEF MaintenanceInv, MaintenanceTypes
  <2>2. CASE ~At(p, "run")
    BY <2>2 DEF Die, MaintenanceInv, MaintenanceTypes
  <2>. QED BY <2>1, <2>2
<1>5. MaintenanceTypes'
  BY <1>1, <1>2, <1>3, <1>4 DEF MaintenanceInv, MaintenanceTypes
<1>6. JobsAreHeld'
  <2>1. \A q \in Machines : At(q, "run")' <=> q # p /\ At(q, "run")
    BY <1>2, DownIs DEF At
  <2>2. \A q \in Machines \ {p} : /\ At(q, "run") => machine'[q] = machine[q]
                                  /\ At(q, "run") /\ At(p, "run") => machine[q].occ # machine[p].occ
    BY <1>2 DEF MaintenanceInv, JobsAreHeld
  <2>3. \A q \in Machines : At(q, "run")' => /\ machine'[q].occ \in Dates /\ job'[machine'[q].occ] = "held"
                                            /\ machine'[q].drained < MaxDrain
    BY <1>4, <2>1, <2>2 DEF MaintenanceInv, JobsAreHeld
  <2>4. \A q, r \in Machines : At(q, "run")' /\ At(r, "run")' /\ machine'[q].occ = machine'[r].occ => q = r
    BY <2>1, <2>2 DEF MaintenanceInv, JobsAreHeld
  <2>5. \A z \in Dates : job'[z] = "held" => \E q \in Machines : At(q, "run")' /\ machine'[q].occ = z
    BY <1>4, <2>1, <2>2 DEF MaintenanceInv, JobsAreHeld
  <2>. QED BY <2>3, <2>4, <2>5 DEF JobsAreHeld
<1>7. ClaimsAreDue'
  BY <1>1, <1>2, DownIs DEF At, MaintenanceInv, ClaimsAreDue
<1>8. JobsWereFired'
  BY <1>1, <1>4 DEF MaintenanceInv, JobsWereFired
<1>9. DaysLostToDeaths'
  <2>1. IsFiniteSet(LostDays) /\ Cardinality(LostDays) \in Nat /\ Cardinality(LostDays) <= deaths
    BY FS_Subset, FS_CardinalityType DEF MaintenanceInv, LostDays, DaysLostToDeaths
  <2>2. \A g \in LostDays' : g \in LostDays \/ (At(p, "enqueue") /\ g \in fired /\ g.occ = machine[p].occ)
    <3>1. SUFFICES ASSUME NEW g \in LostDays', g \notin LostDays
                   PROVE  At(p, "enqueue") /\ g \in fired /\ g.occ = machine[p].occ
      OBVIOUS
    <3>2. /\ g \in fired /\ job'[DateOf(g.occ)] = "none" /\ DateOf(g.occ) \in Dates
          /\ \A q \in Machines : At(q, "enqueue")' => machine'[q].occ # g.occ
      BY <1>1, FiringIs DEF LostDays
    <3>. QED BY <1>2, <1>4, <3>1, <3>2 DEF LostDays, At
  <2>3. CASE LostDays' \subseteq LostDays
    <3>1. Cardinality(LostDays') <= Cardinality(LostDays) /\ Cardinality(LostDays') \in Nat
      BY <2>1, <2>3, FS_Subset, FS_CardinalityType
    <3>. QED BY <1>1, <1>3, <2>1, <3>1 DEF DaysLostToDeaths
  <2>4. CASE ~(LostDays' \subseteq LostDays)
    <3>1. PICK f \in LostDays' : f \notin LostDays
      BY <2>4
    <3>2. LostDays' \subseteq LostDays \cup {f}
      BY <2>2, <3>1 DEF MaintenanceInv, FiringsDiffer
    <3>3. IsFiniteSet(LostDays \cup {f}) /\ Cardinality(LostDays \cup {f}) = Cardinality(LostDays) + 1
      BY <2>1, <3>1, FS_AddElement
    <3>4. Cardinality(LostDays') <= Cardinality(LostDays) + 1 /\ Cardinality(LostDays') \in Nat
      BY <3>2, <3>3, FS_Subset, FS_CardinalityType
    <3>. QED BY <1>1, <1>3, <2>1, <3>4 DEF DaysLostToDeaths
  <2>. QED BY <2>3, <2>4
<1>. QED BY <1>1, <1>5, <1>6, <1>7, <1>8, <1>9, FiringsStay DEF MaintenanceInv

LEMMA TimePassesKeeps == ASSUME MaintenanceInv, TimePasses PROVE MaintenanceInv'
<1>1. UNCHANGED <<nextDue, job, machine, deaths, fired>> /\ clock' \in 0..MaxInstant
  BY MaintenanceBounds DEF TimePasses, MaintenanceInv, MaintenanceTypes
<1>2. MaintenanceTypes' /\ JobsAreHeld' /\ ClaimsAreDue'
  BY <1>1 DEF MaintenanceInv, MaintenanceTypes, JobsAreHeld, ClaimsAreDue, At
<1>3. JobsWereFired' /\ DaysLostToDeaths'
  BY <1>1, LostStay DEF At
<1>. QED BY <1>1, <1>2, <1>3, FiringsStay DEF MaintenanceInv

LEMMA MaintenanceStart == MaintenanceInit => MaintenanceInv
<1>1. HAVE MaintenanceInit
<1>2. IsFiniteSet(fired) /\ LostDays = {} /\ Cardinality(LostDays) = 0
  BY <1>1, FS_EmptySet DEF MaintenanceInit, LostDays
<1>3. MaintenanceTypes
  BY <1>1, DownIs, MaintenanceBounds DEF MaintenanceInit, MaintenanceTypes
<1>4. \A p \in Machines : At(p, "down") /\ machine[p].do = "down"
  BY <1>1, DownIs DEF MaintenanceInit, At
<1>5. JobsAreHeld /\ ClaimsAreDue
  BY <1>1, <1>4 DEF MaintenanceInit, JobsAreHeld, ClaimsAreDue, At
<1>6. FiringsArePast /\ FiringsDiffer /\ FiringsInOrder /\ JobsWereFired
  BY <1>1 DEF MaintenanceInit, FiringsArePast, FiringsDiffer, FiringsInOrder, JobsWereFired
<1>7. DaysLostToDeaths
  BY <1>1, <1>2 DEF MaintenanceInit, DaysLostToDeaths
<1>. QED BY <1>2, <1>3, <1>5, <1>6, <1>7 DEF MaintenanceInv

LEMMA MaintenanceNextKeeps == MaintenanceInv /\ [MaintenanceNext]_maintenanceVars => MaintenanceInv'
<1>1. HAVE MaintenanceInv /\ [MaintenanceNext]_maintenanceVars
<1>2. CASE MaintenanceNext
  <2>1. ASSUME NEW p \in Machines, Boot(p) \/ MachineGoesOn(p) \/ Die(p) PROVE MaintenanceInv'
    BY <1>1, <2>1, BootKeeps, CreateScheduleKeeps, ReadDueKeeps, ClaimDueKeeps, EnqueueDueKeeps,
       TakeDueKeeps, RunDueKeeps, DrainEndsKeeps, DieKeeps DEF MachineGoesOn
  <2>. QED BY <1>1, <1>2, <2>1, TimePassesKeeps DEF MaintenanceNext
<1>3. CASE UNCHANGED maintenanceVars
  <2>1. UNCHANGED <<clock, nextDue, job, machine, deaths, fired>>
    BY <1>3 DEF maintenanceVars
  <2>2. MaintenanceTypes' /\ JobsAreHeld' /\ ClaimsAreDue'
    BY <1>1, <2>1 DEF MaintenanceInv, MaintenanceTypes, JobsAreHeld, ClaimsAreDue, At
  <2>3. JobsWereFired' /\ DaysLostToDeaths'
    BY <1>1, <2>1, LostStay DEF At
  <2>. QED BY <1>1, <2>1, <2>2, <2>3, FiringsStay DEF MaintenanceInv
<1>. QED BY <1>1, <1>2, <1>3

LEMMA MaintenanceSays == MaintenanceInv => MaintenanceTypeOK /\ OneRunADay
<1>1. HAVE MaintenanceInv
<1>2. ASSUME NEW d \in Dates, job[d] = "held"
      PROVE  Cardinality({p \in Machines : machine[p].do = "run" /\ machine[p].occ = d}) = 1
  <2>1. PICK p \in Machines : {q \in Machines : machine[q].do = "run" /\ machine[q].occ = d} = {p}
    BY <1>1, <1>2 DEF MaintenanceInv, JobsAreHeld, At
  <2>. QED BY <2>1, FS_Singleton
<1>3. MaintenanceTypeOK
  BY <1>1, <1>2 DEF MaintenanceInv, MaintenanceTypes, MaintenanceTypeOK, MachineStates, Firings
<1>4. OneRunADay
  BY <1>1 DEF MaintenanceInv, FiringsInOrder, JobsWereFired, DaysLostToDeaths, LostDays, OneRunADay
<1>. QED BY <1>3, <1>4

\* Schedule, jobs and processes are well-formed: a job is held by one process that runs it.
THEOREM MaintenanceIsTyped == MaintenanceSpec => []MaintenanceTypeOK
<1>1. MaintenanceSpec => []MaintenanceInv
  BY MaintenanceStart, MaintenanceNextKeeps, PTL DEF MaintenanceSpec
<1>. QED BY <1>1, MaintenanceSays, PTL

\* At most one backup a day and one catch-up for a whole backlog (backup-scheduler and
\* data-retention-scheduler), for any number of processes that contend for the schedule,
\* any hour and interval, and any downtime; a day is lost to a death alone.
THEOREM BackupsRunOnce == MaintenanceSpec => []OneRunADay
<1>1. MaintenanceSpec => []MaintenanceInv
  BY MaintenanceStart, MaintenanceNextKeeps, PTL DEF MaintenanceSpec
<1>. QED BY <1>1, MaintenanceSays, PTL

(***************************************************************************)
(* The queue and a maintenance schedule beside each other.                 *)
(***************************************************************************)
LEMMA WorkersMove == [WorkersNext]_workersVars => [Next]_vars /\ [MaintenanceNext]_maintenanceVars
  BY DEF WorkersNext, workersVars

\* While handlers return within their lease no two workers drive a job (claimJob), and a
\* maintenance schedule fires once a day (the schedulers of backups and of retention), in the
\* one specification of the processes that work off the queue.
THEOREM WorkersKeepTheirWord ==
  ASSUME Timely, MaxStall <= Lease
  PROVE  WorkersSpec => [](SoleExecutor /\ OneRunADay)
<1>1. WorkersInit => IInv /\ LockInv /\ MaintenanceInv
  BY InitInvariant, LockStarts, MaintenanceStart DEF WorkersInit
<1>2. IInv /\ [WorkersNext]_workersVars => IInv'
  BY WorkersMove, NextInvariant
<1>3. IInv /\ LockInv /\ [WorkersNext]_workersVars => LockInv'
  BY WorkersMove, LockStep
<1>4. MaintenanceInv /\ [WorkersNext]_workersVars => MaintenanceInv'
  BY WorkersMove, MaintenanceNextKeeps
<1>5. LockInv /\ MaintenanceInv => SoleExecutor /\ OneRunADay
  BY MaintenanceSays DEF LockInv
<1>. QED BY <1>1, <1>2, <1>3, <1>4, <1>5, PTL DEF WorkersSpec
===============================================================================
