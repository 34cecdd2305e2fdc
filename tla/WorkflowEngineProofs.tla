-------------------------- MODULE WorkflowEngineProofs --------------------------
(***************************************************************************)
(* Proofs about WorkflowEngine for one starter, any number of reviewers,   *)
(* steps, gates, attempts and retries, and any number of calls cut short   *)
(* (with two starters SoleExecutor fails: one of them mistakes the claim   *)
(* of the other for its own), then about ContentPlan and ClientCache, for  *)
(* every value of their constants.                                         *)
(***************************************************************************)
EXTENDS MCWorkflowEngine, SequenceTheorems, WellFoundedInduction, TLAPS

OneStarter == \A c, d \in Starters : c = d

\* Where a call may write the row without a condition, or is about to.
Driving == {"entering", "claiming", "rereading", "reviving"} \cup Looping

OneDriver == \A c, d \in Callers : pc[c] \in Driving /\ pc[d] \in Driving => c = d

\* Every gate up to the cursor has been passed.
Approved == \A g \in Gates : g <= cursor => outcome # "PENDING"

\* What the place of a call says of the row and its step runs.
CallFits(c) ==
  /\ pc[c] = "creatingInstance" => c \in Starters
  /\ pc[c] = "claiming" => status = "PENDING" /\ c \in Starters
  /\ pc[c] = "entering" => \/ status = "PENDING" /\ c \in Starters
                           \/ status = "RUNNING" /\ Approved
  /\ pc[c] = "reviving" => status = "RETRYING" /\ Approved
  /\ pc[c] = "rereading" => status = "RUNNING" /\ Approved
  /\ pc[c] \in Looping => status = "RUNNING" /\ seen[c] = "RUNNING"
  /\ pc[c] \in Looping \ {"gating"} => step[c] = cursor + 1 /\ Approved
  /\ pc[c] = "creating" => attempt[c] = made[step[c]] + 1
  /\ pc[c] = "handling" => attempt[c] = made[step[c]]
  /\ pc[c] = "advancing" => step[c] \in done
  /\ pc[c] = "retrying" =>
       \A s \in Steps : s <= rewind[c] => s \in done /\ (s \in Gates => outcome # "PENDING")

\* What the row says by itself.
RowFits ==
  /\ status \in {"ABSENT", "PENDING"} => cursor = 0
  /\ \A g \in Gates : g < cursor => outcome # "PENDING"
  /\ NothingSkipped /\ GateHolds

\* The inductive invariant: none of the properties is one by itself, since each rests on
\* the row being left alone by all calls but one.
EngineInv == TypeOK /\ OneDriver /\ RowFits /\ \A c \in Callers : CallFits(c)

-------------------------------------------------------------------------------
\* The type invariant in two parts: the row, and the calls.
RowTyped ==
  /\ status \in Statuses /\ cursor \in 0..NumSteps
  /\ outcome \in {"PENDING", "ACCEPTED", "DISMISSED"}
  /\ made \in [Steps -> Nat] /\ done \in SUBSET Steps
  /\ retries \in 0..MaxRetries /\ aborts \in 0..MaxAborts
CallsTyped ==
  /\ pc \in [Callers -> Places]
  /\ step \in [Callers -> 0..(NumSteps + 1)]
  /\ \A c \in Callers : pc[c] \in Looping \ {"stepping"} => step[c] \in Steps
  /\ attempt \in [Callers -> Nat]
  /\ local \in [Callers -> 0..MaxStepAttempts]
  /\ seen \in [Callers -> Statuses]
  /\ rewind \in [Callers -> 0..NumSteps]

\* The locals of all calls but c stay as they are.
OthersKeep(c) == \A d \in Callers \ {c} :
  /\ pc'[d] = pc[d] /\ step'[d] = step[d] /\ attempt'[d] = attempt[d]
  /\ local'[d] = local[d] /\ seen'[d] = seen[d] /\ rewind'[d] = rewind[d]

\* No call but c drives the instance.
Alone(c) == \A d \in Callers \ {c} : pc[d] \notin Driving

LEMMA TypeParts == TypeOK <=> RowTyped /\ CallsTyped
  BY DEF TypeOK, RowTyped, CallsTyped

\* A call that goes to a place with new locals,
LEMMA CallMoves ==
  ASSUME CallsTyped, NEW c \in Callers, NEW p \in Places, NEW i \in 0..(NumSteps + 1), NEW a \in Nat,
         NEW l \in 0..MaxStepAttempts, NEW s \in Statuses, NEW r \in 0..NumSteps,
         Goto(c, p), SetLocals(c, i, a, l, s, r),
         p \in Looping \ {"stepping"} => i \in Steps
  PROVE  /\ CallsTyped' /\ OthersKeep(c)
         /\ pc'[c] = p /\ step'[c] = i /\ attempt'[c] = a /\ local'[c] = l
         /\ seen'[c] = s /\ rewind'[c] = r
<1>1. /\ pc'[c] = p /\ step'[c] = i /\ attempt'[c] = a /\ local'[c] = l
      /\ seen'[c] = s /\ rewind'[c] = r
  BY DEF CallsTyped, Goto, SetLocals
<1>2. OthersKeep(c)
  BY DEF CallsTyped, Goto, SetLocals, OthersKeep
<1>3. pc' \in [Callers -> Places] /\ step' \in [Callers -> 0..(NumSteps + 1)]
      /\ attempt' \in [Callers -> Nat]
  BY DEF CallsTyped, Goto, SetLocals
<1>4. local' \in [Callers -> 0..MaxStepAttempts] /\ seen' \in [Callers -> Statuses]
      /\ rewind' \in [Callers -> 0..NumSteps]
  BY DEF CallsTyped, SetLocals
<1>5. \A d \in Callers : pc'[d] \in Looping \ {"stepping"} => step'[d] \in Steps
  BY <1>1, <1>2 DEF OthersKeep, CallsTyped
<1>. QED BY <1>1, <1>2, <1>3, <1>4, <1>5 DEF CallsTyped

\* ... keeps its locals,
LEMMA CallContinues ==
  ASSUME CallsTyped, NEW c \in Callers, NEW p \in Places, Continue(c, p),
         p \in Looping \ {"stepping"} => step[c] \in Steps
  PROVE  /\ CallsTyped' /\ OthersKeep(c)
         /\ pc'[c] = p /\ step'[c] = step[c] /\ attempt'[c] = attempt[c]
         /\ local'[c] = local[c] /\ seen'[c] = seen[c] /\ rewind'[c] = rewind[c]
  BY DEF CallsTyped, Goto, Continue, OthersKeep

\* ... or is over.
LEMMA CallReturns ==
  ASSUME CallsTyped, NEW c \in Callers, Return(c)
  PROVE  CallsTyped' /\ OthersKeep(c) /\ pc'[c] = "idle"
<1>1. "idle" \in Places /\ "ABSENT" \in Statuses /\ "idle" \notin Looping
  BY DEF Places, Statuses, Looping
<1>2. 0 \in 0..(NumSteps + 1) /\ 0 \in 0..NumSteps /\ 0 \in 0..MaxStepAttempts /\ 0 \in Nat
  BY WorkflowAssumption
<1>. QED BY <1>1, <1>2, CallMoves DEF Return

-------------------------------------------------------------------------------
\* What a call that drives the instance says of its status.
LEMMA DriverStatus ==
  ASSUME NEW c \in Callers, CallFits(c), pc[c] \in Driving
  PROVE  /\ status \in {"PENDING", "RUNNING", "RETRYING"}
         /\ status = "PENDING" => c \in Starters
  BY DEF CallFits, Driving, Looping

\* A call that does not move keeps what its place says, if nothing it rests on moves either,
\* or if it does not drive the instance.
LEMMA Bystander ==
  ASSUME NEW c \in Callers, NEW d \in Callers \ {c}, CallFits(d), OthersKeep(c),
         \/ UNCHANGED <<row, stepRuns>>
         \/ /\ pc[d] \notin Driving /\ done \subseteq done'
            /\ outcome # "PENDING" => outcome' # "PENDING"
  PROVE  CallFits(d)'
<1>1. /\ pc'[d] = pc[d] /\ step'[d] = step[d] /\ attempt'[d] = attempt[d]
      /\ seen'[d] = seen[d] /\ rewind'[d] = rewind[d]
  BY DEF OthersKeep
<1>2. CASE UNCHANGED <<row, stepRuns>>
  BY <1>1, <1>2 DEF CallFits, row, stepRuns, Approved
<1>3. CASE /\ pc[d] \notin Driving /\ done \subseteq done'
           /\ outcome # "PENDING" => outcome' # "PENDING"
  BY <1>1, <1>3 DEF CallFits, Driving, Looping
<1>. QED BY <1>2, <1>3

\* So a step of one call keeps the invariant if it keeps the row consistent and its own
\* place, and writes, or becomes a driver, only where no other call drives.
LEMMA OneMoves ==
  ASSUME EngineInv, NEW c \in Callers, OthersKeep(c), CallsTyped', RowTyped', RowFits', CallFits(c)',
         \/ UNCHANGED <<row, stepRuns>> /\ pc'[c] \notin Driving
         \/ Alone(c) /\ done \subseteq done' /\ (outcome # "PENDING" => outcome' # "PENDING")
  PROVE  EngineInv'
<1>1. TypeOK'
  BY TypeParts, PTL
<1>2. \A d \in Callers : CallFits(d)'
  BY Bystander DEF EngineInv, Alone
<1>3. OneDriver'
  BY DEF EngineInv, OneDriver, OthersKeep, Alone
<1>. QED BY <1>1, <1>2, <1>3 DEF EngineInv

\* A driver is alone; and nobody drives an instance that rests, or a pending one but its starter.
LEMMA DriverIsAlone ==
  ASSUME EngineInv, NEW c \in Callers, pc[c] \in Driving
  PROVE  Alone(c)
  BY DEF EngineInv, OneDriver, Alone

LEMMA RestIsAlone ==
  ASSUME EngineInv, NEW c \in Callers, status \in {"ABSENT", "AWAITING_APPROVAL", "FAILED"}
  PROVE  Alone(c)
  BY DriverStatus DEF EngineInv, Alone

LEMMA StarterIsAlone ==
  ASSUME OneStarter, EngineInv, NEW c \in Starters, status = "PENDING"
  PROVE  Alone(c)
  BY DriverStatus DEF EngineInv, Alone, OneStarter, Callers

-------------------------------------------------------------------------------
\* Each action keeps the invariant.
LEMMA StartLookKeeps ==
  ASSUME OneStarter, EngineInv, NEW c \in Starters, StartLook(c)
  PROVE  EngineInv'
<1>. c \in Callers
  BY DEF Callers
<1>1. UNCHANGED <<row, stepRuns, retries, aborts>>
  BY DEF StartLook
<1>2. RowTyped' /\ RowFits'
  BY <1>1 DEF EngineInv, TypeOK, RowTyped, RowFits, NothingSkipped, GateHolds, row, stepRuns
<1>3. CASE status = "ABSENT" /\ Continue(c, "creatingInstance")
  <2>1. CallsTyped' /\ OthersKeep(c) /\ pc'[c] = "creatingInstance"
    BY <1>3, CallContinues, TypeParts DEF EngineInv, Places, Looping
  <2>2. CallFits(c)' /\ pc'[c] \notin Driving
    BY <2>1 DEF CallFits, Looping, Driving
  <2>. QED BY <2>1, <2>2, <1>1, <1>2, OneMoves
<1>4. CASE ResumesExisting /\ Continue(c, "entering")
  <2>1. CallsTyped' /\ OthersKeep(c) /\ pc'[c] = "entering"
    BY <1>4, CallContinues, TypeParts DEF EngineInv, Places, Looping
  <2>2. CallFits(c)'
    BY <2>1, <1>1, <1>4 DEF CallFits, Looping, ResumesExisting, row
  <2>3. Alone(c)
    BY <1>4, StarterIsAlone DEF ResumesExisting
  <2>. QED BY <2>1, <2>2, <2>3, <1>1, <1>2, OneMoves DEF row, stepRuns
<1>. QED BY <1>3, <1>4 DEF StartLook

LEMMA CreateInstanceKeeps ==
  ASSUME EngineInv, NEW c \in Callers, CreateInstance(c)
  PROVE  EngineInv'
<1>1. c \in Starters /\ UNCHANGED <<cursor, outcome, made, done, retries, aborts>>
  BY DEF EngineInv, CallFits, CreateInstance, At, stepRuns
<1>2. CASE status = "ABSENT" /\ status' = "PENDING" /\ Continue(c, "entering")
  <2>1. CallsTyped' /\ OthersKeep(c) /\ pc'[c] = "entering"
    BY <1>2, CallContinues, TypeParts DEF EngineInv, Places, Looping
  <2>2. RowTyped' /\ RowFits'
    BY <1>1, <1>2 DEF EngineInv, TypeOK, RowTyped, RowFits, NothingSkipped, GateHolds, Statuses
  <2>3. CallFits(c)'
    BY <1>1, <1>2, <2>1 DEF CallFits, Looping
  <2>4. Alone(c)
    BY <1>2, RestIsAlone
  <2>. QED BY <2>1, <2>2, <2>3, <2>4, <1>1, OneMoves
<1>3. CASE Return(c) /\ UNCHANGED status
  <2>1. CallsTyped' /\ OthersKeep(c) /\ pc'[c] = "idle"
    BY <1>3, CallReturns, TypeParts DEF EngineInv
  <2>2. RowTyped' /\ RowFits'
    BY <1>1, <1>3 DEF EngineInv, TypeOK, RowTyped, RowFits, NothingSkipped, GateHolds
  <2>3. CallFits(c)' /\ pc'[c] \notin Driving
    BY <2>1 DEF CallFits, Looping, Driving
  <2>. QED BY <2>1, <2>2, <2>3, <1>1, <1>3, OneMoves DEF row, stepRuns
<1>. QED BY <1>2, <1>3 DEF CreateInstance

\* The claims of the row by a call that drives it already.
LEMMA BeginLoopFits ==
  ASSUME EngineInv, NEW c \in Callers, pc[c] \in {"entering", "rereading"}, status = "RUNNING",
         BeginLoop(c), UNCHANGED <<row, stepRuns, retries, aborts>>
  PROVE  EngineInv'
<1>1. CallFits(c) /\ cursor \in 0..NumSteps /\ NumSteps \in Nat
  BY WorkflowAssumption DEF EngineInv, TypeOK
<1>2. /\ "stepping" \in Places /\ "RUNNING" \in Statuses /\ cursor + 1 \in 0..(NumSteps + 1)
      /\ 0 \in 0..MaxStepAttempts /\ 0 \in Nat /\ 0 \in 0..NumSteps
  BY <1>1, WorkflowAssumption DEF Places, Statuses, Looping
<1>3. Goto(c, "stepping") /\ SetLocals(c, cursor + 1, 0, 0, "RUNNING", 0)
  BY DEF BeginLoop, ResumeAt
<1>4. /\ CallsTyped' /\ OthersKeep(c)
      /\ pc'[c] = "stepping" /\ step'[c] = cursor + 1 /\ seen'[c] = "RUNNING"
  BY <1>2, <1>3, CallMoves, TypeParts DEF EngineInv
<1>5. RowTyped' /\ RowFits'
  BY DEF EngineInv, TypeOK, RowTyped, RowFits, NothingSkipped, GateHolds, row, stepRuns
<1>6. CallFits(c)'
  BY <1>1, <1>4 DEF CallFits, Looping, Approved, row
<1>7. Alone(c)
  BY DriverIsAlone DEF Driving
<1>. QED BY <1>4, <1>5, <1>6, <1>7, OneMoves DEF row, stepRuns

\* A call that ends writing nothing keeps the invariant.
LEMMA ReturnKeeps ==
  ASSUME EngineInv, NEW c \in Callers, Return(c), UNCHANGED <<row, stepRuns, retries>>,
         aborts' \in 0..MaxAborts
  PROVE  EngineInv'
<1>1. CallsTyped' /\ OthersKeep(c) /\ pc'[c] = "idle"
  BY CallReturns, TypeParts DEF EngineInv
<1>2. RowTyped' /\ RowFits'
  BY DEF EngineInv, TypeOK, RowTyped, RowFits, NothingSkipped, GateHolds, row, stepRuns
<1>3. CallFits(c)' /\ pc'[c] \notin Driving
  BY <1>1 DEF CallFits, Looping, Driving
<1>. QED BY <1>1, <1>2, <1>3, OneMoves

LEMMA EnterKeeps ==
  ASSUME EngineInv, NEW c \in Callers, Enter(c)
  PROVE  EngineInv'
<1>1. At(c, "entering") /\ UNCHANGED <<row, stepRuns, retries, aborts>> /\ CallFits(c)
  BY DEF Enter, EngineInv
<1>2. CASE status = "PENDING" /\ Continue(c, "claiming")
  <2>1. CallsTyped' /\ OthersKeep(c) /\ pc'[c] = "claiming"
    BY <1>2, CallContinues, TypeParts DEF EngineInv, Places, Looping
  <2>2. RowTyped' /\ RowFits'
    BY <1>1 DEF EngineInv, TypeOK, RowTyped, RowFits, NothingSkipped, GateHolds, row, stepRuns
  <2>3. CallFits(c)'
    BY <1>1, <1>2, <2>1 DEF CallFits, Looping, At, row
  <2>4. Alone(c)
    BY <1>1, DriverIsAlone DEF Driving, At
  <2>. QED BY <1>1, <2>1, <2>2, <2>3, <2>4, OneMoves DEF row, stepRuns
<1>3. CASE TakesUp /\ BeginLoop(c)
  BY <1>1, <1>3, BeginLoopFits DEF TakesUp, At
<1>4. CASE Return(c)
  BY <1>1, <1>4, ReturnKeeps DEF EngineInv, TypeOK
<1>. QED BY <1>2, <1>3, <1>4 DEF Enter

LEMMA ClaimKeeps ==
  ASSUME EngineInv, NEW c \in Callers, Claim(c)
  PROVE  EngineInv'
<1>1. /\ status = "PENDING" /\ status' = "RUNNING" /\ Continue(c, "rereading") /\ cursor = 0
      /\ pc[c] = "claiming" /\ UNCHANGED <<cursor, outcome, made, done, retries, aborts>>
  BY DEF Claim, EngineInv, CallFits, RowFits, At, stepRuns
<1>2. CallsTyped' /\ OthersKeep(c) /\ pc'[c] = "rereading"
  BY <1>1, CallContinues, TypeParts DEF EngineInv, Places, Looping
<1>3. RowTyped' /\ RowFits'
  BY <1>1 DEF EngineInv, TypeOK, RowTyped, RowFits, NothingSkipped, GateHolds, Statuses
<1>4. \A g \in Gates : g > 0 /\ g \in Nat
  BY WorkflowAssumption DEF Steps
<1>5. CallFits(c)'
  BY <1>1, <1>2, <1>4 DEF CallFits, Looping, Approved
<1>6. Alone(c)
  BY <1>1, DriverIsAlone DEF Driving
<1>. QED BY <1>1, <1>2, <1>3, <1>5, <1>6, OneMoves

LEMMA RereadKeeps ==
  ASSUME EngineInv, NEW c \in Callers, Reread(c)
  PROVE  EngineInv'
<1>1. pc[c] = "rereading" /\ UNCHANGED <<row, stepRuns, retries, aborts>>
  BY DEF Reread, At
<1>2. CASE TakesUp /\ BeginLoop(c)
  BY <1>1, <1>2, BeginLoopFits DEF TakesUp
<1>3. CASE Return(c)
  BY <1>1, <1>3, ReturnKeeps DEF EngineInv, TypeOK
<1>. QED BY <1>2, <1>3 DEF Reread

-------------------------------------------------------------------------------
\* The step loop: its call is alone, on a RUNNING row, one step past the cursor.
LEMMA LoopFacts ==
  ASSUME EngineInv, NEW c \in Callers, pc[c] \in Looping
  PROVE  /\ Alone(c) /\ CallFits(c) /\ status = "RUNNING" /\ seen[c] = "RUNNING"
         /\ NumSteps \in Nat /\ cursor \in 0..NumSteps /\ step[c] \in 0..(NumSteps + 1)
         /\ pc[c] # "gating" => step[c] = cursor + 1 /\ Approved
         /\ pc[c] # "stepping" => step[c] \in Steps
<1>1. Alone(c)
  BY DriverIsAlone DEF Driving
<1>. QED BY <1>1, WorkflowAssumption DEF EngineInv, CallFits, TypeOK

LEMMA NextStepKeeps ==
  ASSUME EngineInv, NEW c \in Callers, NextStep(c)
  PROVE  EngineInv'
<1>1. /\ pc[c] = "stepping" /\ step[c] <= NumSteps /\ pc[c] \in Looping
      /\ UNCHANGED <<row, stepRuns, retries, aborts>>
  BY DEF NextStep, At, Looping
<1>2. /\ Alone(c) /\ status = "RUNNING" /\ seen[c] = "RUNNING" /\ step[c] = cursor + 1 /\ Approved
      /\ step[c] \in Steps /\ step[c] \in 0..(NumSteps + 1)
  BY <1>1, LoopFacts DEF Steps
<1>3. made[step[c]] + 1 \in Nat
  BY <1>2 DEF EngineInv, TypeOK
<1>4. "creating" \in Places /\ "RUNNING" \in Statuses /\ 1 \in 0..MaxStepAttempts /\ 0 \in 0..NumSteps
  BY WorkflowAssumption DEF Places, Statuses, Looping
<1>5. Goto(c, "creating") /\ SetLocals(c, step[c], made[step[c]] + 1, 1, "RUNNING", 0)
  BY <1>2 DEF NextStep, FirstAttempt
<1>6. /\ CallsTyped' /\ OthersKeep(c) /\ pc'[c] = "creating" /\ step'[c] = step[c]
      /\ seen'[c] = "RUNNING" /\ attempt'[c] = made[step[c]] + 1
  BY <1>2, <1>3, <1>4, <1>5, CallMoves, TypeParts DEF EngineInv
<1>7. RowTyped' /\ RowFits'
  BY <1>1 DEF EngineInv, TypeOK, RowTyped, RowFits, NothingSkipped, GateHolds, row, stepRuns
<1>8. CallFits(c)'
  BY <1>1, <1>2, <1>6 DEF CallFits, Looping, Approved, row, stepRuns
<1>. QED BY <1>1, <1>2, <1>6, <1>7, <1>8, OneMoves DEF row, stepRuns

LEMMA FinishKeeps ==
  ASSUME EngineInv, NEW c \in Callers, Finish(c)
  PROVE  EngineInv'
<1>1. /\ pc[c] = "stepping" /\ step[c] > NumSteps /\ pc[c] \in Looping /\ Return(c)
      /\ UNCHANGED <<cursor, outcome, made, done, retries, aborts>>
  BY DEF Finish, At, Looping, stepRuns
<1>2. /\ Alone(c) /\ status = "RUNNING" /\ seen[c] = "RUNNING" /\ step[c] = cursor + 1
      /\ cursor \in 0..NumSteps /\ NumSteps \in Nat
  BY <1>1, LoopFacts
<1>3. status' = "COMPLETED"
  BY <1>2 DEF Finish, MayBecome, ValidTransition, NextStatuses, Statuses
<1>4. Steps \subseteq done
  <2>1. cursor = NumSteps
    BY <1>1, <1>2
  <2>. QED BY <1>2, <2>1 DEF EngineInv, RowFits, NothingSkipped, Steps
<1>5. RowTyped' /\ RowFits'
  BY <1>1, <1>2, <1>3, <1>4
  DEF EngineInv, TypeOK, RowTyped, RowFits, NothingSkipped, GateHolds, Statuses
<1>6. CallsTyped' /\ OthersKeep(c) /\ pc'[c] = "idle"
  BY <1>1, CallReturns, TypeParts DEF EngineInv
<1>7. CallFits(c)'
  BY <1>6 DEF CallFits, Looping
<1>. QED BY <1>1, <1>2, <1>5, <1>6, <1>7, OneMoves

LEMMA CreateStepRunKeeps ==
  ASSUME EngineInv, NEW c \in Callers, CreateStepRun(c)
  PROVE  EngineInv'
<1>1. pc[c] = "creating" /\ pc[c] \in Looping /\ UNCHANGED <<row, done, retries, aborts>>
  BY DEF CreateStepRun, At, Looping
<1>2. /\ Alone(c) /\ CallFits(c) /\ status = "RUNNING" /\ seen[c] = "RUNNING"
      /\ step[c] = cursor + 1 /\ Approved /\ step[c] \in Steps
  BY <1>1, LoopFacts
<1>3. attempt[c] = made[step[c]] + 1 /\ made[step[c]] \in Nat /\ attempt[c] \in Nat
  BY <1>1, <1>2 DEF CallFits, EngineInv, TypeOK
<1>4. made' = [made EXCEPT ![step[c]] = attempt[c]] /\ Continue(c, "handling")
  BY <1>3 DEF CreateStepRun
<1>5. /\ CallsTyped' /\ OthersKeep(c) /\ pc'[c] = "handling" /\ step'[c] = step[c]
      /\ attempt'[c] = attempt[c] /\ seen'[c] = seen[c]
  BY <1>2, <1>4, CallContinues, TypeParts DEF EngineInv, Places, Looping
<1>6. /\ made' \in [Steps -> Nat] /\ made'[step[c]] = attempt[c]
      /\ \A s \in Steps : s # step[c] => made'[s] = made[s]
  BY <1>2, <1>3, <1>4 DEF EngineInv, TypeOK
<1>7. GateHolds'
  <2>1. (\E g \in Gates, s \in Steps : g < s /\ made'[s] > 0) => outcome # "PENDING"
    <3>. SUFFICES ASSUME NEW g \in Gates, NEW s \in Steps, g < s, made'[s] > 0
                  PROVE  outcome # "PENDING"
      OBVIOUS
    <3>1. CASE s = step[c]
      BY <1>2, <3>1, WorkflowAssumption DEF Approved, Steps, EngineInv, TypeOK
    <3>2. CASE s # step[c]
      BY <1>6, <3>2 DEF EngineInv, RowFits, GateHolds
    <3>. QED BY <3>1, <3>2
  <2>. QED BY <2>1, <1>1 DEF EngineInv, RowFits, GateHolds, row
<1>8. RowTyped' /\ RowFits'
  BY <1>1, <1>6, <1>7 DEF EngineInv, TypeOK, RowTyped, RowFits, NothingSkipped, row
<1>9. CallFits(c)'
  BY <1>1, <1>2, <1>5, <1>6 DEF CallFits, Looping, Approved, row
<1>. QED BY <1>1, <1>2, <1>5, <1>8, <1>9, OneMoves DEF row

LEMMA HandlerSucceedsKeeps ==
  ASSUME EngineInv, NEW c \in Callers, HandlerSucceeds(c)
  PROVE  EngineInv'
<1>1. /\ pc[c] = "handling" /\ pc[c] \in Looping /\ UNCHANGED <<row, made, retries, aborts>>
      /\ done' = done \cup {step[c]} /\ Continue(c, "advancing")
  BY DEF HandlerSucceeds, At, Looping
<1>2. /\ Alone(c) /\ status = "RUNNING" /\ seen[c] = "RUNNING"
      /\ step[c] = cursor + 1 /\ Approved /\ step[c] \in Steps
  BY <1>1, LoopFacts
<1>3. /\ CallsTyped' /\ OthersKeep(c) /\ pc'[c] = "advancing" /\ step'[c] = step[c]
      /\ seen'[c] = seen[c]
  BY <1>1, <1>2, CallContinues, TypeParts DEF EngineInv, Places, Looping
<1>4. RowTyped' /\ RowFits'
  BY <1>1, <1>2 DEF EngineInv, TypeOK, RowTyped, RowFits, NothingSkipped, GateHolds, row
<1>5. CallFits(c)'
  BY <1>1, <1>2, <1>3 DEF CallFits, Looping, Approved, row
<1>. QED BY <1>1, <1>2, <1>3, <1>4, <1>5, OneMoves DEF row

LEMMA HandlerFailsKeeps ==
  ASSUME EngineInv, NEW c \in Callers, HandlerFails(c)
  PROVE  EngineInv'
<1>1. pc[c] = "handling" /\ pc[c] \in Looping /\ UNCHANGED <<row, stepRuns, retries, aborts>>
  BY DEF HandlerFails, At, Looping
<1>2. /\ Alone(c) /\ CallFits(c) /\ status = "RUNNING" /\ seen[c] = "RUNNING"
      /\ step[c] = cursor + 1 /\ Approved /\ step[c] \in Steps /\ step[c] \in 0..(NumSteps + 1)
  BY <1>1, LoopFacts
<1>3. RowTyped' /\ RowFits'
  BY <1>1 DEF EngineInv, TypeOK, RowTyped, RowFits, NothingSkipped, GateHolds, row, stepRuns
<1>4. CASE /\ local[c] < MaxStepAttempts /\ Goto(c, "creating")
           /\ SetLocals(c, step[c], attempt[c] + 1, local[c] + 1, seen[c], 0)
  <2>1. /\ attempt[c] = made[step[c]] /\ attempt[c] + 1 \in Nat
        /\ local[c] + 1 \in 0..MaxStepAttempts /\ seen[c] \in Statuses /\ 0 \in 0..NumSteps
    BY <1>1, <1>2, <1>4, WorkflowAssumption DEF CallFits, EngineInv, TypeOK
  <2>2. "creating" \in Places
    BY DEF Places, Looping
  <2>3. /\ CallsTyped' /\ OthersKeep(c) /\ pc'[c] = "creating" /\ step'[c] = step[c]
        /\ seen'[c] = seen[c] /\ attempt'[c] = attempt[c] + 1
    BY <1>2, <1>4, <2>1, <2>2, CallMoves, TypeParts DEF EngineInv
  <2>4. CallFits(c)'
    BY <1>1, <1>2, <2>1, <2>3 DEF CallFits, Looping, Approved, row, stepRuns
  <2>. QED BY <1>1, <1>2, <1>3, <2>3, <2>4, OneMoves DEF row, stepRuns
<1>5. CASE Continue(c, "failing")
  <2>1. /\ CallsTyped' /\ OthersKeep(c) /\ pc'[c] = "failing" /\ step'[c] = step[c]
        /\ seen'[c] = seen[c]
    BY <1>2, <1>5, CallContinues, TypeParts DEF EngineInv, Places, Looping
  <2>2. CallFits(c)'
    BY <1>1, <1>2, <2>1 DEF CallFits, Looping, Approved, row, stepRuns
  <2>. QED BY <1>1, <1>2, <1>3, <2>1, <2>2, OneMoves DEF row, stepRuns
<1>. QED BY <1>4, <1>5 DEF HandlerFails

LEMMA FailInstanceKeeps ==
  ASSUME EngineInv, NEW c \in Callers, FailInstance(c)
  PROVE  EngineInv'
<1>1. /\ pc[c] = "failing" /\ pc[c] \in Looping /\ Return(c)
      /\ status' = "FAILED" /\ cursor' = step[c]
      /\ UNCHANGED <<outcome, made, done, retries, aborts>>
  BY DEF FailInstance, At, Looping, stepRuns
<1>2. /\ Alone(c) /\ status = "RUNNING" /\ step[c] = cursor + 1 /\ Approved /\ step[c] \in Steps
      /\ NumSteps \in Nat /\ cursor \in 0..NumSteps
  BY <1>1, LoopFacts
<1>3. RowTyped'
  BY <1>1, <1>2 DEF EngineInv, TypeOK, RowTyped, Statuses, Steps
<1>4. (\A s \in Steps : s < cursor' => s \in done) /\ \A g \in Gates : g < cursor' => outcome # "PENDING"
  <2>1. \A s \in Steps : s \in Nat /\ (s < cursor' => s <= cursor)
    BY <1>1, <1>2 DEF Steps
  <2>2. \A s \in Steps : s <= cursor => s \in done
    BY <1>2, <2>1 DEF EngineInv, RowFits, NothingSkipped
  <2>. QED BY <1>2, <2>1, <2>2, WorkflowAssumption DEF Approved
<1>5. RowFits'
  BY <1>1, <1>2, <1>4 DEF EngineInv, RowFits, NothingSkipped, GateHolds
<1>6. CallsTyped' /\ OthersKeep(c) /\ pc'[c] = "idle"
  BY <1>1, CallReturns, TypeParts DEF EngineInv
<1>7. CallFits(c)'
  BY <1>6 DEF CallFits, Looping
<1>. QED BY <1>1, <1>2, <1>3, <1>5, <1>6, <1>7, OneMoves

LEMMA AdvanceKeeps ==
  ASSUME EngineInv, NEW c \in Callers, Advance(c)
  PROVE  EngineInv'
<1>1. /\ pc[c] = "advancing" /\ pc[c] \in Looping /\ cursor' = step[c]
      /\ UNCHANGED <<status, outcome, made, done, retries, aborts>>
  BY DEF Advance, At, Looping, stepRuns
<1>2. /\ Alone(c) /\ CallFits(c) /\ status = "RUNNING" /\ step[c] = cursor + 1 /\ Approved
      /\ step[c] \in Steps /\ step[c] \in done /\ step[c] \in 0..(NumSteps + 1)
      /\ NumSteps \in Nat /\ cursor \in 0..NumSteps
  BY <1>1, LoopFacts DEF CallFits
<1>3. /\ \A s \in Steps : s <= cursor' => s \in done
      /\ \A g \in Gates : g < cursor' => outcome # "PENDING"
  <2>1. \A s \in Steps : s \in Nat /\ (s < cursor' => s <= cursor) /\ (s <= cursor' => s <= cursor \/ s = step[c])
    BY <1>1, <1>2 DEF Steps
  <2>2. \A s \in Steps : s <= cursor => s \in done
    BY <1>2, <2>1 DEF EngineInv, RowFits, NothingSkipped
  <2>. QED BY <1>2, <2>1, <2>2, WorkflowAssumption DEF Approved
<1>4. RowTyped'
  BY <1>1, <1>2 DEF EngineInv, TypeOK, RowTyped, Steps
<1>5. RowFits'
  BY <1>1, <1>2, <1>3 DEF EngineInv, RowFits, NothingSkipped, GateHolds, Steps
<1>6. /\ "gating" \in Places /\ "stepping" \in Places /\ "RUNNING" \in Statuses /\ 0 \in Nat
      /\ 0 \in 0..MaxStepAttempts /\ 0 \in 0..NumSteps
  BY WorkflowAssumption DEF Places, Looping, Statuses
<1>7. CASE step[c] \in Gates
  <2>1. Goto(c, "gating") /\ SetLocals(c, step[c], 0, 0, "RUNNING", 0)
    BY <1>2, <1>7 DEF Advance, AsksApproval
  <2>2. /\ CallsTyped' /\ OthersKeep(c) /\ pc'[c] = "gating" /\ step'[c] = step[c]
        /\ seen'[c] = "RUNNING"
    BY <1>2, <1>6, <2>1, CallMoves, TypeParts DEF EngineInv
  <2>3. CallFits(c)'
    BY <1>1, <1>2, <2>2 DEF CallFits, Looping
  <2>. QED BY <1>1, <1>2, <1>4, <1>5, <2>2, <2>3, OneMoves
<1>8. CASE step[c] \notin Gates
  <2>1. Goto(c, "stepping") /\ SetLocals(c, step[c] + 1, 0, 0, "RUNNING", 0)
    BY <1>2, <1>8 DEF Advance, AsksApproval
  <2>2. step[c] + 1 \in 0..(NumSteps + 1)
    BY <1>2 DEF Steps
  <2>3. /\ CallsTyped' /\ OthersKeep(c) /\ pc'[c] = "stepping" /\ step'[c] = step[c] + 1
        /\ seen'[c] = "RUNNING"
    BY <1>2, <1>6, <2>1, <2>2, CallMoves, TypeParts DEF EngineInv
  <2>4. \A g \in Gates : g <= cursor' => g <= cursor
    <3>1. \A g \in Gates : g \in Nat /\ g # step[c]
      BY <1>8, WorkflowAssumption DEF Steps
    <3>. QED BY <1>1, <1>2, <3>1
  <2>5. CallFits(c)'
    BY <1>1, <1>2, <2>3, <2>4 DEF CallFits, Looping, Approved
  <2>. QED BY <1>1, <1>2, <1>4, <1>5, <2>3, <2>5, OneMoves
<1>. QED BY <1>7, <1>8

LEMMA AwaitApprovalKeeps ==
  ASSUME EngineInv, NEW c \in Callers, AwaitApproval(c)
  PROVE  EngineInv'
<1>1. /\ pc[c] = "gating" /\ pc[c] \in Looping /\ Return(c)
      /\ UNCHANGED <<cursor, outcome, made, done, retries, aborts>>
  BY DEF AwaitApproval, At, Looping, stepRuns
<1>2. Alone(c) /\ status = "RUNNING" /\ seen[c] = "RUNNING"
  BY <1>1, LoopFacts
<1>3. status' = "AWAITING_APPROVAL"
  BY <1>2 DEF AwaitApproval, MayBecome, ValidTransition, NextStatuses, Statuses
<1>4. RowTyped' /\ RowFits'
  BY <1>1, <1>2, <1>3 DEF EngineInv, TypeOK, RowTyped, RowFits, NothingSkipped, GateHolds, Statuses
<1>5. CallsTyped' /\ OthersKeep(c) /\ pc'[c] = "idle"
  BY <1>1, CallReturns, TypeParts DEF EngineInv
<1>6. CallFits(c)'
  BY <1>5 DEF CallFits, Looping
<1>. QED BY <1>1, <1>2, <1>4, <1>5, <1>6, OneMoves

-------------------------------------------------------------------------------
\* The reviewers: their claims meet an instance at rest.
LEMMA ApproveKeeps ==
  ASSUME EngineInv, NEW c \in Callers, Approve(c)
  PROVE  EngineInv'
<1>1. /\ status = "AWAITING_APPROVAL" /\ status' = "RUNNING" /\ outcome' = "ACCEPTED"
      /\ Continue(c, "entering") /\ UNCHANGED <<cursor, made, done, retries, aborts>>
  BY DEF Approve, ApproveHits, stepRuns
<1>2. CallsTyped' /\ OthersKeep(c) /\ pc'[c] = "entering"
  BY <1>1, CallContinues, TypeParts DEF EngineInv, Places, Looping
<1>3. RowTyped' /\ RowFits'
  BY <1>1 DEF EngineInv, TypeOK, RowTyped, RowFits, NothingSkipped, GateHolds, Statuses
<1>4. CallFits(c)'
  BY <1>1, <1>2 DEF CallFits, Looping, Approved
<1>5. Alone(c)
  BY <1>1, RestIsAlone
<1>. QED BY <1>1, <1>2, <1>3, <1>4, <1>5, OneMoves

LEMMA RejectKeeps ==
  ASSUME EngineInv, NEW c \in Callers, Reject(c)
  PROVE  EngineInv'
<1>1. /\ status = "AWAITING_APPROVAL" /\ status' = "CANCELLED" /\ outcome' = "DISMISSED"
      /\ UNCHANGED <<cursor, made, done, pc, step, attempt, local, seen, rewind, retries, aborts>>
      /\ pc[c] = "idle"
  BY DEF Reject, RejectHits, At, stepRuns, callVars
<1>2. CallsTyped' /\ OthersKeep(c)
  BY <1>1, TypeParts DEF EngineInv, CallsTyped, OthersKeep
<1>3. RowTyped' /\ RowFits'
  BY <1>1 DEF EngineInv, TypeOK, RowTyped, RowFits, NothingSkipped, GateHolds, Statuses
<1>4. CallFits(c)'
  BY <1>1 DEF CallFits, Looping
<1>5. Alone(c)
  BY <1>1, RestIsAlone
<1>. QED BY <1>1, <1>2, <1>3, <1>4, <1>5, OneMoves

LEMMA RetryReadKeeps ==
  ASSUME EngineInv, NEW c \in Callers, RetryRead(c)
  PROVE  EngineInv'
<1>1. /\ Goto(c, "retrying") /\ SetLocals(c, 0, 0, 0, "ABSENT", RewindTo(c))
      /\ UNCHANGED <<row, stepRuns, retries, aborts>>
  BY DEF RetryRead
<1>2. cursor \in 0..NumSteps /\ NumSteps \in Nat
  BY WorkflowAssumption DEF EngineInv, TypeOK
<1>3. /\ "retrying" \in Places \ Looping /\ "ABSENT" \in Statuses /\ 0 \in Nat
      /\ 0 \in 0..MaxStepAttempts /\ 0 \in 0..(NumSteps + 1)
  BY <1>2, WorkflowAssumption DEF Places, Looping, Statuses
<1>4. RewindTo(c) \in 0..NumSteps /\ \A s \in Steps : s <= RewindTo(c) => s < cursor
  BY <1>2 DEF RewindTo, Steps
<1>5. CallsTyped' /\ OthersKeep(c) /\ pc'[c] = "retrying" /\ rewind'[c] = RewindTo(c)
  BY <1>1, <1>3, <1>4, CallMoves, TypeParts DEF EngineInv
<1>6. RowTyped' /\ RowFits'
  BY <1>1 DEF EngineInv, TypeOK, RowTyped, RowFits, NothingSkipped, GateHolds, row, stepRuns
<1>7. \A s \in Steps : s <= rewind'[c] => s \in done /\ (s \in Gates => outcome # "PENDING")
  BY <1>4, <1>5 DEF EngineInv, RowFits, NothingSkipped
<1>8. CallFits(c)' /\ pc'[c] \notin Driving
  BY <1>1, <1>5, <1>7 DEF CallFits, Looping, Driving, row, stepRuns
<1>. QED BY <1>1, <1>5, <1>6, <1>8, OneMoves

LEMMA RetryClaimKeeps ==
  ASSUME EngineInv, NEW c \in Callers, RetryClaim(c)
  PROVE  EngineInv'
<1>1. pc[c] = "retrying" /\ CallFits(c) /\ UNCHANGED <<outcome, made, done, aborts>>
  BY DEF RetryClaim, At, EngineInv, stepRuns
<1>2. CASE /\ RetryHits(c) /\ retries < MaxRetries
           /\ status' = "RETRYING" /\ cursor' = rewind[c] /\ retries' = retries + 1
           /\ Continue(c, "reviving")
  <2>1. status = "FAILED" /\ Alone(c)
    BY <1>2, RestIsAlone DEF RetryHits
  <2>2. \A s \in Steps : s <= cursor' => s \in done /\ (s \in Gates => outcome # "PENDING")
    BY <1>1, <1>2 DEF CallFits
  <2>3. CallsTyped' /\ OthersKeep(c) /\ pc'[c] = "reviving"
    BY <1>2, CallContinues, TypeParts DEF EngineInv, Places, Looping
  <2>4. RowTyped'
    BY <1>1, <1>2, WorkflowAssumption DEF EngineInv, TypeOK, RowTyped, Statuses
  <2>5. /\ \A s \in Steps : s \in Nat /\ (s < cursor' \/ s = cursor' => s <= cursor')
        /\ \A g \in Gates : g \in Steps
    BY <2>4, WorkflowAssumption DEF Steps, RowTyped
  <2>6. RowFits'
    BY <1>1, <1>2, <2>1, <2>2, <2>5 DEF EngineInv, RowFits, NothingSkipped, GateHolds
  <2>7. CallFits(c)'
    BY <1>1, <1>2, <2>2, <2>3, <2>5 DEF CallFits, Looping, Approved
  <2>. QED BY <1>1, <2>1, <2>3, <2>4, <2>6, <2>7, OneMoves
<1>3. CASE Return(c) /\ UNCHANGED <<status, cursor, retries>>
  BY <1>1, <1>3, ReturnKeeps DEF EngineInv, TypeOK, row, stepRuns
<1>. QED BY <1>2, <1>3 DEF RetryClaim

LEMMA ReviveKeeps ==
  ASSUME EngineInv, NEW c \in Callers, Revive(c)
  PROVE  EngineInv'
<1>1. /\ pc[c] = "reviving" /\ status = "RETRYING" /\ Approved /\ status' = "RUNNING"
      /\ Continue(c, "entering") /\ UNCHANGED <<cursor, outcome, made, done, retries, aborts>>
  BY DEF Revive, At, EngineInv, CallFits, stepRuns
<1>2. CallsTyped' /\ OthersKeep(c) /\ pc'[c] = "entering"
  BY <1>1, CallContinues, TypeParts DEF EngineInv, Places, Looping
<1>3. RowTyped' /\ RowFits'
  BY <1>1 DEF EngineInv, TypeOK, RowTyped, RowFits, NothingSkipped, GateHolds, Statuses
<1>4. CallFits(c)'
  BY <1>1, <1>2 DEF CallFits, Looping, Approved
<1>5. Alone(c)
  BY <1>1, DriverIsAlone DEF Driving
<1>. QED BY <1>1, <1>2, <1>3, <1>4, <1>5, OneMoves

LEMMA AbortKeeps ==
  ASSUME EngineInv, NEW c \in Callers, Abort(c)
  PROVE  EngineInv'
  BY ReturnKeeps, WorkflowAssumption DEF Abort, EngineInv, TypeOK

-------------------------------------------------------------------------------
LEMMA InitInvariant == Init => EngineInv
<1>. SUFFICES ASSUME Init PROVE EngineInv
  OBVIOUS
<1>1. NumSteps \in Nat /\ Gates \subseteq Steps /\ \A s \in Steps : s \in Nat /\ s > 0
  BY WorkflowAssumption DEF Steps
<1>2. TypeOK
  BY <1>1, WorkflowAssumption DEF Init, TypeOK, Statuses, Places, Looping
<1>3. OneDriver /\ \A c \in Callers : CallFits(c)
  BY DEF Init, OneDriver, Driving, Looping, CallFits
<1>4. RowFits
  BY <1>1 DEF Init, RowFits, NothingSkipped, GateHolds
<1>. QED BY <1>2, <1>3, <1>4 DEF EngineInv

LEMMA NextInvariant ==
  ASSUME OneStarter
  PROVE  EngineInv /\ [Next]_vars => EngineInv'
<1>. SUFFICES ASSUME EngineInv, [Next]_vars PROVE EngineInv'
  OBVIOUS
<1>1. ASSUME NEW c \in Starters, StartLook(c) PROVE EngineInv'
  BY <1>1, StartLookKeeps
<1>2. ASSUME NEW c \in Reviewers, Approve(c) \/ Reject(c) \/ RetryRead(c) PROVE EngineInv'
  BY <1>2, ApproveKeeps, RejectKeeps, RetryReadKeeps DEF Callers
<1>3. ASSUME NEW c \in Callers, Proceed(c) PROVE EngineInv'
  BY <1>3, CreateInstanceKeeps, EnterKeeps, ClaimKeeps, RereadKeeps, NextStepKeeps, FinishKeeps,
     CreateStepRunKeeps, HandlerSucceedsKeeps, HandlerFailsKeeps, FailInstanceKeeps, AdvanceKeeps,
     AwaitApprovalKeeps, RetryClaimKeeps, ReviveKeeps
  DEF Proceed
<1>4. ASSUME NEW c \in Callers, Abort(c) PROVE EngineInv'
  BY <1>4, AbortKeeps
<1>5. CASE UNCHANGED vars
  BY <1>5
  DEF vars, row, stepRuns, callVars, EngineInv, TypeOK, OneDriver, RowFits, NothingSkipped, GateHolds,
      CallFits, Approved
<1>. QED BY <1>1, <1>2, <1>3, <1>4, <1>5 DEF Next

\* What the invariant says of the properties.
LEMMA EngineSays == EngineInv => TypeOK /\ SoleExecutor /\ StepsInOrder /\ RestIsQuiet
<1>1. EngineInv => SoleExecutor
  BY DEF EngineInv, OneDriver, SoleExecutor, Driving
<1>2. EngineInv => StepsInOrder
  BY DEF EngineInv, RowFits, StepsInOrder, AttemptIsFresh, CallFits, At
<1>3. EngineInv => TypeOK /\ RestIsQuiet
  BY DEF EngineInv, CallFits, RestIsQuiet
<1>. QED BY <1>1, <1>2, <1>3

\* The inductive invariant holds in every reachable state.
THEOREM Invariant == ASSUME OneStarter PROVE Spec => []EngineInv
  BY InitInvariant, NextInvariant, PTL DEF Spec

\* The row, the step runs and the locals of the calls stay well-typed.
THEOREM TypeCorrect == ASSUME OneStarter PROVE Spec => []TypeOK
  BY EngineSays, Invariant, PTL

\* One call at a time executes the steps of the instance, whoever approves, rejects, retries
\* or dies (runToNextGate, lines 192-199).
THEOREM ExecutionIsExclusive == ASSUME OneStarter PROVE Spec => []SoleExecutor
  BY EngineSays, Invariant, PTL

\* Steps are run in order, behind their gates and under fresh numbers, through any number of
\* failures, retries and calls cut short.
THEOREM OrderIsKept == ASSUME OneStarter PROVE Spec => []StepsInOrder
  BY EngineSays, Invariant, PTL

\* The unconditional writes of the step loop meet a RUNNING row: no step of a call takes the
\* status off VALID_TRANSITIONS.
LEMMA StepsAreLegal ==
  ASSUME EngineInv, [Next]_vars
  PROVE  status' # status => status' \in NextStatuses[status]
<1>. SUFFICES ASSUME status' # status PROVE status' \in NextStatuses[status]
  OBVIOUS
<1>. USE DEF NextStatuses, Statuses
<1>1. ASSUME NEW c \in Reviewers, Approve(c) \/ Reject(c) PROVE status' \in NextStatuses[status]
  BY <1>1 DEF Approve, ApproveHits, Reject, RejectHits
<1>2. ASSUME NEW c \in Callers, CreateInstance(c) \/ Claim(c) \/ RetryClaim(c) \/ Revive(c)
      PROVE  status' \in NextStatuses[status]
  BY <1>2 DEF CreateInstance, Claim, RetryClaim, RetryHits, Revive
<1>3. ASSUME NEW c \in Callers, Finish(c) \/ FailInstance(c) \/ AwaitApproval(c)
      PROVE  status' \in NextStatuses[status]
  <2>1. status = "RUNNING"
    BY <1>3, LoopFacts DEF Finish, FailInstance, AwaitApproval, At, Looping
  <2>. QED BY <1>3, <2>1 DEF Finish, FailInstance, AwaitApproval
<1>4. CASE /\ ~ \E c \in Reviewers : Approve(c) \/ Reject(c)
           /\ ~ \E c \in Callers : CreateInstance(c) \/ Claim(c) \/ RetryClaim(c) \/ Revive(c)
                                   \/ Finish(c) \/ FailInstance(c) \/ AwaitApproval(c)
  BY <1>4
  DEF Next, Proceed, StartLook, RetryRead, Enter, Reread, NextStep, CreateStepRun, HandlerSucceeds,
      HandlerFails, Advance, Abort, vars, row
<1>. QED BY <1>1, <1>2, <1>3, <1>4

\* No write of the step loop overwrites what somebody else decided about the instance.
THEOREM NothingIsOverwritten == ASSUME OneStarter PROVE Spec => OverwritesNothing
<1>1. EngineInv /\ [Next]_vars => [status' # status => status' \in NextStatuses[status]]_vars
  BY StepsAreLegal
<1>. QED BY <1>1, EngineSays, Invariant, PTL DEF Spec, OverwritesNothing, LegalTransitions

\* Some numbers have a least.
LEMMA Least ==
  ASSUME NEW T \in SUBSET Nat, T # {}
  PROVE  \E x \in T : \A y \in T : x <= y
<1>1. \E x \in T : \A y \in T : ~ (<<y, x>> \in OpToRel(<, Nat))
  BY WFMin, NatLessThanWellFounded, Zenon
<1>2. PICK x \in T : \A y \in T : ~ (y < x)
  BY <1>1 DEF OpToRel
<1>. QED BY <1>2

(***************************************************************************)
(* The plan.                                                               *)
(***************************************************************************)
\* What upserting all items of a calendar does: the last item of a slot decides.
RowsFor(cal, k, s) == {m \in 1..k : cal[m].slot = s}
LastFor(cal, k, s) == CHOOSE m \in RowsFor(cal, k, s) : \A j \in RowsFor(cal, k, s) : j <= m
Written(a, i) == IF a = NotYet THEN Drafted(i) ELSE Refreshed(a, i)
After(as, cal, k) ==
  [s \in Slots |-> IF RowsFor(cal, k, s) = {} THEN as[s] ELSE Written(as[s], cal[LastFor(cal, k, s)])]
AreAssets(as) ==
  as = [s \in Slots |-> as[s]] /\ \A s \in Slots : as[s] = NotYet \/ as[s] \in ContentAssets

LEMMA DraftedIs ==
  ASSUME NEW i \in Items
  PROVE  /\ Drafted(i) \in ContentAssets /\ Drafted(i).edited = FALSE /\ Drafted(i).status = "DRAFT"
         /\ Drafted(i).pillar = i.pillar /\ Drafted(i).caption = i.caption
<1>1. i.pillar \in PillarKeys /\ i.caption \in {"text", "blank"}
  BY DEF Items
<1>. QED BY <1>1 DEF Drafted, ContentAssets, ReviewStatuses

LEMMA WrittenIs ==
  ASSUME NEW a, a = NotYet \/ a \in ContentAssets, NEW i \in Items
  PROVE  /\ Written(a, i) \in ContentAssets /\ Written(a, i) # NotYet
         /\ Written(a, i).pillar = i.pillar /\ Written(a, i).caption = i.caption
         /\ a # NotYet => Written(a, i).edited = a.edited /\ Written(a, i).status = a.status
<1>1. CASE a = NotYet
  <2>1. Written(a, i) = Drafted(i)
    BY <1>1 DEF Written
  <2>. QED BY <1>1, <2>1, DraftedIs, NotYetAssumption
<1>2. CASE a # NotYet
  BY <1>2, NotYetAssumption DEF Written, Refreshed, ContentAssets, Items, ReviewStatuses
<1>. QED BY <1>1, <1>2

LEMMA WrittenTwice ==
  ASSUME NEW a, a = NotYet \/ a \in ContentAssets, NEW i \in Items, NEW j \in Items
  PROVE  Written(Written(a, i), j) = Written(a, j)
<1>1. Written(a, i) # NotYet
  BY WrittenIs
<1>2. CASE a = NotYet
  <2>1. Written(a, i) = Drafted(i) /\ Written(a, j) = Drafted(j)
    BY <1>2 DEF Written
  <2>2. Refreshed(Drafted(i), j) = Drafted(j)
    <3>. DEFINE r == Drafted(i)
                q == Refreshed(r, j)
    <3>1. r \in ContentAssets /\ r.edited = FALSE /\ r.status = "DRAFT"
      BY DraftedIs
    <3>2. q \in ContentAssets /\ q.pillar = j.pillar /\ q.caption = j.caption
          /\ q.edited = r.edited /\ q.status = r.status
      <4>1. j.pillar \in PillarKeys /\ j.caption \in {"text", "blank"}
        BY DEF Items
      <4>. HIDE DEF r
      <4>. QED BY <3>1, <4>1 DEF Refreshed, ContentAssets
    <3>3. Drafted(j) \in ContentAssets /\ Drafted(j).edited = FALSE /\ Drafted(j).status = "DRAFT"
          /\ Drafted(j).pillar = j.pillar /\ Drafted(j).caption = j.caption
      BY DraftedIs
    <3>4. \A x, y \in ContentAssets :
            x.pillar = y.pillar /\ x.caption = y.caption /\ x.edited = y.edited /\ x.status = y.status
              => x = y
      BY DEF ContentAssets
    <3>. HIDE DEF q, r
    <3>5. q = Drafted(j)
      BY <3>1, <3>2, <3>3, <3>4
    <3>. QED BY <3>5 DEF q, r
  <2>. QED BY <1>1, <2>1, <2>2 DEF Written
<1>3. CASE a # NotYet
  BY <1>1, <1>3 DEF Written, Refreshed, ContentAssets
<1>. QED BY <1>2, <1>3

\* Some numbers up to n have a greatest.
LEMMA Greatest ==
  ASSUME NEW n \in Nat, NEW S \in SUBSET (1..n), S # {}
  PROVE  \E m \in S : \A j \in S : j <= m
<1>. DEFINE Down == {k \in Nat : n - k \in S}
<1>1. Down # {}
  <2>1. PICK m \in S : TRUE
    OBVIOUS
  <2>2. n - m \in Nat /\ n - (n - m) = m
    OBVIOUS
  <2>. QED BY <2>1, <2>2
<1>2. PICK k \in Down : \A j \in Down : k <= j
  BY <1>1, Least
<1>3. ASSUME NEW j \in S PROVE j <= n - k
  <2>1. n - j \in Down
    OBVIOUS
  <2>2. k <= n - j
    BY <1>2, <2>1
  <2>. QED BY <2>2
<1>. QED BY <1>2, <1>3

LEMMA LastIs ==
  ASSUME NEW cal, NEW k \in Nat, NEW s, RowsFor(cal, k, s) # {}
  PROVE  /\ LastFor(cal, k, s) \in 1..k /\ cal[LastFor(cal, k, s)].slot = s
         /\ \A j \in 1..k : cal[j].slot = s => j <= LastFor(cal, k, s)
<1>1. \E m \in RowsFor(cal, k, s) : \A j \in RowsFor(cal, k, s) : j <= m
  <2>1. RowsFor(cal, k, s) \in SUBSET (1..k)
    BY DEF RowsFor
  <2>. QED BY <2>1, Greatest
<1>2. /\ LastFor(cal, k, s) \in RowsFor(cal, k, s)
      /\ \A j \in RowsFor(cal, k, s) : j <= LastFor(cal, k, s)
  BY <1>1 DEF LastFor
<1>. QED BY <1>2 DEF RowsFor

LEMMA AfterOneMore ==
  ASSUME NEW as, AreAssets(as), NEW cal \in Seq(Items), NEW k \in 1..Len(cal)
  PROVE  After(as, cal, k) = Upserted(After(as, cal, k - 1), cal[k])
<1>. DEFINE A == After(as, cal, k - 1)
            i == cal[k]
<1>1. i \in Items /\ i.slot \in Slots /\ k \in Nat /\ k - 1 \in Nat
  <2>1. cal[k] \in Items /\ k \in Nat /\ k >= 1
    OBVIOUS
  <2>. QED BY <2>1 DEF Items
<1>2. A = [s \in Slots |-> A[s]]
  BY DEF After
<1>3. Upserted(A, i) = [s \in Slots |-> IF s = i.slot THEN Written(A[s], i) ELSE A[s]]
  <2>. HIDE DEF A
  <2>. QED BY <1>2 DEF Upserted, Written
<1>4. ASSUME NEW s \in Slots
      PROVE  After(as, cal, k)[s] = IF s = i.slot THEN Written(A[s], i) ELSE A[s]
  <2>1. CASE s # i.slot
    <3>1. RowsFor(cal, k, s) = RowsFor(cal, k - 1, s)
      BY <1>1, <2>1 DEF RowsFor
    <3>2. LastFor(cal, k, s) = LastFor(cal, k - 1, s)
      BY <3>1 DEF LastFor
    <3>. QED BY <2>1, <3>1, <3>2 DEF After
  <2>2. CASE s = i.slot
    <3>1. k \in RowsFor(cal, k, s)
      BY <1>1, <2>2 DEF RowsFor
    <3>2. LastFor(cal, k, s) = k
      BY <1>1, <2>2, <3>1, LastIs
    <3>3. After(as, cal, k)[s] = Written(as[s], i)
      BY <3>1, <3>2 DEF After
    <3>4. Written(A[s], i) = Written(as[s], i)
      <4>1. CASE RowsFor(cal, k - 1, s) = {}
        BY <4>1 DEF After
      <4>2. CASE RowsFor(cal, k - 1, s) # {}
        <5>. DEFINE j == cal[LastFor(cal, k - 1, s)]
                    a == as[s]
        <5>1. j \in Items
          BY <1>1, <4>2, LastIs
        <5>2. A[s] = Written(a, j)
          BY <4>2 DEF After
        <5>3. a = NotYet \/ a \in ContentAssets
          BY DEF AreAssets
        <5>. HIDE DEF A, i, j, a
        <5>4. Written(Written(a, j), i) = Written(a, i)
          BY <1>1, <5>1, <5>3, WrittenTwice
        <5>. QED BY <5>2, <5>4 DEF a
      <4>. QED BY <4>1, <4>2
    <3>. QED BY <2>2, <3>3, <3>4
  <2>. QED BY <2>1, <2>2
<1>5. After(as, cal, k) = [s \in Slots |-> After(as, cal, k)[s]]
  BY DEF After
<1>. HIDE DEF A, i
<1>6. After(as, cal, k) = [s \in Slots |-> IF s = i.slot THEN Written(A[s], i) ELSE A[s]]
  BY <1>4, <1>5
<1>. QED BY <1>3, <1>6 DEF A, i

\* The upserts one after the other come to that.
UpsertsOf(as, cal, f) ==
  f = [n \in 0..Len(cal) |-> IF n = 0 THEN as ELSE Upserted(f[n - 1], cal[n])]

LEMMA AllUpsertedIs ==
  ASSUME NEW as, AreAssets(as), NEW cal \in Seq(Items)
  PROVE  AllUpserted(as, cal) = After(as, cal, Len(cal))
<1>. DEFINE g == [n \in 0..Len(cal) |-> After(as, cal, n)]
<1>0. Len(cal) \in Nat
  OBVIOUS
<1>1. After(as, cal, 0) = as
  <2>1. \A s \in Slots : RowsFor(cal, 0, s) = {}
    BY DEF RowsFor
  <2>. QED BY <2>1 DEF After, AreAssets
<1>2. UpsertsOf(as, cal, g)
  <2>1. ASSUME NEW n \in 0..Len(cal)
        PROVE  g[n] = IF n = 0 THEN as ELSE Upserted(g[n - 1], cal[n])
    <3>1. CASE n = 0
      BY <1>1, <3>1
    <3>2. CASE n # 0
      <4>1. n \in 1..Len(cal) /\ n - 1 \in 0..Len(cal)
        BY <1>0, <3>2
      <4>2. g[n] = After(as, cal, n) /\ g[n - 1] = After(as, cal, n - 1)
        BY <4>1
      <4>. QED BY <3>2, <4>1, <4>2, AfterOneMore
    <3>. QED BY <3>1, <3>2
  <2>2. g = [n \in 0..Len(cal) |-> g[n]]
    OBVIOUS
  <2>. HIDE DEF g
  <2>. QED BY <2>1, <2>2 DEF UpsertsOf
<1>. DEFINE a == CHOOSE f : UpsertsOf(as, cal, f)
<1>3. UpsertsOf(as, cal, a)
  BY <1>2
<1>4. AllUpserted(as, cal) = a[Len(cal)]
  BY DEF AllUpserted, UpsertsOf
<1>. DEFINE T == {n \in Nat : n <= Len(cal) /\ a[n] # g[n]}
<1>5. ASSUME T # {} PROVE FALSE
  <2>0. T \in SUBSET Nat
    OBVIOUS
  <2>1. PICK n \in T : \A m \in T : n <= m
    <3>. HIDE DEF T
    <3>. QED BY <1>5, <2>0, Least
  <2>2. \A m \in 0..Len(cal) : /\ a[m] = IF m = 0 THEN as ELSE Upserted(a[m - 1], cal[m])
                               /\ g[m] = IF m = 0 THEN as ELSE Upserted(g[m - 1], cal[m])
    <3>. HIDE DEF a, g
    <3>. QED BY <1>2, <1>3 DEF UpsertsOf
  <2>. HIDE DEF a, g
  <2>3. n # 0 /\ n \in 0..Len(cal)
    <3>1. n \in Nat /\ n <= Len(cal) /\ a[n] # g[n]
      BY <2>1
    <3>2. n \in 0..Len(cal)
      BY <1>0, <3>1
    <3>. QED BY <2>2, <3>1, <3>2
  <2>4. n - 1 \in Nat /\ n - 1 <= Len(cal) /\ n - 1 \notin T
    BY <1>0, <2>1, <2>3
  <2>5. a[n - 1] = g[n - 1]
    BY <2>4
  <2>. QED BY <2>1, <2>2, <2>3, <2>5
<1>6. a[Len(cal)] = g[Len(cal)]
  <2>. HIDE DEF a, g
  <2>. QED BY <1>0, <1>5
<1>7. g[Len(cal)] = After(as, cal, Len(cal))
  BY <1>0
<1>. HIDE DEF a, g
<1>. QED BY <1>4, <1>6, <1>7

\* What the place of the call says of the plan.
PlanFits ==
  /\ plan.status # "RUNNING" => plan.place = "begin"
  /\ plan.status \in {"AWAITING_APPROVAL", "COMPLETED"} => plan.step = 7
  /\ outputs = [s \in PlanSteps |-> outputs[s]]
\* Once a calendar is validated, an asset holds what its last item says, and every item
\* has one once they are all written.
LastItem(s) == outputs[4][LastFor(outputs[4], Len(outputs[4]), s)]
AssetsAreWritten ==
  /\ AreAssets(assets)
  /\ plan.step > 5 => FitsPillars(outputs[4], outputs[3])
  /\ \A s \in Slots : assets[s] # NotYet =>
       /\ plan.step > 5 /\ RowsFor(outputs[4], Len(outputs[4]), s) # {}
       /\ assets[s].pillar = LastItem(s).pillar /\ assets[s].caption = LastItem(s).caption
  /\ plan.step = 7 \/ plan.place = "event" => \A i \in ItemsOf(outputs[4]) : assets[i.slot] # NotYet
PatchesFit ==
  /\ patch = [e \in Editors |-> patch[e]]
  /\ \A e \in Editors : patch[e] # NotYet => assets[patch[e].slot] # NotYet
\* What was passed was charged, what was charged was answered, and it adds up.
StepsPaid ==
  /\ \A s \in AISteps :
       /\ s < plan.step \/ (s = plan.step /\ plan.place = "alert") => charged[s] >= 1
       /\ charged[s] <= metered[s]
       /\ s = plan.step /\ plan.place = "charge" => charged[s] < metered[s]
  /\ credits + charged[2] * Cost[2] + charged[3] * Cost[3] + charged[4] * Cost[4] = Credits
\* The inductive invariant.
PlanInv == PlanTypeOK /\ PlanFits /\ AssetsAreWritten /\ PatchesFit /\ StepsPaid

Plans == [status : {"RUNNING", "FAILED", "AWAITING_APPROVAL", "COMPLETED"}, step : PlanSteps,
          place : {"begin", "ask", "charge", "alert", "event", "gone"}, try : 1..MaxTries]

LEMMA CalendarIs ==
  ASSUME NEW cal \in Calendars
  PROVE  cal \in Seq(Items) /\ DOMAIN cal = 1..Len(cal)
<1>1. PICK n \in 1..MaxItems : cal \in [1..n -> Items]
  BY DEF Calendars
<1>2. n \in Nat
  BY <1>1, ContentPlanAssumption
<1>. QED BY <1>1, <1>2

\* The plan's own part of the type invariant.
PlanPart ==
  /\ plan \in Plans
  /\ plan.place \in {"ask", "charge", "alert"} => plan.step \in AISteps
  /\ answer \in IF plan.place \in {"charge", "alert"} THEN OutputOf(plan.step) ELSE {NotYet}
  /\ plan.place = "event" => plan.step = 6
  /\ \A s \in 1..6 : outputs[s] \in IF s < plan.step THEN OutputOf(s) ELSE {NotYet}
  /\ outputs[7] \in {NotYet, "done"}
  /\ PlanFits

LEMMA PlanStarts == PlanInit => PlanInv
<1>. SUFFICES ASSUME PlanInit PROVE PlanInv
  OBVIOUS
<1>1. /\ plan \in Plans /\ plan.step = 1 /\ plan.place = "begin" /\ plan.status = "RUNNING"
  BY ContentPlanAssumption DEF PlanInit, Plans, PlanSteps
<1>2. PlanTypeOK
  BY <1>1, ContentPlanAssumption DEF PlanInit, PlanTypeOK, Plans, PlanSteps, AISteps
<1>3. AssetsAreWritten
  BY <1>1 DEF PlanInit, AssetsAreWritten, AreAssets
<1>4. StepsPaid
  BY <1>1, ContentPlanAssumption DEF PlanInit, StepsPaid, AISteps
<1>. QED BY <1>1, <1>2, <1>3, <1>4 DEF PlanInit, PlanInv, PlanFits, PatchesFit

LEMMA PlanTypes ==
  ASSUME PlanInv
  PROVE  /\ PlanPart /\ plan.step \in 1..7 /\ plan.try \in 1..MaxTries
         /\ credits \in Nat /\ credits <= Credits /\ Credits \in Nat
         /\ charged \in [AISteps -> Nat] /\ metered \in [AISteps -> Nat] /\ Cost \in [AISteps -> Nat]
         /\ plan.step > 4 => outputs[4] \in Seq(Items) /\ DOMAIN outputs[4] = 1..Len(outputs[4])
<1>1. PlanPart
  BY DEF PlanInv, PlanTypeOK, PlanPart, Plans
<1>2. plan.step \in 1..7 /\ plan.try \in 1..MaxTries
  BY <1>1 DEF PlanPart, Plans, PlanSteps
<1>3. plan.step > 4 => outputs[4] \in Calendars
  BY <1>1, <1>2 DEF PlanPart, OutputOf
<1>. QED BY <1>1, <1>2, <1>3, CalendarIs, ContentPlanAssumption DEF PlanInv, PlanTypeOK

LEMMA PlanComesTogether ==
  ASSUME PlanPart', AssetsAreWritten', PatchesFit', StepsPaid', profile' \in BOOLEAN,
         \A e \in Editors : patch'[e] = NotYet \/ patch'[e] \in Patches,
         credits' \in 0..Credits, charged' \in [AISteps -> Nat], metered' \in [AISteps -> Nat],
         patches' \in 0..MaxPatches, planRetries' \in 0..MaxPlanRetries,
         planFaults' \in 0..MaxPlanFaults
  PROVE  PlanInv'
BY DEF PlanPart, PlanInv, PlanTypeOK, Plans, AssetsAreWritten, AreAssets

\* How the call goes on: another place, the next step, or an end.
LEMMA PlaceChanges ==
  ASSUME PlanInv, NEW p \in {"begin", "ask", "charge", "alert", "event", "gone"}, Place(p),
         plan.status = "RUNNING", UNCHANGED outputs,
         p \in {"ask", "charge", "alert"} => plan.step \in AISteps,
         p = "event" => plan.step = 6,
         answer' \in IF p \in {"charge", "alert"} THEN OutputOf(plan.step) ELSE {NotYet}
  PROVE  PlanPart' /\ plan'.step = plan.step /\ plan'.place = p /\ plan'.status = "RUNNING"
<1>1. /\ plan' \in Plans /\ plan'.step = plan.step /\ plan'.place = p /\ plan'.status = "RUNNING"
  BY PlanTypes DEF Place, PlanPart, Plans
<1>. QED BY <1>1, PlanTypes DEF PlanPart, PlanFits

LEMMA StepSucceeds ==
  ASSUME PlanInv, NEW out \in OutputOf(plan.step), Succeeds(out), plan.status = "RUNNING", plan.step < 7
  PROVE  /\ PlanPart' /\ plan'.step = plan.step + 1 /\ plan'.place = "begin" /\ plan'.status = "RUNNING"
         /\ \A s \in PlanSteps \ {plan.step} : outputs'[s] = outputs[s]
         /\ outputs'[plan.step] = out
<1>1. /\ plan.step \in 1..6 /\ plan.step + 1 \in PlanSteps /\ 1 \in 1..MaxTries
  BY PlanTypes, ContentPlanAssumption DEF PlanSteps
<1>2. /\ plan' \in Plans /\ plan'.step = plan.step + 1 /\ plan'.place = "begin" /\ plan'.status = "RUNNING"
  BY <1>1, PlanTypes DEF Succeeds, PlanPart, Plans
<1>3. outputs' = [s \in PlanSteps |-> IF s = plan.step THEN out ELSE outputs[s]]
  BY <1>1 DEF Succeeds, PlanInv, PlanFits
<1>4. outputs' = [s \in PlanSteps |-> outputs'[s]]
  BY <1>3
<1>5. \A s \in PlanSteps : outputs'[s] = IF s = plan.step THEN out ELSE outputs[s]
  BY <1>3
<1>6. \A s \in 1..6 : outputs'[s] \in IF s < plan'.step THEN OutputOf(s) ELSE {NotYet}
  <2>1. ASSUME NEW s \in 1..6
        PROVE  outputs'[s] \in IF s < plan'.step THEN OutputOf(s) ELSE {NotYet}
    <3>1. s \in PlanSteps
      BY DEF PlanSteps
    <3>2. CASE s = plan.step
      BY <1>1, <1>2, <1>5, <3>1, <3>2
    <3>3. CASE s # plan.step
      <4>1. outputs[s] \in IF s < plan.step THEN OutputOf(s) ELSE {NotYet}
        BY PlanTypes DEF PlanPart
      <4>2. s < plan'.step <=> s < plan.step
        BY <1>1, <1>2, <3>3
      <4>. QED BY <1>5, <3>1, <3>3, <4>1, <4>2
    <3>. QED BY <3>2, <3>3
  <2>. QED BY <2>1
<1>7. outputs'[7] \in {NotYet, "done"}
  BY <1>1, <1>5, PlanTypes DEF PlanSteps, PlanPart
<1>8. answer' = NotYet
  BY DEF Succeeds
<1>9. PlanPart'
  BY <1>2, <1>4, <1>6, <1>7, <1>8 DEF PlanPart, PlanFits
<1>. QED BY <1>1, <1>2, <1>5, <1>9 DEF PlanSteps

LEMMA StepThrows ==
  ASSUME PlanInv, NEW transient \in BOOLEAN, Throws(transient), plan.status = "RUNNING"
  PROVE  PlanPart' /\ plan'.step = plan.step /\ plan'.place = "begin"
         /\ plan'.status \in {"RUNNING", "FAILED"} /\ UNCHANGED outputs
<1>1. plan.try + 1 \in 1..MaxTries \/ ~TriesLeft
  BY PlanTypes, ContentPlanAssumption DEF TriesLeft
<1>2. /\ plan' \in Plans /\ plan'.step = plan.step /\ plan'.place = "begin"
      /\ plan'.status \in {"RUNNING", "FAILED"}
  <2>1. CASE transient /\ TriesLeft
    BY <1>1, <2>1, PlanTypes DEF Throws, PlanPart, Plans
  <2>2. CASE ~(transient /\ TriesLeft)
    BY <2>2, PlanTypes DEF Throws, PlanPart, Plans
  <2>. QED BY <2>1, <2>2
<1>. QED BY <1>2, PlanTypes DEF Throws, PlanPart, PlanFits

\* What leaves the assets and the requests on them alone.
LEMMA AssetsStay ==
  ASSUME PlanInv, UNCHANGED <<assets, patch>>,
         plan.step > 5 => plan'.step > 5 /\ outputs'[3] = outputs[3] /\ outputs'[4] = outputs[4],
         plan'.step > 5 => FitsPillars(outputs'[4], outputs'[3]),
         plan'.step = 7 \/ plan'.place = "event" => plan.step = 7 \/ plan.place = "event",
         plan.place = "event" => plan.step = 6
  PROVE  AssetsAreWritten' /\ PatchesFit'
<1>1. PatchesFit'
  BY DEF PlanInv, PatchesFit
<1>0. AreAssets(assets)' /\ assets' = assets
  BY DEF PlanInv, AssetsAreWritten, AreAssets
<1>2. CASE plan.step > 5
  <2>1. outputs'[4] = outputs[4] /\ \A s \in Slots : LastItem(s)' = LastItem(s)
    BY <1>2 DEF LastItem
  <2>. QED BY <1>0, <1>1, <1>2, <2>1 DEF PlanInv, AssetsAreWritten
<1>3. CASE ~(plan.step > 5)
  <2>1. \A s \in Slots : assets[s] = NotYet
    BY <1>3 DEF PlanInv, AssetsAreWritten
  <2>2. ~(plan'.step = 7 \/ plan'.place = "event")
    BY <1>3, PlanTypes
  <2>. QED BY <1>0, <1>1, <2>1, <2>2 DEF AssetsAreWritten
<1>. QED BY <1>1, <1>2, <1>3

\* What charges nothing.
LEMMA PaidStays ==
  ASSUME PlanInv, UNCHANGED <<credits, charged>>, metered' \in [AISteps -> Nat],
         \A s \in AISteps : metered[s] <= metered'[s],
         \A s \in AISteps : s < plan'.step \/ (s = plan'.step /\ plan'.place = "alert") =>
                              s < plan.step \/ (s = plan.step /\ plan.place = "alert"),
         \A s \in AISteps : s = plan'.step /\ plan'.place = "charge" =>
                              (s = plan.step /\ plan.place = "charge") \/ metered[s] < metered'[s]
  PROVE  StepsPaid'
<1>1. charged \in [AISteps -> Nat] /\ metered \in [AISteps -> Nat]
  BY PlanTypes
<1>. QED BY <1>1 DEF PlanInv, StepsPaid

\* What charges the step under way.
LEMMA ChargeAdds ==
  ASSUME PlanInv, NEW s \in AISteps, plan.step = s, plan.place = "charge", Sufficient(s),
         credits' = credits - Cost[s], charged' = [charged EXCEPT ![s] = @ + 1], UNCHANGED metered
  PROVE  /\ credits' \in 0..Credits /\ charged' \in [AISteps -> Nat] /\ charged'[s] >= 1
         /\ \A t \in AISteps : charged[t] <= charged'[t] /\ charged'[t] <= metered'[t]
         /\ (credits + charged[2] * Cost[2] + charged[3] * Cost[3] + charged[4] * Cost[4] = Credits)'
<1>1. charged \in [AISteps -> Nat] /\ metered \in [AISteps -> Nat] /\ Cost \in [AISteps -> Nat]
  BY PlanTypes
<1>2. credits' \in 0..Credits
  BY <1>1, PlanTypes DEF Sufficient
<1>3. /\ charged' \in [AISteps -> Nat] /\ charged'[s] = charged[s] + 1
      /\ \A t \in AISteps \ {s} : charged'[t] = charged[t]
  BY <1>1
<1>4. charged'[s] >= 1 /\ \A t \in AISteps : charged[t] <= charged'[t] /\ charged'[t] <= metered'[t]
  BY <1>1, <1>3 DEF PlanInv, StepsPaid
<1>5. \A x, y \in Nat : (x + 1) * y = x * y + y
  OBVIOUS
<1>6. /\ \A t \in AISteps : charged[t] \in Nat /\ Cost[t] \in Nat /\ charged[t] * Cost[t] \in Nat
      /\ charged'[s] * Cost[s] = charged[s] * Cost[s] + Cost[s]
      /\ \A t \in AISteps \ {s} : charged'[t] * Cost[t] = charged[t] * Cost[t]
  BY <1>1, <1>3, <1>5
<1>7. (credits + charged[2] * Cost[2] + charged[3] * Cost[3] + charged[4] * Cost[4] = Credits)'
  <2>1. /\ credits \in Nat /\ Credits \in Nat
        /\ credits + charged[2] * Cost[2] + charged[3] * Cost[3] + charged[4] * Cost[4] = Credits
    BY PlanTypes DEF PlanInv, StepsPaid
  <2>2. PICK a \in Nat, b \in Nat, c \in Nat :
          a = charged[2] * Cost[2] /\ b = charged[3] * Cost[3] /\ c = charged[4] * Cost[4]
    BY <1>6 DEF AISteps
  <2>3. CASE s = 2
    BY <1>1, <1>6, <2>1, <2>2, <2>3 DEF AISteps
  <2>4. CASE s = 3
    BY <1>1, <1>6, <2>1, <2>2, <2>4 DEF AISteps
  <2>5. CASE s = 4
    BY <1>1, <1>6, <2>1, <2>2, <2>5 DEF AISteps
  <2>. QED BY <2>3, <2>4, <2>5 DEF AISteps
<1>. QED BY <1>2, <1>3, <1>4, <1>7

\* What a step that charges nothing leaves.
LEMMA PlanTypesStay ==
  ASSUME PlanInv, UNCHANGED <<profile, patch, credits, charged, metered, bounds>>
  PROVE  /\ profile' \in BOOLEAN /\ \A e \in Editors : patch'[e] = NotYet \/ patch'[e] \in Patches
         /\ credits' \in 0..Credits /\ charged' \in [AISteps -> Nat] /\ metered' \in [AISteps -> Nat]
         /\ patches' \in 0..MaxPatches /\ planRetries' \in 0..MaxPlanRetries
         /\ planFaults' \in 0..MaxPlanFaults /\ \A s \in AISteps : metered[s] <= metered'[s]
BY PlanTypes DEF PlanInv, PlanTypeOK, bounds

\* A step succeeds: the one after it begins.
LEMMA SuccessKeeps ==
  ASSUME PlanInv, NEW out \in OutputOf(plan.step), Succeeds(out), plan.status = "RUNNING", plan.step < 7,
         UNCHANGED <<profile, assets, patch, credits, charged, metered, bounds>>,
         plan.step \in AISteps => plan.place = "alert",
         plan.step = 5 => FitsPillars(outputs[4], outputs[3]),
         plan.step = 6 => plan.place = "event"
  PROVE  PlanInv'
<1>1. /\ PlanPart' /\ plan'.step = plan.step + 1 /\ plan'.place = "begin"
      /\ \A s \in PlanSteps \ {plan.step} : outputs'[s] = outputs[s]
  BY StepSucceeds
<1>2. plan.step \in 1..6 /\ 3 \in PlanSteps /\ 4 \in PlanSteps
  BY PlanTypes DEF PlanSteps
<1>3. plan.step > 4 => outputs'[3] = outputs[3] /\ outputs'[4] = outputs[4]
  BY <1>1, <1>2
<1>4. plan.step > 5 => FitsPillars(outputs[4], outputs[3])
  BY DEF PlanInv, AssetsAreWritten
<1>5. plan'.step > 5 => FitsPillars(outputs'[4], outputs'[3])
  <2>1. ASSUME plan'.step > 5 PROVE FitsPillars(outputs'[4], outputs'[3])
    <3>1. plan.step = 5 \/ plan.step > 5
      BY <1>1, <1>2, <2>1
    <3>. QED BY <1>2, <1>3, <1>4, <3>1
  <2>. QED BY <2>1
<1>6. plan.place = "event" => plan.step = 6
  BY PlanTypes DEF PlanPart
<1>7. AssetsAreWritten' /\ PatchesFit'
  <2>1. plan.step > 5 => plan'.step > 5 /\ outputs'[3] = outputs[3] /\ outputs'[4] = outputs[4]
    BY <1>1, <1>2, <1>3
  <2>2. plan'.step = 7 \/ plan'.place = "event" => plan.step = 7 \/ plan.place = "event"
    BY <1>1, <1>2
  <2>. QED BY <1>5, <1>6, <2>1, <2>2, AssetsStay
<1>8. StepsPaid'
  <2>1. \A s \in AISteps : s < plan'.step \/ (s = plan'.step /\ plan'.place = "alert") =>
                             s < plan.step \/ (s = plan.step /\ plan.place = "alert")
    BY <1>1, <1>2 DEF AISteps
  <2>. QED BY <1>1, <2>1, PlanTypesStay, PaidStays
<1>. QED BY <1>1, <1>7, <1>8, PlanTypesStay, PlanComesTogether

\* A step throws: it begins again, or the plan has failed. Something may be spent.
LEMMA ThrowKeeps ==
  ASSUME PlanInv, NEW transient \in BOOLEAN, Throws(transient), plan.status = "RUNNING",
         UNCHANGED <<profile, assets, patch>>,
         patches' \in 0..MaxPatches, planRetries' \in 0..MaxPlanRetries, planFaults' \in 0..MaxPlanFaults,
         credits' \in 0..Credits, charged' \in [AISteps -> Nat], metered' \in [AISteps -> Nat],
         (\A s \in AISteps : charged[s] <= charged'[s] /\ charged'[s] <= metered'[s]),
         (credits + charged[2] * Cost[2] + charged[3] * Cost[3] + charged[4] * Cost[4] = Credits)'
  PROVE  PlanInv'
<1>1. /\ PlanPart' /\ plan'.step = plan.step /\ plan'.place = "begin" /\ UNCHANGED outputs
  BY StepThrows
<1>2. plan.place = "event" => plan.step = 6
  BY PlanTypes DEF PlanPart
<1>3. plan.step > 5 => FitsPillars(outputs[4], outputs[3])
  BY DEF PlanInv, AssetsAreWritten
<1>4. AssetsAreWritten' /\ PatchesFit'
  BY <1>1, <1>2, <1>3, AssetsStay
<1>5. StepsPaid'
  BY <1>1, PlanTypes DEF PlanInv, StepsPaid
<1>6. profile' \in BOOLEAN /\ \A e \in Editors : patch'[e] = NotYet \/ patch'[e] \in Patches
  BY DEF PlanInv, PlanTypeOK
<1>. QED BY <1>1, <1>4, <1>5, <1>6, PlanComesTogether

LEMMA PlainThrowKeeps ==
  ASSUME PlanInv, NEW transient \in BOOLEAN, Throws(transient), plan.status = "RUNNING",
         UNCHANGED <<profile, assets, patch, credits, charged, metered, bounds>>
  PROVE  PlanInv'
<1>1. (credits + charged[2] * Cost[2] + charged[3] * Cost[3] + charged[4] * Cost[4] = Credits)'
  BY DEF PlanInv, StepsPaid
<1>2. \A s \in AISteps : charged[s] <= charged'[s] /\ charged'[s] <= metered'[s]
  BY PlanTypes DEF PlanInv, StepsPaid
<1>. QED BY <1>1, <1>2, PlanTypesStay, ThrowKeeps

LEMMA ValidateContextKeeps ==
  ASSUME PlanInv, ValidateContext
  PROVE  PlanInv'
<1>1. plan.status = "RUNNING" /\ plan.step = 1 /\ plan.place = "begin"
  BY DEF ValidateContext, PlanAt
<1>2. "done" \in OutputOf(plan.step)
  BY <1>1 DEF OutputOf
<1>3. CASE profile
  BY <1>1, <1>2, <1>3, SuccessKeeps DEF ValidateContext, AISteps
<1>4. CASE ~profile
  BY <1>1, <1>4, PlainThrowKeeps DEF ValidateContext
<1>. QED BY <1>3, <1>4

LEMMA CheckCreditsKeeps ==
  ASSUME PlanInv, NEW s \in AISteps, CheckCredits(s)
  PROVE  PlanInv'
<1>1. plan.status = "RUNNING" /\ plan.step = s /\ plan.place = "begin" /\ plan.step < 7
  BY DEF CheckCredits, PlanAt, AISteps
<1>2. CASE ~Sufficient(s)
  BY <1>1, <1>2, PlainThrowKeeps DEF CheckCredits
<1>3. CASE Sufficient(s)
  <2>1. answer = NotYet
    BY <1>1, PlanTypes DEF PlanPart
  <2>2. PlanPart' /\ plan'.step = plan.step /\ plan'.place = "ask" /\ UNCHANGED outputs
    BY <1>1, <1>3, <2>1, PlaceChanges DEF CheckCredits
  <2>3. plan.step > 5 => FitsPillars(outputs[4], outputs[3])
    BY DEF PlanInv, AssetsAreWritten
  <2>4. AssetsAreWritten' /\ PatchesFit'
    BY <1>1, <2>2, <2>3, AssetsStay DEF CheckCredits
  <2>5. UNCHANGED <<profile, patch, credits, charged, metered, bounds>>
    BY DEF CheckCredits
  <2>6. StepsPaid'
    BY <2>2, <2>5, PlanTypesStay, PaidStays
  <2>. QED BY <2>2, <2>4, <2>5, <2>6, PlanTypesStay, PlanComesTogether
<1>. QED BY <1>2, <1>3

LEMMA ProviderAnswersKeeps ==
  ASSUME PlanInv, NEW s \in AISteps, ProviderAnswers(s)
  PROVE  PlanInv'
<1>1. plan.status = "RUNNING" /\ plan.step = s /\ plan.place = "ask" /\ plan.step < 7
  BY DEF ProviderAnswers, PlanAt, AISteps
<1>2. PlanPart' /\ plan'.step = plan.step /\ plan'.place = "charge" /\ UNCHANGED outputs
  BY <1>1, PlaceChanges DEF ProviderAnswers
<1>3. plan.step > 5 => FitsPillars(outputs[4], outputs[3])
  BY DEF PlanInv, AssetsAreWritten
<1>4. AssetsAreWritten' /\ PatchesFit'
  BY <1>1, <1>2, <1>3, AssetsStay DEF ProviderAnswers
<1>5. /\ metered' \in [AISteps -> Nat] /\ metered'[s] = metered[s] + 1
      /\ \A t \in AISteps : metered[t] <= metered'[t]
  BY PlanTypes DEF ProviderAnswers
<1>6. StepsPaid'
  <2>1. metered[s] < metered'[s]
    BY <1>5, PlanTypes
  <2>. QED BY <1>1, <1>2, <1>5, <2>1, PaidStays DEF ProviderAnswers
<1>7. /\ profile' \in BOOLEAN /\ \A e \in Editors : patch'[e] = NotYet \/ patch'[e] \in Patches
      /\ credits' \in 0..Credits /\ charged' \in [AISteps -> Nat]
      /\ patches' \in 0..MaxPatches /\ planRetries' \in 0..MaxPlanRetries
      /\ planFaults' \in 0..MaxPlanFaults
  BY DEF ProviderAnswers, PlanInv, PlanTypeOK, bounds
<1>. QED BY <1>2, <1>4, <1>5, <1>6, <1>7, PlanComesTogether

LEMMA NonsenseKeeps ==
  ASSUME PlanInv, NEW s \in AISteps, ProviderAnswersNonsense(s)
  PROVE  PlanInv'
<1>1. plan.status = "RUNNING"
  BY DEF ProviderAnswersNonsense, PlanAt
<1>2. metered' \in [AISteps -> Nat] /\ \A t \in AISteps : metered[t] <= metered'[t]
  BY PlanTypes DEF ProviderAnswersNonsense
<1>3. (credits + charged[2] * Cost[2] + charged[3] * Cost[3] + charged[4] * Cost[4] = Credits)'
  BY DEF ProviderAnswersNonsense, PlanInv, StepsPaid
<1>4. \A t \in AISteps : charged[t] <= charged'[t] /\ charged'[t] <= metered'[t]
  <2>1. charged' = charged
    BY DEF ProviderAnswersNonsense
  <2>2. \A t \in AISteps : charged[t] <= metered[t]
    BY DEF PlanInv, StepsPaid
  <2>3. charged \in [AISteps -> Nat] /\ metered \in [AISteps -> Nat]
    BY PlanTypes
  <2>. QED BY <1>2, <2>1, <2>2, <2>3
<1>5. /\ patches' \in 0..MaxPatches /\ planRetries' \in 0..MaxPlanRetries /\ planFaults' \in 0..MaxPlanFaults
      /\ credits' \in 0..Credits /\ charged' \in [AISteps -> Nat]
  BY ContentPlanAssumption DEF ProviderAnswersNonsense, PlanInv, PlanTypeOK
<1>. QED BY <1>1, <1>2, <1>3, <1>4, <1>5, ThrowKeeps DEF ProviderAnswersNonsense

LEMMA ChargePlanKeeps ==
  ASSUME PlanInv, NEW s \in AISteps, ChargePlan(s)
  PROVE  PlanInv'
<1>1. plan.status = "RUNNING" /\ plan.step = s /\ plan.place = "charge" /\ plan.step < 7
  BY DEF ChargePlan, PlanAt, AISteps
<1>2. CASE ~Sufficient(s)
  BY <1>1, <1>2, PlainThrowKeeps DEF ChargePlan
<1>3. CASE Sufficient(s)
  <2>1. answer \in OutputOf(plan.step)
    BY <1>1, PlanTypes DEF PlanPart
  <2>2. PlanPart' /\ plan'.step = plan.step /\ plan'.place = "alert" /\ UNCHANGED outputs
    BY <1>1, <1>3, <2>1, PlaceChanges DEF ChargePlan
  <2>3. plan.step > 5 => FitsPillars(outputs[4], outputs[3])
    BY DEF PlanInv, AssetsAreWritten
  <2>4. AssetsAreWritten' /\ PatchesFit'
    BY <1>1, <2>2, <2>3, AssetsStay DEF ChargePlan
  <2>5. /\ credits' \in 0..Credits /\ charged' \in [AISteps -> Nat] /\ charged'[s] >= 1
        /\ \A t \in AISteps : charged[t] <= charged'[t] /\ charged'[t] <= metered'[t]
        /\ (credits + charged[2] * Cost[2] + charged[3] * Cost[3] + charged[4] * Cost[4] = Credits)'
    BY <1>1, <1>3, ChargeAdds DEF ChargePlan
  <2>6. StepsPaid'
    BY <1>1, <2>2, <2>5, PlanTypes DEF PlanInv, StepsPaid
  <2>. QED BY <2>2, <2>4, <2>5, <2>6, PlanComesTogether DEF ChargePlan, PlanInv, PlanTypeOK, bounds
<1>. QED BY <1>2, <1>3

LEMMA AlertCheckedKeeps ==
  ASSUME PlanInv, NEW s \in AISteps, AlertChecked(s)
  PROVE  PlanInv'
<1>1. plan.status = "RUNNING" /\ plan.step = s /\ plan.place = "alert"
  BY DEF AlertChecked, PlanAt
<1>2. answer \in OutputOf(plan.step)
  BY <1>1, PlanTypes DEF PlanPart
<1>. QED BY <1>1, <1>2, SuccessKeeps DEF AlertChecked, AISteps

LEMMA ValidateOutputKeeps ==
  ASSUME PlanInv, ValidateOutput
  PROVE  PlanInv'
<1>1. plan.status = "RUNNING" /\ plan.step = 5 /\ plan.place = "begin"
  BY DEF ValidateOutput, PlanAt
<1>2. "done" \in OutputOf(plan.step)
  BY <1>1 DEF OutputOf
<1>3. CASE FitsPillars(outputs[4], outputs[3])
  BY <1>1, <1>2, <1>3, SuccessKeeps DEF ValidateOutput, AISteps
<1>4. CASE ~FitsPillars(outputs[4], outputs[3])
  BY <1>1, <1>4, PlainThrowKeeps DEF ValidateOutput
<1>. QED BY <1>3, <1>4

LEMMA FirstContentKeeps ==
  ASSUME PlanInv, FirstContentTracked
  PROVE  PlanInv'
<1>1. plan.status = "RUNNING" /\ plan.step = 6 /\ plan.place = "event"
  BY DEF FirstContentTracked, PlanAt
<1>2. "done" \in OutputOf(plan.step)
  BY <1>1 DEF OutputOf
<1>. QED BY <1>1, <1>2, SuccessKeeps DEF FirstContentTracked, AISteps

\* What persist_assets leaves in a slot: the asset there is, with the content of the last
\* item; or a draft of it.
LEMMA PersistIs ==
  ASSUME PlanInv, PersistAssets
  PROVE  /\ AreAssets(assets)' /\ outputs[4] \in Seq(Items)
         /\ \A s \in Slots :
              /\ RowsFor(outputs[4], Len(outputs[4]), s) = {} => assets'[s] = assets[s] /\ assets[s] = NotYet
              /\ RowsFor(outputs[4], Len(outputs[4]), s) # {} =>
                   LastItem(s) \in Items /\ assets'[s] = Written(assets[s], LastItem(s))
<1>. DEFINE cal == outputs[4]
<1>1. plan.step = 6
  BY DEF PersistAssets, PlanAt
<1>2. cal \in Seq(Items) /\ Len(cal) \in Nat /\ \A m \in 1..Len(cal) : cal[m] \in Items
  <2>1. cal \in Seq(Items)
    BY <1>1, PlanTypes
  <2>. HIDE DEF cal
  <2>. QED BY <2>1
<1>3. AreAssets(assets)
  BY DEF PlanInv, AssetsAreWritten
<1>. HIDE DEF cal
<1>4. assets' = After(assets, cal, Len(cal))
  BY <1>2, <1>3, AllUpsertedIs DEF PersistAssets, cal
<1>5. assets' = [s \in Slots |-> assets'[s]]
  BY <1>4 DEF After
<1>6. ASSUME NEW s \in Slots
      PROVE  /\ RowsFor(cal, Len(cal), s) = {} => assets'[s] = assets[s] /\ assets[s] = NotYet
             /\ RowsFor(cal, Len(cal), s) # {} =>
                  LastItem(s) \in Items /\ assets'[s] = Written(assets[s], LastItem(s))
  <2>1. CASE RowsFor(cal, Len(cal), s) = {}
    <3>1. assets'[s] = assets[s]
      BY <1>4, <2>1 DEF After
    <3>. QED BY <2>1, <3>1 DEF PlanInv, AssetsAreWritten, cal
  <2>2. CASE RowsFor(cal, Len(cal), s) # {}
    <3>1. LastFor(cal, Len(cal), s) \in 1..Len(cal)
      BY <1>2, <2>2, LastIs
    <3>2. assets'[s] = Written(assets[s], cal[LastFor(cal, Len(cal), s)])
      BY <1>4, <2>2 DEF After
    <3>. QED BY <1>2, <2>2, <3>1, <3>2 DEF LastItem, cal
  <2>. QED BY <2>1, <2>2
<1>7. \A s \in Slots : assets'[s] = NotYet \/ assets'[s] \in ContentAssets
  <2>1. ASSUME NEW s \in Slots PROVE assets'[s] = NotYet \/ assets'[s] \in ContentAssets
    <3>1. assets[s] = NotYet \/ assets[s] \in ContentAssets
      BY <1>3 DEF AreAssets
    <3>. QED BY <1>6, <3>1, WrittenIs
  <2>. QED BY <2>1
<1>. QED BY <1>2, <1>5, <1>6, <1>7 DEF AreAssets, cal

LEMMA PersistAssetsKeeps ==
  ASSUME PlanInv, PersistAssets
  PROVE  PlanInv'
<1>1. plan.status = "RUNNING" /\ plan.step = 6 /\ plan.place = "begin"
  BY DEF PersistAssets, PlanAt
<1>2. answer = NotYet
  BY <1>1, PlanTypes DEF PlanPart
<1>3. PlanPart' /\ plan'.step = plan.step /\ plan'.place = "event" /\ UNCHANGED outputs
  BY <1>1, <1>2, PlaceChanges DEF PersistAssets
<1>4. UNCHANGED <<profile, patch, credits, charged, metered, bounds>>
  BY DEF PersistAssets
<1>5. StepsPaid'
  BY <1>3, <1>4, PlanTypesStay, PaidStays
<1>6. \A s \in Slots : assets[s] = NotYet \/ assets[s] \in ContentAssets
  BY DEF PlanInv, AssetsAreWritten, AreAssets
<1>7. \A s \in Slots : RowsFor(outputs[4], Len(outputs[4]), s) # {} =>
        /\ assets'[s] # NotYet
        /\ assets'[s].pillar = LastItem(s).pillar /\ assets'[s].caption = LastItem(s).caption
  BY <1>6, PersistIs, WrittenIs
<1>8. ASSUME NEW i \in ItemsOf(outputs[4]) PROVE assets'[i.slot] # NotYet
  <2>1. DOMAIN outputs[4] = 1..Len(outputs[4]) /\ outputs[4] \in Seq(Items)
    BY <1>1, PlanTypes
  <2>2. PICK m \in 1..Len(outputs[4]) : i = outputs[4][m]
    BY <2>1 DEF ItemsOf
  <2>3. i \in Items
    BY <2>1, <2>2
  <2>4. i.slot \in Slots
    BY <2>3 DEF Items
  <2>5. m \in RowsFor(outputs[4], Len(outputs[4]), i.slot)
    BY <2>2 DEF RowsFor
  <2>. QED BY <1>7, <2>4, <2>5
<1>9. \A s \in Slots : LastItem(s)' = LastItem(s)
  BY <1>3 DEF LastItem
<1>10. AssetsAreWritten'
  <2>1. AreAssets(assets)'
    BY PersistIs
  <2>2. FitsPillars(outputs[4], outputs[3])
    BY <1>1 DEF PlanInv, AssetsAreWritten
  <2>3. \A s \in Slots : assets'[s] # NotYet => RowsFor(outputs[4], Len(outputs[4]), s) # {}
    BY PersistIs
  <2>. QED BY <1>1, <1>3, <1>7, <1>8, <1>9, <2>1, <2>2, <2>3 DEF AssetsAreWritten
<1>11. PatchesFit'
  <2>1. ASSUME NEW e \in Editors, patch[e] # NotYet PROVE assets'[patch[e].slot] # NotYet
    <3>1. patch[e] \in Patches /\ assets[patch[e].slot] # NotYet
      BY <2>1 DEF PlanInv, PlanTypeOK, PatchesFit
    <3>2. patch[e].slot \in Slots
      BY <3>1 DEF Patches
    <3>3. RowsFor(outputs[4], Len(outputs[4]), patch[e].slot) # {}
      BY <3>1, <3>2 DEF PlanInv, AssetsAreWritten
    <3>. QED BY <1>7, <3>2, <3>3
  <2>. QED BY <1>4, <2>1 DEF PlanInv, PatchesFit
<1>. QED BY <1>3, <1>4, <1>5, <1>10, <1>11, PlanTypesStay, PlanComesTogether

LEMMA AskApprovalKeeps ==
  ASSUME PlanInv, AskApproval
  PROVE  PlanInv'
<1>1. plan.status = "RUNNING" /\ plan.step = 7 /\ plan.place = "begin" /\ answer = NotYet
  BY PlanTypes DEF AskApproval, PlanAt, PlanPart
<1>2. /\ plan' \in Plans /\ plan'.step = 7 /\ plan'.place = "begin" /\ plan'.status = "AWAITING_APPROVAL"
  BY <1>1, PlanTypes DEF AskApproval, PlanPart, Plans
<1>3. outputs' = [s \in PlanSteps |-> IF s = 7 THEN "done" ELSE outputs[s]]
  BY DEF AskApproval, PlanInv, PlanFits
<1>4. outputs' = [s \in PlanSteps |-> outputs'[s]]
  BY <1>3
<1>5. outputs'[7] = "done" /\ \A s \in 1..6 : outputs'[s] = outputs[s]
  BY <1>3 DEF PlanSteps
<1>6. PlanPart'
  BY <1>1, <1>2, <1>4, <1>5, PlanTypes DEF AskApproval, PlanPart, PlanFits
<1>7. plan.step > 5 => FitsPillars(outputs[4], outputs[3])
  BY DEF PlanInv, AssetsAreWritten
<1>8. AssetsAreWritten' /\ PatchesFit'
  BY <1>1, <1>2, <1>5, <1>7, AssetsStay DEF AskApproval
<1>9. UNCHANGED <<profile, patch, credits, charged, metered, bounds>>
  BY DEF AskApproval
<1>10. StepsPaid'
  BY <1>1, <1>2, <1>9, PlanTypesStay, PaidStays
<1>. QED BY <1>6, <1>8, <1>9, <1>10, PlanTypesStay, PlanComesTogether

\* Another status, of a plan that is not at work.
LEMMA StatusKeeps ==
  ASSUME PlanInv, UNCHANGED <<profile, outputs, answer, assets, patch, credits, charged, metered, patches,
                              planFaults>>,
         planRetries' \in 0..MaxPlanRetries,
         plan' \in Plans, plan'.step = plan.step, plan'.place = "begin", plan.place = "begin",
         plan'.status \in {"AWAITING_APPROVAL", "COMPLETED"} => plan.step = 7
  PROVE  PlanInv'
<1>1. PlanPart'
  BY PlanTypes DEF PlanPart, PlanFits
<1>2. plan.step > 5 => FitsPillars(outputs[4], outputs[3])
  BY DEF PlanInv, AssetsAreWritten
<1>3. AssetsAreWritten' /\ PatchesFit'
  BY <1>2, AssetsStay
<1>4. metered' \in [AISteps -> Nat] /\ \A s \in AISteps : metered[s] <= metered'[s]
  BY PlanTypes
<1>5. StepsPaid'
  BY <1>4, PaidStays
<1>. QED BY <1>1, <1>3, <1>5, PlanComesTogether DEF PlanInv, PlanTypeOK

LEMMA ApproveOrRetryKeeps ==
  ASSUME PlanInv, ApprovePlan \/ RetryPlan
  PROVE  PlanInv'
<1>1. plan \in Plans /\ plan.place = "begin" /\ planRetries \in 0..MaxPlanRetries
  <2>1. plan.status # "RUNNING"
    BY DEF ApprovePlan, RetryPlan
  <2>. QED BY <2>1, PlanTypes DEF PlanPart, PlanFits, PlanInv, PlanTypeOK
<1>2. CASE ApprovePlan
  <2>1. /\ plan' \in Plans /\ plan'.step = plan.step /\ plan'.place = "begin"
        /\ plan'.status = "COMPLETED" /\ plan.step = 7
    BY <1>1, <1>2 DEF ApprovePlan, Plans, PlanInv, PlanFits
  <2>. QED BY <1>1, <1>2, <2>1, StatusKeeps DEF ApprovePlan, bounds
<1>3. CASE RetryPlan
  <2>1. 1 \in 1..MaxTries
    BY ContentPlanAssumption
  <2>2. /\ plan' \in Plans /\ plan'.step = plan.step /\ plan'.place = "begin" /\ plan'.status = "RUNNING"
    BY <1>1, <1>3, <2>1 DEF RetryPlan, Plans
  <2>3. planRetries' \in 0..MaxPlanRetries
    BY <1>1, <1>3, ContentPlanAssumption DEF RetryPlan
  <2>. QED BY <1>1, <1>3, <2>2, <2>3, StatusKeeps DEF RetryPlan
<1>. QED BY <1>2, <1>3

LEMMA StepRejectsKeeps ==
  ASSUME PlanInv, StepRejects
  PROVE  PlanInv'
<1>1. PICK transient \in BOOLEAN : Throws(transient)
  BY DEF StepRejects
<1>2. plan.status = "RUNNING" /\ UNCHANGED <<profile, assets, patch, metered>>
  BY DEF StepRejects, Awaits
<1>3. patches' \in 0..MaxPatches /\ planRetries' \in 0..MaxPlanRetries /\ planFaults' \in 0..MaxPlanFaults
  BY ContentPlanAssumption DEF StepRejects, PlanInv, PlanTypeOK
<1>4. metered' \in [AISteps -> Nat]
  BY <1>2, PlanTypes
<1>5. CASE UNCHANGED <<credits, charged>>
  <2>1. \A s \in AISteps : charged[s] <= charged'[s] /\ charged'[s] <= metered'[s]
    BY <1>2, <1>5, PlanTypes DEF PlanInv, StepsPaid
  <2>2. (credits + charged[2] * Cost[2] + charged[3] * Cost[3] + charged[4] * Cost[4] = Credits)'
    BY <1>5 DEF PlanInv, StepsPaid
  <2>3. credits' \in 0..Credits /\ charged' \in [AISteps -> Nat]
    BY <1>5 DEF PlanInv, PlanTypeOK
  <2>. QED BY <1>1, <1>2, <1>3, <1>4, <2>1, <2>2, <2>3, ThrowKeeps
<1>6. CASE /\ plan.place = "charge" /\ Sufficient(plan.step)
           /\ credits' = credits - Cost[plan.step]
           /\ charged' = [charged EXCEPT ![plan.step] = @ + 1]
  <2>1. plan.step \in AISteps
    BY <1>6, PlanTypes DEF PlanPart
  <2>2. /\ credits' \in 0..Credits /\ charged' \in [AISteps -> Nat]
        /\ \A t \in AISteps : charged[t] <= charged'[t] /\ charged'[t] <= metered'[t]
        /\ (credits + charged[2] * Cost[2] + charged[3] * Cost[3] + charged[4] * Cost[4] = Credits)'
    BY <1>2, <1>6, <2>1, ChargeAdds
  <2>. QED BY <1>1, <1>2, <1>3, <1>4, <2>2, ThrowKeeps
<1>. QED BY <1>5, <1>6 DEF StepRejects

LEMMA PlanDiesKeeps ==
  ASSUME PlanInv, PlanDies
  PROVE  PlanInv'
<1>1. PlanPart' /\ plan'.step = plan.step /\ plan'.place = "gone" /\ UNCHANGED outputs
  BY PlaceChanges DEF PlanDies, Awaits
<1>2. plan.step > 5 => FitsPillars(outputs[4], outputs[3])
  BY DEF PlanInv, AssetsAreWritten
<1>3. plan.place = "event" => plan.step = 6
  BY PlanTypes DEF PlanPart
<1>4. AssetsAreWritten' /\ PatchesFit'
  BY <1>1, <1>2, <1>3, AssetsStay DEF PlanDies
<1>5. metered' \in [AISteps -> Nat] /\ \A s \in AISteps : metered[s] <= metered'[s]
  BY PlanTypes DEF PlanDies
<1>6. StepsPaid'
  BY <1>1, <1>5, PaidStays DEF PlanDies
<1>7. planFaults' \in 0..MaxPlanFaults
  BY ContentPlanAssumption DEF PlanDies, PlanInv, PlanTypeOK
<1>. QED BY <1>1, <1>4, <1>6, <1>7, PlanComesTogether DEF PlanDies, PlanInv, PlanTypeOK

\* What leaves the plan alone.
LEMMA PlanPartStays ==
  ASSUME PlanInv, UNCHANGED <<plan, outputs, answer, credits, charged, metered>>
  PROVE  PlanPart' /\ StepsPaid'
BY PlanTypes DEF PlanPart, PlanFits, PlanInv, StepsPaid

LEMMA ProfileChangesKeeps ==
  ASSUME PlanInv, ProfileChanges
  PROVE  PlanInv'
<1>1. PlanPart' /\ StepsPaid'
  BY PlanPartStays DEF ProfileChanges
<1>2. AssetsAreWritten' /\ PatchesFit'
  BY DEF ProfileChanges, PlanInv, AssetsAreWritten, AreAssets, LastItem, PatchesFit
<1>3. profile' \in BOOLEAN
  BY DEF ProfileChanges
<1>. QED BY <1>1, <1>2, <1>3, PlanComesTogether DEF ProfileChanges, bounds, PlanInv, PlanTypeOK

LEMMA PatchReadKeeps ==
  ASSUME PlanInv, NEW e \in Editors, PatchRead(e)
  PROVE  PlanInv'
<1>1. PlanPart' /\ StepsPaid'
  BY PlanPartStays DEF PatchRead
<1>2. AssetsAreWritten'
  BY DEF PatchRead, PlanInv, AssetsAreWritten, AreAssets, LastItem
<1>3. PICK p \in Patches : assets[p.slot] # NotYet /\ patch' = [patch EXCEPT ![e] = p]
  BY DEF PatchRead
<1>4. patch' = [d \in Editors |-> IF d = e THEN p ELSE patch[d]]
  BY <1>3 DEF PlanInv, PatchesFit
<1>5. /\ patch' = [d \in Editors |-> patch'[d]]
      /\ \A d \in Editors : patch'[d] = IF d = e THEN p ELSE patch[d]
  BY <1>4
<1>6. PatchesFit' /\ \A d \in Editors : patch'[d] = NotYet \/ patch'[d] \in Patches
  BY <1>3, <1>5 DEF PatchRead, PlanInv, PlanTypeOK, PatchesFit
<1>7. patches' \in 0..MaxPatches
  <2>1. patches \in 0..MaxPatches
    BY DEF PlanInv, PlanTypeOK
  <2>2. patches < MaxPatches /\ patches' = patches + 1
    BY DEF PatchRead
  <2>. QED BY <2>1, <2>2, ContentPlanAssumption
<1>. QED BY <1>1, <1>2, <1>6, <1>7, PlanComesTogether DEF PatchRead, PlanInv, PlanTypeOK

\* A request changes its own asset, and of it what is the reviewer's.
LEMMA PatchIs ==
  ASSUME PlanInv, NEW e \in Editors, PatchWrite(e)
  PROVE  /\ patch[e] \in Patches /\ patch[e].slot \in Slots
         /\ assets' = [s \in Slots |-> assets'[s]]
         /\ \A s \in Slots : s # patch[e].slot => assets'[s] = assets[s]
         /\ \A s \in Slots : s = patch[e].slot =>
              /\ assets[s] \in ContentAssets /\ assets'[s] \in ContentAssets
              /\ assets'[s].pillar = assets[s].pillar /\ assets'[s].caption = assets[s].caption
<1>. DEFINE p == patch[e]
            a == assets[p.slot]
            b == [a EXCEPT !.edited = a.edited \/ p.edit,
                           !.status = IF p.to = "as it is" THEN a.status ELSE p.to]
<1>1. p \in Patches /\ a # NotYet
  BY DEF PatchWrite, PlanInv, PlanTypeOK, PatchesFit
<1>2. p.slot \in Slots /\ p.edit \in BOOLEAN /\ (p.to \in ReviewStatuses \/ p.to = "as it is")
  BY <1>1 DEF Patches
<1>3. a \in ContentAssets
  BY <1>1, <1>2 DEF PlanInv, AssetsAreWritten, AreAssets
<1>4. assets' = [s \in Slots |-> IF s = p.slot THEN b ELSE assets[s]]
  <2>1. assets' = [assets EXCEPT ![p.slot].edited = a.edited \/ p.edit,
                                 ![p.slot].status = IF p.to = "as it is" THEN a.status ELSE p.to]
    BY <1>3 DEF PatchWrite
  <2>2. assets = [s \in Slots |-> assets[s]]
    BY DEF PlanInv, AssetsAreWritten, AreAssets
  <2>. QED BY <1>2, <1>3, <2>1, <2>2 DEF ContentAssets
<1>5. b \in ContentAssets /\ b.pillar = a.pillar /\ b.caption = a.caption
  <2>. HIDE DEF p, a
  <2>. QED BY <1>2, <1>3 DEF ContentAssets, ReviewStatuses
<1>6. /\ assets' = [s \in Slots |-> assets'[s]]
      /\ \A s \in Slots : assets'[s] = IF s = p.slot THEN b ELSE assets[s]
  <2>. HIDE DEF b
  <2>. QED BY <1>4
<1>. HIDE DEF b
<1>. QED BY <1>1, <1>2, <1>3, <1>5, <1>6

LEMMA PatchWriteKeeps ==
  ASSUME PlanInv, NEW e \in Editors, PatchWrite(e)
  PROVE  PlanInv'
<1>1. PlanPart' /\ StepsPaid'
  BY PlanPartStays DEF PatchWrite
<1>2. /\ \A s \in Slots : assets'[s] # NotYet <=> assets[s] # NotYet
      /\ \A s \in Slots : assets[s] # NotYet =>
           assets'[s].pillar = assets[s].pillar /\ assets'[s].caption = assets[s].caption
      /\ AreAssets(assets)'
  <2>1. \A s \in Slots : assets[s] = NotYet \/ assets[s] \in ContentAssets
    BY DEF PlanInv, AssetsAreWritten, AreAssets
  <2>. QED BY <2>1, PatchIs, NotYetAssumption DEF AreAssets
<1>3. outputs' = outputs /\ plan' = plan /\ \A s \in Slots : LastItem(s)' = LastItem(s)
  BY DEF PatchWrite, LastItem
<1>4. plan.step = 7 \/ plan.place = "event" => \A i \in ItemsOf(outputs[4]) : i.slot \in Slots
  <2>1. ASSUME plan.step = 7 \/ plan.place = "event" PROVE plan.step > 4
    BY <2>1, PlanTypes DEF PlanPart
  <2>2. ASSUME plan.step = 7 \/ plan.place = "event", NEW i \in ItemsOf(outputs[4])
        PROVE  i.slot \in Slots
    <3>1. outputs[4] \in Seq(Items) /\ DOMAIN outputs[4] = 1..Len(outputs[4])
      BY <2>1, <2>2, PlanTypes
    <3>2. i \in Items
      BY <2>2, <3>1 DEF ItemsOf
    <3>. QED BY <3>2 DEF Items
  <2>. QED BY <2>2
<1>5. AssetsAreWritten'
  BY <1>2, <1>3, <1>4 DEF PlanInv, AssetsAreWritten
<1>6. /\ patch' = [d \in Editors |-> patch'[d]]
      /\ \A d \in Editors : patch'[d] = IF d = e THEN NotYet ELSE patch[d]
  <2>1. patch' = [d \in Editors |-> IF d = e THEN NotYet ELSE patch[d]]
    BY DEF PatchWrite, PlanInv, PatchesFit
  <2>. QED BY <2>1
<1>7. PatchesFit' /\ \A d \in Editors : patch'[d] = NotYet \/ patch'[d] \in Patches
  <2>1. ASSUME NEW d \in Editors, patch'[d] # NotYet
        PROVE  patch'[d] \in Patches /\ assets'[patch'[d].slot] # NotYet
    <3>1. patch'[d] = patch[d] /\ patch[d] \in Patches /\ assets[patch[d].slot] # NotYet
      BY <1>6, <2>1 DEF PlanInv, PlanTypeOK, PatchesFit
    <3>2. patch[d].slot \in Slots
      BY <3>1 DEF Patches
    <3>. QED BY <1>2, <3>1, <3>2
  <2>. QED BY <1>6, <2>1 DEF PatchesFit
<1>. QED BY <1>1, <1>5, <1>7, PlanComesTogether DEF PatchWrite, bounds, PlanInv, PlanTypeOK

LEMMA PlanStepKeeps == PlanInv /\ [PlanNext]_planVars => PlanInv'
<1>. SUFFICES ASSUME PlanInv, [PlanNext]_planVars PROVE PlanInv'
  OBVIOUS
<1>1. CASE UNCHANGED planVars
  BY <1>1 DEF planVars, PlanInv, PlanTypeOK, PlanFits, AssetsAreWritten, AreAssets, LastItem, PatchesFit,
     StepsPaid
<1>2. CASE ValidateContext \/ ValidateOutput \/ PersistAssets \/ FirstContentTracked \/ AskApproval
  BY <1>2, ValidateContextKeeps, ValidateOutputKeeps, PersistAssetsKeeps, FirstContentKeeps,
     AskApprovalKeeps
<1>3. ASSUME NEW s \in AISteps,
             CheckCredits(s) \/ ProviderAnswers(s) \/ ChargePlan(s) \/ AlertChecked(s)
             \/ ProviderAnswersNonsense(s)
      PROVE  PlanInv'
  BY <1>3, CheckCreditsKeeps, ProviderAnswersKeeps, ChargePlanKeeps, AlertCheckedKeeps, NonsenseKeeps
<1>4. CASE ApprovePlan \/ RetryPlan \/ StepRejects \/ PlanDies \/ ProfileChanges
  BY <1>4, ApproveOrRetryKeeps, StepRejectsKeeps, PlanDiesKeeps, ProfileChangesKeeps
<1>5. ASSUME NEW e \in Editors, PatchRead(e) \/ PatchWrite(e) PROVE PlanInv'
  BY <1>5, PatchReadKeeps, PatchWriteKeeps
<1>. QED BY <1>1, <1>2, <1>3, <1>4, <1>5 DEF PlanNext, PlanGoesOn

LEMMA PlanSays == PlanInv => PlanTypeOK /\ AssetsFitPlan /\ PaidFor
<1>. SUFFICES ASSUME PlanInv PROVE PlanTypeOK /\ AssetsFitPlan /\ PaidFor
  OBVIOUS
<1>1. ASSUME NEW s \in Slots, assets[s] # NotYet
      PROVE  /\ \E i \in ItemsOf(outputs[4]) : i.slot = s /\ i.pillar = assets[s].pillar
             /\ assets[s].pillar \in outputs[3] /\ assets[s].caption = "text"
  <2>1. /\ plan.step > 5 /\ RowsFor(outputs[4], Len(outputs[4]), s) # {}
        /\ assets[s].pillar = LastItem(s).pillar /\ assets[s].caption = LastItem(s).caption
        /\ FitsPillars(outputs[4], outputs[3])
    BY <1>1 DEF PlanInv, AssetsAreWritten
  <2>2. DOMAIN outputs[4] = 1..Len(outputs[4]) /\ Len(outputs[4]) \in Nat
    <3>1. outputs[4] \in Seq(Items) /\ DOMAIN outputs[4] = 1..Len(outputs[4])
      BY <2>1, PlanTypes
    <3>. QED BY <3>1
  <2>3. LastItem(s) \in ItemsOf(outputs[4]) /\ LastItem(s).slot = s
    BY <2>1, <2>2, LastIs DEF LastItem, ItemsOf
  <2>. QED BY <2>1, <2>3 DEF FitsPillars
<1>2. plan.status \in {"AWAITING_APPROVAL", "COMPLETED"} =>
        \A i \in ItemsOf(outputs[4]) : assets[i.slot] # NotYet
  BY DEF PlanInv, PlanFits, AssetsAreWritten
<1>3. \A s \in AISteps : outputs[s] # NotYet => charged[s] >= 1
  <2>1. ASSUME NEW s \in AISteps, outputs[s] # NotYet PROVE s < plan.step
    <3>1. s \in 1..6
      BY DEF AISteps
    <3>. QED BY <2>1, <3>1, PlanTypes DEF PlanPart
  <2>. QED BY <2>1 DEF PlanInv, StepsPaid
<1>. QED BY <1>1, <1>2, <1>3 DEF PlanInv, StepsPaid, AssetsFitPlan, PaidFor

\* Only a request of its reviewers changes an asset, but for what the plan adds to it.
LEMMA ReviewStays == PlanInv /\ [PlanNext]_planVars => [ReviewKept]_planVars
<1>. SUFFICES ASSUME PlanInv, [PlanNext]_planVars PROVE [ReviewKept]_planVars
  OBVIOUS
<1>1. CASE assets' = assets
  BY <1>1 DEF ReviewKept
<1>2. CASE PersistAssets
  <2>1. ASSUME NEW s \in Slots, assets[s] # NotYet
        PROVE  /\ assets'[s] # NotYet
               /\ assets'[s].pillar = assets[s].pillar /\ assets'[s].caption = assets[s].caption
               /\ assets'[s].edited = assets[s].edited /\ assets'[s].status = assets[s].status
    <3>1. /\ RowsFor(outputs[4], Len(outputs[4]), s) # {} /\ assets[s] \in ContentAssets
          /\ assets[s].pillar = LastItem(s).pillar /\ assets[s].caption = LastItem(s).caption
      BY <2>1 DEF PlanInv, AssetsAreWritten, AreAssets
    <3>2. LastItem(s) \in Items /\ assets'[s] = Written(assets[s], LastItem(s))
      BY <1>2, <3>1, PersistIs
    <3>. QED BY <2>1, <3>1, <3>2, WrittenIs
  <2>. QED BY <2>1 DEF ReviewKept
<1>3. ASSUME NEW e \in Editors, PatchWrite(e) PROVE ReviewKept
  <2>1. patch[e] # NotYet /\ patch'[e] = NotYet
    BY <1>3 DEF PatchWrite, PlanInv, PatchesFit
  <2>2. ASSUME NEW s \in Slots, assets[s] # NotYet
        PROVE  /\ assets'[s] # NotYet
               /\ assets'[s].pillar = assets[s].pillar /\ assets'[s].caption = assets[s].caption
               /\ s # patch[e].slot => assets'[s] = assets[s]
    BY <1>3, <2>2, PatchIs, NotYetAssumption
  <2>. QED BY <2>1, <2>2 DEF ReviewKept
<1>4. CASE ~PersistAssets /\ (\A e \in Editors : ~PatchWrite(e)) /\ [PlanNext]_planVars
  <2>1. assets' = assets
    BY <1>4 DEF planVars, PlanNext, PlanGoesOn, ValidateContext, ValidateOutput, FirstContentTracked,
       AskApproval, CheckCredits, ProviderAnswers, ChargePlan, AlertChecked, ApprovePlan, RetryPlan,
       StepRejects, PlanDies, ProfileChanges, ProviderAnswersNonsense, PatchRead
  <2>. QED BY <1>1, <2>1
<1>. QED BY <1>2, <1>3, <1>4

(***************************************************************************)
(* What the pages show.                                                    *)
(***************************************************************************)
CacheRecords ==
  /\ entry \in [data : Versions \cup {NoValue}, invalid : BOOLEAN, fresh : BOOLEAN, failed : BOOLEAN]
  /\ writes = [w \in WriteSlots |-> writes[w]]
  /\ \A w \in WriteSlots : writes[w] # NoValue => writes[w] \in [write : Writes_, applied : 0..version]
\* A write under way changes the query that is followed.
WritesAreSeen == \A w \in WriteSlots : writes[w] # NoValue => key \in writes[w].write.changes
\* What the server answered is not older than what was told to the cache before the fetch
\* began, nor than what the entry holds.
AnswerIsNew ==
  fetch # NoValue /\ fetch.place = "answered" =>
    (late.fetch \/ fetch.value >= acked) /\ (entry.data # NoValue => fetch.value >= entry.data)
EntryIsNew ==
  entry.data # NoValue =>
    entry.data <= version /\ (~entry.invalid => late.data \/ entry.data >= acked)
\* The inductive invariant: whether an entry shows its user's writes was settled when the
\* server answered the fetch.
CacheInv == CacheTypeOK /\ CacheRecords /\ WritesAreSeen /\ AnswerIsNew /\ EntryIsNew
\* A key matches itself, and the longer keys that begin with it.
LEMMA PrefixOfKeys ==
  ASSUME NEW a, NEW b, NEW c
  PROVE  /\ IsPrefixOf(<<a>>, <<a>>) /\ IsPrefixOf(<<a>>, <<a, b>>)
         /\ IsPrefixOf(<<a, b>>, <<a, b>>) /\ IsPrefixOf(<<a, b>>, <<a, b, c>>)
<1>. DEFINE S == {a, b, c}
<1>1. <<a>> \in Seq(S) /\ <<a, b>> \in Seq(S) /\ <<a, b, c>> \in Seq(S)
  OBVIOUS
<1>2. Len(<<a>>) = 1 /\ Len(<<a, b>>) = 2 /\ Len(<<a, b, c>>) = 3
  OBVIOUS
<1>3. ASSUME NEW k \in Seq(S), NEW l \in Seq(S), Len(k) <= Len(l),
             \A i \in 1..Len(k) : k[i] = l[i]
      PROVE  IsPrefixOf(k, l)
  <2>. HIDE DEF S
  <2>1. Len(k) \in Nat /\ Len(l) \in Nat
    OBVIOUS
  <2>2. /\ SubSeq(l, 1, Len(k)) \in Seq(S) /\ Len(SubSeq(l, 1, Len(k))) = Len(k)
        /\ \A i \in 1..Len(k) : SubSeq(l, 1, Len(k))[i] = l[i]
    BY <1>3, <2>1
  <2>3. SubSeq(l, 1, Len(k)) = k
    BY <1>3, <2>2, SeqEqual
  <2>. QED BY <1>3, <2>3 DEF IsPrefixOf
<1>4. /\ <<a>>[1] = a /\ <<a, b>>[1] = a /\ <<a, b>>[2] = b
      /\ <<a, b, c>>[1] = a /\ <<a, b, c>>[2] = b
  OBVIOUS
<1>5. 1..1 = {1} /\ 1..2 = {1, 2}
  OBVIOUS
<1>. HIDE DEF S
<1>6. IsPrefixOf(<<a>>, <<a>>)
  <2>1. \A i \in 1..Len(<<a>>) : <<a>>[i] = <<a>>[i]
    BY <1>2, <1>4, <1>5
  <2>2. Len(<<a>>) <= Len(<<a>>)
    BY <1>2
  <2>. QED BY <1>1, <1>3, <2>1, <2>2
<1>7. IsPrefixOf(<<a>>, <<a, b>>)
  <2>1. \A i \in 1..Len(<<a>>) : <<a>>[i] = <<a, b>>[i]
    BY <1>2, <1>4, <1>5
  <2>2. Len(<<a>>) <= Len(<<a, b>>)
    BY <1>2
  <2>. QED BY <1>1, <1>3, <2>1, <2>2
<1>8. IsPrefixOf(<<a, b>>, <<a, b>>)
  <2>1. \A i \in 1..Len(<<a, b>>) : <<a, b>>[i] = <<a, b>>[i]
    BY <1>2, <1>4, <1>5
  <2>2. Len(<<a, b>>) <= Len(<<a, b>>)
    BY <1>2
  <2>. QED BY <1>1, <1>3, <2>1, <2>2
<1>9. IsPrefixOf(<<a, b>>, <<a, b, c>>)
  <2>1. \A i \in 1..Len(<<a, b>>) : <<a, b>>[i] = <<a, b, c>>[i]
    BY <1>2, <1>4, <1>5
  <2>2. Len(<<a, b>>) <= Len(<<a, b, c>>)
    BY <1>2
  <2>. QED BY <1>1, <1>3, <2>1, <2>2
<1>. QED BY <1>6, <1>7, <1>8, <1>9

\* Each write of the frontend invalidates the queries whose answer it changes.
LEMMA WritesTellTheirKeys ==
  ASSUME NEW x \in Writes_, NEW k \in x.changes
  PROVE  \E t \in x.tells : IsPrefixOf(t, k)
<1>1. /\ IsPrefixOf(Subscription_, Subscription_) /\ IsPrefixOf(Usage, Usage)
      /\ IsPrefixOf(Profiles, Profiles) /\ IsPrefixOf(<<"contacts">>, <<"contacts">>)
      /\ IsPrefixOf(<<"feedback">>, <<"feedback">>)
      /\ \A l \in {<<"members">>, <<"invitations">>} : IsPrefixOf(l, l)
      /\ \A l \in {UnreadCount, Preview, NotificationList} : IsPrefixOf(<<"notifications">>, l)
      /\ \A l \in {Retention, RetentionPreview} : IsPrefixOf(Retention, l)
      /\ IsPrefixOf(BackupsKey, BackupsKey)
  BY PrefixOfKeys DEF Subscription_, Usage, Profiles, UnreadCount, Preview, NotificationList,
     Retention, RetentionPreview, BackupsKey
<1>2. CASE x \in BillingWrites
  BY <1>1, <1>2 DEF BillingWrites
<1>3. CASE x \in CrmWrites
  BY <1>1, <1>3 DEF CrmWrites
<1>4. CASE x \in FeedbackWrites
  BY <1>1, <1>4 DEF FeedbackWrites
<1>5. CASE x \in ProfileWrites
  BY <1>1, <1>5 DEF ProfileWrites
<1>6. CASE x \in TeamWrites
  BY <1>1, <1>6 DEF TeamWrites
<1>7. CASE x \in ReadWrites
  BY <1>1, <1>7 DEF ReadWrites
<1>8. CASE x \in AdminWrites
  BY <1>1, <1>8 DEF AdminWrites
<1>. QED BY <1>2, <1>3, <1>4, <1>5, <1>6, <1>7, <1>8 DEF Writes_
LEMMA CacheStarts == CacheInit => CacheInv
<1>. SUFFICES ASSUME CacheInit PROVE CacheInv
  OBVIOUS
<1>1. "elsewhere" \in Pages
  BY DEF Pages, PageQueries
<1>2. /\ entry \in [data : Versions \cup {NoValue}, invalid : BOOLEAN, fresh : BOOLEAN, failed : BOOLEAN]
      /\ entry.data = NoValue /\ entry.fresh = FALSE
      /\ {entry.invalid, entry.fresh, entry.failed} \subseteq BOOLEAN
  BY DEF CacheInit, NoData
<1>3. 0 \in Versions /\ acked \in 0..version /\ fetchFaults \in 0..MaxFetchFaults /\ moves \in 0..MaxMoves
  BY ClientCacheAssumption DEF CacheInit, Versions
<1>4. late \in [fetch : BOOLEAN, data : BOOLEAN] /\ \A w \in WriteSlots : writes[w] = NoValue
  BY DEF CacheInit
<1>5. CacheTypeOK
  BY <1>1, <1>2, <1>3, <1>4 DEF CacheInit, CacheTypeOK
<1>. QED BY <1>2, <1>4, <1>5
     DEF CacheInit, CacheInv, CacheRecords, WritesAreSeen, AnswerIsNew, EntryIsNew

\* A fetch that starts, is joined or left alone disturbs nothing.
LEMMA FetchStartsKeep ==
  ASSUME CacheInv, FetchOrJoin \/ UNCHANGED <<fetch, late>>, page' \in Pages, bellOpen' \in BOOLEAN,
         moves' \in 0..MaxMoves,
         UNCHANGED <<key, entry, version, writes, acked, fetchFaults>>
  PROVE  CacheInv'
<1>1. CASE UNCHANGED <<fetch, late>>
  BY <1>1 DEF CacheInv, CacheTypeOK, CacheRecords, WritesAreSeen, AnswerIsNew, EntryIsNew
<1>2. CASE Starts
  <2>1. fetch' = [place |-> "asked", value |-> NoValue, try |-> 1] /\ fetch'.place # "answered"
    BY <1>2 DEF Starts, Asked
  <2>2. late' \in [fetch : BOOLEAN, data : BOOLEAN] /\ late'.data = late.data
    BY <1>2 DEF Starts, CacheInv, CacheTypeOK
  <2>. QED BY <2>1, <2>2 DEF CacheInv, CacheTypeOK, CacheRecords, WritesAreSeen, AnswerIsNew, EntryIsNew
<1>. QED BY <1>1, <1>2 DEF FetchOrJoin

LEMMA PageMovesKeep ==
  ASSUME CacheInv, NEW p \in Pages, GoTo(p) \/ ToggleBell \/ Refetch
  PROVE  CacheInv'
<1>1. ASSUME NEW q \in Pages, NEW open \in BOOLEAN, Shows(q, open) PROVE CacheInv'
  BY <1>1, FetchStartsKeep, ClientCacheAssumption DEF Shows, CacheInv, CacheTypeOK
<1>2. CASE GoTo(p)
  BY <1>1, <1>2 DEF GoTo
<1>3. CASE ToggleBell
  BY <1>1, <1>3 DEF ToggleBell, CacheInv, CacheTypeOK
<1>4. CASE Refetch
  BY <1>4, FetchStartsKeep DEF Refetch, CacheInv, CacheTypeOK
<1>. QED BY <1>2, <1>3, <1>4

LEMMA ServerReadsKeeps ==
  ASSUME CacheInv, ServerReads
  PROVE  CacheInv'
<1>0. fetch \in [place : {"asked"}, value : {NoValue}, try : {1, 2}] /\ fetch # NoValue
  BY DEF ServerReads, CacheInv, CacheTypeOK
<1>1. /\ fetch' = [place |-> "answered", value |-> version, try |-> fetch.try]
      /\ fetch.try \in {1, 2}
  BY <1>0 DEF ServerReads
<1>a. version \in Nat /\ acked <= version
  BY ClientCacheAssumption DEF CacheInv, CacheTypeOK, Versions
<1>2. fetch'.value = version /\ version \in 0..version
  BY <1>1, <1>a
<1>3. fetch' \in [place : {"answered"}, value : 0..version, try : {1, 2}]
  BY <1>1, <1>2
<1>. QED BY <1>2, <1>3, <1>a DEF ServerReads, CacheInv, CacheTypeOK, CacheRecords, WritesAreSeen,
            AnswerIsNew, EntryIsNew

LEMMA FetchArrivesKeeps ==
  ASSUME CacheInv, FetchArrives
  PROVE  CacheInv'
<1>1. fetch.value \in 0..version /\ version \in Versions /\ Versions \subseteq Nat
  BY ClientCacheAssumption DEF FetchArrives, CacheInv, CacheTypeOK, Versions
<1>2. /\ entry'.data = fetch.value /\ entry'.data \in Versions /\ entry'.data <= version
      /\ entry'.data # NoValue
      /\ entry' \in [data : Versions \cup {NoValue}, invalid : BOOLEAN, fresh : BOOLEAN, failed : BOOLEAN]
  BY <1>1, ClientCacheAssumption DEF FetchArrives, Versions
<1>3. late' \in [fetch : BOOLEAN, data : BOOLEAN] /\ late'.data = late.fetch
  BY DEF FetchArrives, CacheInv, CacheTypeOK
<1>4. late'.data \/ entry'.data >= acked
  BY <1>2, <1>3 DEF FetchArrives, CacheInv, AnswerIsNew
<1>5. entry'.invalid \in BOOLEAN /\ entry'.fresh \in BOOLEAN /\ entry'.failed \in BOOLEAN
  BY <1>2
<1>6. fetch' = NoValue
  BY DEF FetchArrives
<1>. QED BY <1>2, <1>3, <1>4, <1>5, <1>6 DEF FetchArrives, CacheInv, CacheTypeOK, CacheRecords,
            WritesAreSeen, AnswerIsNew, EntryIsNew

LEMMA FetchRejectsKeeps ==
  ASSUME CacheInv, FetchRejects
  PROVE  CacheInv'
<1>1. fetchFaults' \in 0..MaxFetchFaults
  BY ClientCacheAssumption DEF FetchRejects, CacheInv, CacheTypeOK
<1>2. CASE fetch' = [Asked EXCEPT !.try = 2] /\ UNCHANGED entry
  <2>1. /\ fetch' = [place |-> "asked", value |-> NoValue, try |-> 2] /\ fetch'.place # "answered"
        /\ fetch' \in [place : {"asked"}, value : {NoValue}, try : {1, 2}]
    BY <1>2 DEF Asked
  <2>. QED BY <1>1, <1>2, <2>1 DEF FetchRejects, CacheInv, CacheTypeOK, CacheRecords, WritesAreSeen,
              AnswerIsNew, EntryIsNew
<1>3. CASE fetch' = NoValue /\ entry' = [entry EXCEPT !.failed = TRUE]
  <2>1. /\ entry'.data = entry.data /\ entry'.invalid = entry.invalid /\ entry'.fresh = entry.fresh
        /\ entry' \in [data : Versions \cup {NoValue}, invalid : BOOLEAN, fresh : BOOLEAN, failed : BOOLEAN]
    BY <1>3 DEF CacheInv, CacheRecords
  <2>2. entry'.failed \in BOOLEAN
    BY <2>1
  <2>. QED BY <1>1, <1>3, <2>1, <2>2 DEF FetchRejects, CacheInv, CacheTypeOK, CacheRecords,
              WritesAreSeen, AnswerIsNew, EntryIsNew
<1>. QED BY <1>2, <1>3 DEF FetchRejects

LEMMA AgeKeeps ==
  ASSUME CacheInv, Age \/ Collect
  PROVE  CacheInv'
<1>1. /\ entry' \in [data : Versions \cup {NoValue}, invalid : BOOLEAN, fresh : BOOLEAN, failed : BOOLEAN]
      /\ ~entry'.fresh
      /\ entry'.data # NoValue => entry'.data = entry.data /\ entry'.invalid = entry.invalid
  <2>1. CASE Age
    BY <2>1 DEF Age, CacheInv, CacheRecords
  <2>2. CASE Collect
    BY <2>2 DEF Collect, NoData
  <2>. QED BY <2>1, <2>2
<1>2. entry'.invalid \in BOOLEAN /\ entry'.fresh \in BOOLEAN /\ entry'.failed \in BOOLEAN
      /\ entry'.data \in Versions \cup {NoValue}
  BY <1>1
<1>. QED BY <1>1, <1>2 DEF Age, Collect, CacheInv, CacheTypeOK, CacheRecords, WritesAreSeen,
            AnswerIsNew, EntryIsNew

LEMMA OthersWriteKeeps ==
  ASSUME CacheInv, OthersWrite
  PROVE  CacheInv'
<1>1. version \in Nat /\ version' = version + 1 /\ version' \in Versions /\ 0..version \subseteq 0..version'
  BY ClientCacheAssumption DEF OthersWrite, CacheInv, CacheTypeOK, Versions
<1>2. Versions \subseteq Nat
  BY DEF Versions
<1>. QED BY <1>1, <1>2, ClientCacheAssumption DEF OthersWrite, CacheInv, CacheTypeOK, CacheRecords,
            WritesAreSeen, AnswerIsNew, EntryIsNew

LEMMA SendKeeps ==
  ASSUME CacheInv, NEW w \in WriteSlots, Send(w)
  PROVE  CacheInv'
<1>1. PICK x \in Writes_ : key \in x.changes /\ writes' = [writes EXCEPT ![w] = [write |-> x, applied |-> 0]]
  BY DEF Send
<1>2. writes = [v \in WriteSlots |-> writes[v]]
  BY DEF CacheInv, CacheRecords
<1>3. writes' = [v \in WriteSlots |-> IF v = w THEN [write |-> x, applied |-> 0] ELSE writes[v]]
  BY <1>1, <1>2
<1>4. 0 \in 0..version
  BY DEF CacheInv, CacheTypeOK, Versions
<1>5. \A v \in WriteSlots : writes'[v] # NoValue =>
        /\ writes'[v] \in [write : Writes_, applied : 0..version] /\ key \in writes'[v].write.changes
        /\ writes'[v].write \in Writes_ /\ writes'[v].applied \in 0..version
  BY <1>1, <1>3, <1>4 DEF CacheInv, CacheTypeOK, CacheRecords, WritesAreSeen
<1>6. writes' = [v \in WriteSlots |-> writes'[v]]
  BY <1>3
<1>. QED BY <1>5, <1>6 DEF Send, CacheInv, CacheTypeOK, CacheRecords, WritesAreSeen, AnswerIsNew, EntryIsNew

LEMMA ServerWritesKeeps ==
  ASSUME CacheInv, NEW w \in WriteSlots, ServerWrites(w)
  PROVE  CacheInv'
<1>1. version \in Nat /\ version' = version + 1 /\ version' \in Versions /\ 0..version \subseteq 0..version'
  BY ClientCacheAssumption DEF ServerWrites, CacheInv, CacheTypeOK, Versions
<1>2. Versions \subseteq Nat
  BY DEF Versions
<1>3. /\ writes = [v \in WriteSlots |-> writes[v]] /\ writes[w] # NoValue
      /\ writes[w] \in [write : Writes_, applied : 0..version] /\ key \in writes[w].write.changes
  BY DEF ServerWrites, CacheInv, CacheRecords, WritesAreSeen
<1>4. [writes[w] EXCEPT !.applied = version'] = [write |-> writes[w].write, applied |-> version']
  BY <1>3
<1>5. writes' = [v \in WriteSlots |->
                   IF v = w THEN [write |-> writes[w].write, applied |-> version'] ELSE writes[v]]
  BY <1>3, <1>4 DEF ServerWrites
<1>6. version' \in 0..version'
  BY <1>1
<1>7. \A v \in WriteSlots : writes'[v] # NoValue =>
        /\ writes'[v] \in [write : Writes_, applied : 0..version'] /\ key \in writes'[v].write.changes
        /\ writes'[v].write \in Writes_ /\ writes'[v].applied \in 0..version'
  BY <1>1, <1>3, <1>5, <1>6 DEF CacheInv, CacheTypeOK, CacheRecords, WritesAreSeen
<1>8. writes' = [v \in WriteSlots |-> writes'[v]]
  BY <1>5
<1>. QED BY <1>1, <1>2, <1>7, <1>8, ClientCacheAssumption
     DEF ServerWrites, CacheInv, CacheTypeOK, CacheRecords, WritesAreSeen, AnswerIsNew, EntryIsNew

\* A write that is over leaves the others.
LEMMA WriteOver ==
  ASSUME CacheInv, NEW w \in WriteSlots, writes' = [writes EXCEPT ![w] = NoValue],
         UNCHANGED <<key, version>>
  PROVE  /\ (\A v \in WriteSlots : writes[v] # NoValue =>
               writes[v].write \in Writes_ /\ writes[v].applied \in 0..version)'
         /\ (writes = [v \in WriteSlots |-> writes[v]])'
         /\ (\A v \in WriteSlots : writes[v] # NoValue => writes[v] \in [write : Writes_, applied : 0..version])'
         /\ WritesAreSeen'
<1>1. writes' = [v \in WriteSlots |-> IF v = w THEN NoValue ELSE writes[v]]
  BY DEF CacheInv, CacheRecords
<1>2. writes' = [v \in WriteSlots |-> writes'[v]]
  BY <1>1
<1>. QED BY <1>1, <1>2 DEF CacheInv, CacheTypeOK, CacheRecords, WritesAreSeen

LEMMA WriteFailsKeeps ==
  ASSUME CacheInv, NEW w \in WriteSlots, WriteFails(w)
  PROVE  CacheInv'
<1>1. fetchFaults' \in 0..MaxFetchFaults
  BY ClientCacheAssumption DEF WriteFails, CacheInv, CacheTypeOK
<1>. QED BY <1>1, WriteOver DEF WriteFails, CacheInv, CacheTypeOK, CacheRecords, AnswerIsNew, EntryIsNew

\* An answered write marks the entry, and the fetch that may have missed it.
LEMMA WriteAnsweredKeeps ==
  ASSUME CacheInv, NEW w \in WriteSlots, WriteAnswered(w)
  PROVE  CacheInv'
<1>1. /\ writes[w] # NoValue /\ writes[w].write \in Writes_ /\ writes[w].applied \in 0..version
      /\ key \in writes[w].write.changes
  BY DEF WriteAnswered, CacheInv, CacheTypeOK, WritesAreSeen
<1>2. \E k \in writes[w].write.tells : Matches(k)
  BY <1>1, WritesTellTheirKeys DEF Matches
<1>3. acked' \in 0..version
  BY <1>1 DEF WriteAnswered, CacheInv, CacheTypeOK
<1>4. /\ entry' = IF entry = NoData THEN entry ELSE [entry EXCEPT !.invalid = TRUE]
      /\ \/ Starts
         \/ UNCHANGED fetch /\ late' = [late EXCEPT !.fetch = TRUE]
  BY <1>2 DEF WriteAnswered
<1>5. /\ entry' \in [data : Versions \cup {NoValue}, invalid : BOOLEAN, fresh : BOOLEAN, failed : BOOLEAN]
      /\ entry'.data = entry.data /\ entry'.fresh = entry.fresh /\ (entry.data # NoValue => entry'.invalid)
  <2>1. CASE entry = NoData
    BY <1>4, <2>1 DEF NoData, CacheInv, CacheRecords
  <2>2. CASE entry # NoData
    BY <1>4, <2>2 DEF CacheInv, CacheRecords
  <2>. QED BY <2>1, <2>2
<1>6. entry'.invalid \in BOOLEAN /\ entry'.fresh \in BOOLEAN /\ entry'.failed \in BOOLEAN
  BY <1>5
<1>7. late' \in [fetch : BOOLEAN, data : BOOLEAN] /\ late'.data = late.data
  BY <1>4 DEF Starts, CacheInv, CacheTypeOK
<1>8. UNCHANGED <<key, version, page, bellOpen, fetchFaults, moves>> /\ writes' = [writes EXCEPT ![w] = NoValue]
  BY DEF WriteAnswered
<1>9. /\ fetch' # NoValue => fetch' \in [place : {"asked"}, value : {NoValue}, try : {1, 2}]
                                         \cup [place : {"answered"}, value : 0..version, try : {1, 2}]
      /\ AnswerIsNew'
  <2>1. CASE Starts
    <3>1. /\ fetch' = [place |-> "asked", value |-> NoValue, try |-> 1] /\ fetch'.place # "answered"
          /\ fetch' \in [place : {"asked"}, value : {NoValue}, try : {1, 2}]
      BY <2>1 DEF Starts, Asked
    <3>. QED BY <3>1 DEF AnswerIsNew
  <2>2. CASE UNCHANGED fetch /\ late' = [late EXCEPT !.fetch = TRUE]
    <3>1. late'.fetch = TRUE
      BY <2>2 DEF CacheInv, CacheTypeOK
    <3>. QED BY <1>5, <2>2, <3>1 DEF CacheInv, CacheTypeOK, AnswerIsNew
  <2>. QED BY <1>4, <2>1, <2>2
<1>10. EntryIsNew'
  BY <1>5, <1>8 DEF CacheInv, EntryIsNew
<1>11. CacheTypeOK'
  BY <1>3, <1>5, <1>6, <1>7, <1>8, <1>9, WriteOver DEF CacheInv, CacheTypeOK
<1>. QED BY <1>5, <1>8, <1>9, <1>10, <1>11, WriteOver DEF CacheInv, CacheRecords

LEMMA CacheStepKeeps == CacheInv /\ [CacheNext]_cacheVars => CacheInv'
<1>. SUFFICES ASSUME CacheInv, [CacheNext]_cacheVars PROVE CacheInv'
  OBVIOUS
<1>1. CASE UNCHANGED cacheVars
  BY <1>1 DEF cacheVars, CacheInv, CacheTypeOK, CacheRecords, WritesAreSeen, AnswerIsNew, EntryIsNew
<1>2. ASSUME NEW p \in Pages, GoTo(p) PROVE CacheInv'
  BY <1>2, PageMovesKeep
<1>3. CASE ToggleBell \/ Refetch
  <2>1. page \in Pages
    BY DEF CacheInv, CacheTypeOK
  <2>. QED BY <1>3, <2>1, PageMovesKeep
<1>4. CASE CacheGoesOn \/ FetchRejects
  BY <1>4, ServerReadsKeeps, FetchArrivesKeeps, FetchRejectsKeeps DEF CacheGoesOn
<1>5. CASE Age \/ Collect \/ OthersWrite
  BY <1>5, AgeKeeps, OthersWriteKeeps
<1>6. ASSUME NEW w \in WriteSlots, Send(w) \/ WriteGoesOn(w) \/ WriteFails(w) PROVE CacheInv'
  BY <1>6, SendKeeps, ServerWritesKeeps, WriteAnsweredKeeps, WriteFailsKeeps DEF WriteGoesOn
<1>. QED BY <1>1, <1>2, <1>3, <1>4, <1>5, <1>6 DEF CacheNext

LEMMA CacheSays == CacheInv => CacheTypeOK /\ OwnWritesShow
  BY DEF CacheInv, EntryIsNew, OwnWritesShow

\* Data comes from the one fetch under way, which left after the data before it had come.
LEMMA DataGoesForward == CacheInv /\ [CacheNext]_cacheVars => [NeverGoesBack]_cacheVars
<1>. SUFFICES ASSUME CacheInv, [CacheNext]_cacheVars PROVE [NeverGoesBack]_cacheVars
  OBVIOUS
<1>0. entry.data # NoValue => entry.data >= entry.data
  BY DEF CacheInv, CacheRecords, Versions
<1>1. CASE UNCHANGED cacheVars
  BY <1>1
<1>2. CASE entry' = entry
  BY <1>0, <1>2 DEF NeverGoesBack
<1>3. CASE FetchArrives
  BY <1>3 DEF FetchArrives, NeverGoesBack, CacheInv, AnswerIsNew
<1>4. CASE FetchRejects \/ Age \/ Collect
  <2>1. entry'.data = entry.data \/ entry'.data = NoValue
    BY <1>4 DEF FetchRejects, Age, Collect, NoData, CacheInv, CacheRecords
  <2>. QED BY <1>0, <2>1 DEF NeverGoesBack
<1>5. ASSUME NEW w \in WriteSlots, WriteAnswered(w) PROVE NeverGoesBack
  <2>1. entry' = entry \/ entry' = [entry EXCEPT !.invalid = TRUE]
    BY <1>5 DEF WriteAnswered
  <2>2. entry'.data = entry.data
    BY <2>1 DEF CacheInv, CacheRecords
  <2>. QED BY <1>0, <2>2 DEF NeverGoesBack
<1>6. CASE /\ ~FetchArrives /\ ~FetchRejects /\ ~Age /\ ~Collect
           /\ \A w \in WriteSlots : ~WriteAnswered(w)
           /\ CacheNext
  BY <1>2, <1>6 DEF CacheNext, GoTo, ToggleBell, Shows, Refetch, CacheGoesOn, ServerReads, OthersWrite, Send,
     WriteGoesOn, ServerWrites, WriteFails
<1>. QED BY <1>1, <1>3, <1>4, <1>5, <1>6

(***************************************************************************)
(* The plan and the pages in one specification with the engine.            *)
(***************************************************************************)
LEMMA PartsMove == [ReviewNext]_reviewVars => [PlanNext]_planVars /\ [CacheNext]_cacheVars
  BY DEF ReviewNext, reviewVars

\* In every reachable state of the plan the invariant holds, also while people review and
\* after any step that failed (marketing-autopilot.steps.ts).
THEOREM PlanInvariant == ReviewSpec => []PlanInv
<1>1. ReviewInit => PlanInv
  BY PlanStarts DEF ReviewInit
<1>2. PlanInv /\ [ReviewNext]_reviewVars => PlanInv'
  BY PartsMove, PlanStepKeeps
<1>. QED BY <1>1, <1>2, PTL DEF ReviewSpec

\* And that of the pages, for every query key (QueryProvider, the hooks of the features).
THEOREM PagesInvariant == ReviewSpec => []CacheInv
<1>1. ReviewInit => CacheInv
  BY CacheStarts DEF ReviewInit
<1>2. CacheInv /\ [ReviewNext]_reviewVars => CacheInv'
  BY PartsMove, CacheStepKeeps
<1>. QED BY <1>1, <1>2, PTL DEF ReviewSpec

\* Whatever calendars, slots, editors, retries and failures: the assets people review are
\* the validated calendar's and were paid for (steps 4 to 6 of marketing-autopilot.steps.ts),
\* no step of the plan takes a decision back (the upsert of step 6), a page shows no data
\* older than what its user was told was written unless a fetch is due, and never goes back
\* (QueryProvider and the invalidations of the features).
THEOREM ReviewAlwaysHolds == ReviewSpec => ReviewHolds
<1>1. PlanInv => PlanTypeOK /\ AssetsFitPlan /\ PaidFor
  BY PlanSays DEF PlanInv
<1>2. PlanInv /\ [ReviewNext]_reviewVars => [ReviewKept]_planVars
  BY PartsMove, ReviewStays
<1>3. CacheInv => CacheTypeOK /\ OwnWritesShow
  BY CacheSays
<1>4. CacheInv /\ [ReviewNext]_reviewVars => [NeverGoesBack]_cacheVars
  BY PartsMove, DataGoesForward
<1>. QED
  BY <1>1, <1>2, <1>3, <1>4, PlanInvariant, PagesInvariant, PTL DEF ReviewSpec, ReviewHolds

\* With one starter the calls on an instance execute one at a time, in order, and overwrite
\* nobody, in the one specification of engine, plan and pages (workflow-engine.service.ts).
THEOREM EngineKeepsItsWord ==
  ASSUME OneStarter
  PROVE  ReviewSpec => [](TypeOK /\ SoleExecutor /\ StepsInOrder) /\ OverwritesNothing
<1>1. [ReviewNext]_reviewVars => [Next]_vars
  BY DEF ReviewNext, reviewVars
<1>2. ReviewInit => EngineInv
  BY InitInvariant DEF ReviewInit
<1>3. EngineInv /\ [ReviewNext]_reviewVars => EngineInv'
  BY <1>1, NextInvariant
<1>4. EngineInv => TypeOK /\ SoleExecutor /\ StepsInOrder /\ RestIsQuiet
  BY EngineSays
<1>5. EngineInv /\ [ReviewNext]_reviewVars => [status' # status => status' \in NextStatuses[status]]_vars
  BY <1>1, StepsAreLegal
<1>. QED
  BY <1>2, <1>3, <1>4, <1>5, PTL DEF ReviewSpec, OverwritesNothing, LegalTransitions
===============================================================================
