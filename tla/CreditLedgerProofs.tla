--------------------------- MODULE CreditLedgerProofs ---------------------------
(***************************************************************************)
(* Proofs about CreditLedger for any number of steps and grants, any prices,  *)
(* amounts and retries, with and without failing event statements.            *)
(***************************************************************************)
EXTENDS CreditLedger, TLAPS

\* A call inside its transaction holds the Workspace row.
Exclusive == \A c \in Callers : pc[c] = "charging" => lock = c

\* What it has summed up so far is what the tables hold now.
SumIsCurrent == \A c \in Callers : pc[c] = "charging" =>
  sum[c] = (IF "AICredit" \in left[c] THEN 0 ELSE supply)
             - (IF "AIUsage" \in left[c] THEN 0 ELSE used)

\* The inductive invariant: neither NeverOverdrawn nor SnapshotExact follows
\* from the types, both need the balance read to be current at the commit.
IInv == TypeOK /\ Exclusive /\ SumIsCurrent /\ FirstActionOnce

\* The initial states satisfy the inductive invariant.
LEMMA InitInvariant == Init => IInv
  BY CreditAssumption
  DEF Init, IInv, TypeOK, Exclusive, SumIsCurrent, FirstActionOnce, Callers, Stages, Ended, Tables

\* A handler that throws leaves its transaction and stays well-typed.
LEMMA ThrowTyped ==
  ASSUME NEW a \in Actions, TypeOK, Throw(a)
  PROVE  /\ pc' \in [Callers -> Stages]
         /\ \A g \in Grantors : pc'[g] = pc[g]
         /\ left' \in [Callers -> SUBSET Tables]
         /\ sum' \in [Callers -> Int]
         /\ tries' \in [Actions -> 1..MaxStepAttempts]
         /\ pc'[a] # "charging"
         /\ \A c \in Callers \ {a} : pc'[c] = pc[c] /\ left'[c] = left[c] /\ sum'[c] = sum[c]
<1>. USE CreditAssumption DEF TypeOK, Callers, Stages, Ended
<1>1. CASE /\ MayRetry(a)
           /\ tries' = [tries EXCEPT ![a] = @ + 1]
           /\ Goto(a, "checking") /\ StartSum(a)
  BY <1>1 DEF MayRetry, Goto, StartSum
<1>2. CASE Goto(a, "failed") /\ UNCHANGED <<left, sum, tries>>
  BY <1>2 DEF Goto
<1>. QED BY <1>1, <1>2 DEF Throw

\* A step handler starts outside any transaction.
LEMMA BeginStep == ASSUME NEW a \in Actions, IInv, Begin(a) PROVE IInv'
<1>. USE CreditAssumption DEF IInv, Callers, Stages, Ended, Tables, Begin, Goto, StartSum, ledger, history
<1>1. TypeOK'
  BY DEF TypeOK
<1>2. Exclusive' /\ SumIsCurrent' /\ FirstActionOnce'
  BY DEF TypeOK, Exclusive, SumIsCurrent, FirstActionOnce
<1>. QED BY <1>1, <1>2

\* So does a call of grantCredits.
LEMMA RequestStep == ASSUME NEW g \in Grantors, IInv, Request(g) PROVE IInv'
<1>. USE CreditAssumption DEF IInv, Callers, Stages, Ended, Tables, Request, Goto, ledger, history
<1>1. TypeOK'
  BY DEF TypeOK
<1>2. Exclusive' /\ SumIsCurrent' /\ FirstActionOnce'
  BY DEF TypeOK, Exclusive, SumIsCurrent, FirstActionOnce
<1>. QED BY <1>1, <1>2

\* An aggregate adds the present sum of its table.
LEMMA ComputeBalanceStep == ASSUME NEW c \in Callers, IInv, ComputeBalance(c) PROVE IInv'
<1>. USE CreditAssumption DEF IInv, Callers, Stages, Ended, Tables, ComputeBalance, ledger, history
<1>1. TypeOK'
  BY DEF TypeOK
<1>2. Exclusive' /\ FirstActionOnce'
  BY DEF TypeOK, Exclusive, FirstActionOnce
<1>3. SumIsCurrent'
  <2>1. PICK t \in left[c] :
          /\ left' = [left EXCEPT ![c] = @ \ {t}]
          /\ sum' = [sum EXCEPT ![c] = @ + (IF t = "AICredit" THEN supply ELSE -used)]
    OBVIOUS
  <2>2. SUFFICES ASSUME NEW d \in Callers, pc[d] = "charging"
                 PROVE  sum'[d] = (IF "AICredit" \in left'[d] THEN 0 ELSE supply)
                                    - (IF "AIUsage" \in left'[d] THEN 0 ELSE used)
    BY DEF SumIsCurrent
  <2>3. CASE d # c
    BY <2>1, <2>2, <2>3 DEF TypeOK, SumIsCurrent
  <2>4. CASE d = c /\ t = "AICredit"
    <3>1. sum'[c] = sum[c] + supply /\ left'[c] = left[c] \ {"AICredit"} /\ "AICredit" \in left[c]
      BY <2>1, <2>4 DEF TypeOK
    <3>. QED BY <3>1, <2>2, <2>4 DEF TypeOK, SumIsCurrent
  <2>5. CASE d = c /\ t = "AIUsage"
    <3>1. sum'[c] = sum[c] - used /\ left'[c] = left[c] \ {"AIUsage"} /\ "AIUsage" \in left[c]
      BY <2>1, <2>5 DEF TypeOK
    <3>. QED BY <3>1, <2>2, <2>5 DEF TypeOK, SumIsCurrent
  <2>6. t \in Tables
    BY DEF TypeOK
  <2>. QED BY <2>3, <2>4, <2>5, <2>6
<1>. QED BY <1>1, <1>2, <1>3

\* Neither the check nor the provider touches the ledger.
LEMMA OutsideStep ==
  ASSUME NEW a \in Actions, IInv, AssertSufficient(a) \/ Provide(a) \/ Alert(a)
  PROVE  IInv'
<1>. USE CreditAssumption
     DEF IInv, Callers, Stages, Ended, Tables, AssertSufficient, Provide, Alert, Following, Goto,
         ledger, history
<1>1. TypeOK'
  BY DEF TypeOK
<1>2. Exclusive' /\ SumIsCurrent' /\ FirstActionOnce'
  BY DEF TypeOK, Exclusive, SumIsCurrent, FirstActionOnce
<1>. QED BY <1>1, <1>2

\* The lock goes to one transaction, which has summed up nothing yet.
LEMMA LockStep == ASSUME NEW c \in Callers, IInv, Lock(c) PROVE IInv'
<1>. USE CreditAssumption
     DEF IInv, Callers, Stages, Ended, Tables, Lock, MayLock, Goto, StartSum, ledger, history
<1>1. TypeOK'
  BY DEF TypeOK
<1>2. Exclusive' /\ FirstActionOnce'
  BY DEF TypeOK, Exclusive, FirstActionOnce
<1>3. SumIsCurrent'
  BY DEF TypeOK, Exclusive, SumIsCurrent
<1>. QED BY <1>1, <1>2, <1>3

\* The first charge writes the event. No other call holds the lock, so none has
\* a sum that the charge could make stale.
LEMMA ChargeStep == ASSUME NEW a \in Actions, IInv, Charge(a) PROVE IInv'
<1>. USE CreditAssumption DEF IInv, Callers
<1>1. a \in Callers /\ pc[a] = "charging" /\ \A c \in Callers \ {a} : pc[c] # "charging"
  BY DEF Charge, Exclusive
<1>2. /\ pc' \in [Callers -> Stages]
      /\ pc'[a] # "charging"
      /\ \A c \in Callers \ {a} : pc'[c] = pc[c]
      /\ left' \in [Callers -> SUBSET Tables] /\ sum' \in [Callers -> Int]
      /\ tries' \in [Actions -> 1..MaxStepAttempts]
  <2>1. CASE Throw(a)
    BY <2>1, ThrowTyped
  <2>2. CASE /\ UNCHANGED <<left, sum, tries>>
             /\ \/ Goto(a, "failed")
                \/ Goto(a, Following("charging"))
    BY <2>2, <1>1 DEF TypeOK, Goto, Following, Stages, Ended
  <2>. QED BY <2>1, <2>2 DEF Charge
<1>3. \/ UNCHANGED <<ledger, history>>
      \/ Record(a) /\ (UNCHANGED late \/ late' = [late EXCEPT ![a] = @ + 1])
  BY DEF Charge
<1>4. TypeOK'
  <2>1. lock' \in Callers \cup {Nobody} /\ amount' = amount
    BY DEF Charge, Unlock, TypeOK
  <2>2. /\ supply' \in Int /\ used' \in Nat /\ balanceAfter' \in Int /\ firstEvents' \in Nat
        /\ charges' \in [Actions -> Nat] /\ late' \in [Actions -> Nat]
    BY <1>3 DEF TypeOK, Record, EventDue, ledger, history
  <2>3. \A g \in Grantors : pc'[g] \notin {"checking", "calling", "alerting"}
    BY <1>2 DEF TypeOK
  <2>. QED BY <1>2, <2>1, <2>2, <2>3 DEF TypeOK
<1>5. Exclusive' /\ SumIsCurrent'
  BY <1>1, <1>2 DEF Exclusive, SumIsCurrent
<1>6. FirstActionOnce'
  BY <1>3 DEF TypeOK, FirstActionOnce, Record, EventDue, ledger
<1>. QED BY <1>4, <1>5, <1>6

\* Likewise for a grant.
LEMMA GrantsStep == ASSUME NEW g \in Grantors, IInv, Grant(g) \/ GrantFault(g) PROVE IInv'
<1>. USE CreditAssumption DEF IInv, Callers, Grant, GrantFault, Goto, Unlock
<1>1. TypeOK'
  BY DEF TypeOK, Stages, Ended, ledger, history
<1>2. Exclusive' /\ FirstActionOnce'
  BY DEF TypeOK, Exclusive, FirstActionOnce, Ended, ledger, history
<1>3. SumIsCurrent'
  <2>1. CASE pc[g] = "charging"
    BY <2>1 DEF TypeOK, Exclusive, SumIsCurrent, Ended
  <2>2. CASE pc[g] # "charging"
    BY <2>2 DEF TypeOK, SumIsCurrent, ledger
  <2>. QED BY <2>1, <2>2
<1>. QED BY <1>1, <1>2, <1>3

\* A fault rolls everything back and gives the lock up.
LEMMA StepFaultStep == ASSUME NEW a \in Actions, IInv, StepFault(a) PROVE IInv'
<1>. USE CreditAssumption DEF IInv, Callers, StepFault
<1>1. /\ pc'[a] # "charging"
      /\ \A c \in Callers \ {a} : pc'[c] = pc[c] /\ left'[c] = left[c] /\ sum'[c] = sum[c]
  BY ThrowTyped
<1>2. TypeOK'
  <2>1. /\ pc' \in [Callers -> Stages] /\ left' \in [Callers -> SUBSET Tables]
        /\ sum' \in [Callers -> Int] /\ tries' \in [Actions -> 1..MaxStepAttempts]
        /\ \A g \in Grantors : pc'[g] \notin {"checking", "calling", "alerting"}
    BY ThrowTyped DEF TypeOK
  <2>2. lock' \in Callers \cup {Nobody} /\ late' \in [Actions -> Nat]
    BY DEF TypeOK, Unlock
  <2>. QED BY <2>1, <2>2 DEF TypeOK, ledger
<1>3. Exclusive' /\ SumIsCurrent' /\ FirstActionOnce'
  BY <1>1 DEF TypeOK, Exclusive, SumIsCurrent, FirstActionOnce, Unlock, ledger
<1>. QED BY <1>2, <1>3

\* Every step of the ledger preserves the inductive invariant.
LEMMA NextInvariant == IInv /\ [Next]_vars => IInv'
<1>. SUFFICES ASSUME IInv, [Next]_vars PROVE IInv'
  OBVIOUS
<1>1. CASE UNCHANGED vars
  BY <1>1 DEF IInv, TypeOK, Exclusive, SumIsCurrent, FirstActionOnce, vars, ledger, history
<1>2. ASSUME NEW a \in Actions, Begin(a) \/ ActionStep(a) \/ StepFault(a) PROVE IInv'
  BY <1>2, BeginStep, ComputeBalanceStep, OutsideStep, LockStep, ChargeStep, StepFaultStep
  DEF ActionStep, Callers
<1>3. ASSUME NEW g \in Grantors, Request(g) \/ GrantStep(g) \/ GrantFault(g) PROVE IInv'
  BY <1>3, RequestStep, ComputeBalanceStep, LockStep, GrantsStep DEF GrantStep, Callers
<1>. QED BY <1>1, <1>2, <1>3 DEF Next

\* The inductive invariant holds in every reachable state.
THEOREM Invariant == Spec => []IInv
  BY InitInvariant, NextInvariant, PTL DEF Spec

\* The ledger and the locals of its callers stay well-typed.
THEOREM TypeCorrect == Spec => []TypeOK
<1>1. IInv => TypeOK
  BY DEF IInv
<1>. QED BY <1>1, Invariant, PTL

\* FIRST_AI_ACTION is written once, by the first charge, for any number of
\* concurrent steps (recordUsage, lines 123-134).
THEOREM FirstEventIsOnce == Spec => []FirstActionOnce
<1>1. IInv => FirstActionOnce
  BY DEF IInv
<1>. QED BY <1>1, Invariant, PTL

\* Only a charge against a sufficient current balance consumes credits, and
\* only grants with the true balance after them supply any.
LEMMA LedgerSteps ==
  ASSUME IInv, [Next]_vars
  PROVE  /\ used' # used => used' <= supply'
         /\ supply' # supply => balanceAfter' = supply' - used'
<1>1. CASE \E a \in Actions : Charge(a)
  <2>1. PICK a \in Actions : Charge(a)
    BY <1>1
  <2>2. sum[a] = supply - used
    BY <2>1 DEF IInv, SumIsCurrent, Charge, Callers
  <2>3. supply' = supply /\ (used' = used \/ (used' = used + Cost[a] /\ sum[a] >= Cost[a]))
    BY <2>1 DEF Charge, Record, ledger
  <2>. QED BY <2>2, <2>3, CreditAssumption DEF IInv, TypeOK
<1>2. CASE \E g \in Grantors : Grant(g)
  <2>1. PICK g \in Grantors : Grant(g)
    BY <1>2
  <2>2. sum[g] = supply - used
    BY <2>1 DEF IInv, SumIsCurrent, Grant, Callers
  <2>. QED BY <2>1, <2>2 DEF IInv, TypeOK, Grant
<1>3. CASE /\ ~ \E a \in Actions : Charge(a)
           /\ ~ \E g \in Grantors : Grant(g)
  <2>1. UNCHANGED <<supply, used>>
    BY <1>3
    DEF Next, ActionStep, GrantStep, Begin, ComputeBalance, AssertSufficient, Provide, Lock, Alert,
        StepFault, Request, GrantFault, vars, ledger
  <2>. QED BY <2>1
<1>. QED BY <1>1, <1>2, <1>3

\* No charge overdraws the balance, whatever runs at the same time.
THEOREM ChargesAreCovered == Spec => NeverOverdrawn
<1>1. IInv /\ [Next]_vars => [used' # used => used' <= supply']_vars
  BY LedgerSteps
<1>. QED BY <1>1, Invariant, PTL DEF Spec, NeverOverdrawn

\* Every balanceAfter is the balance of its moment.
THEOREM SnapshotsAreExact == Spec => SnapshotExact
<1>1. IInv /\ [Next]_vars => [supply' # supply => balanceAfter' = supply' - used']_vars
  BY LedgerSteps
<1>. QED BY <1>1, Invariant, PTL DEF Spec, SnapshotExact

\* The ledger is exact under any interleaving of any number of steps and grants.
THEOREM LedgerStaysExact == Spec => LedgerIsExact
  BY ChargesAreCovered, SnapshotsAreExact, FirstEventIsOnce DEF LedgerIsExact

-------------------------------------------------------------------------------
\* Where a step stands tells what it was charged: one charge is covered by the delivery,
\* every other by a fault that came after it.
ChargedSoFar(a) ==
  /\ charges[a] <= late[a] + (IF pc[a] \in {"alerting", "done"} THEN 1 ELSE 0)
  /\ ~TrackingFaults /\ pc[a] \in {"alerting", "done"} => charges[a] >= 1
ChargesTell == \A a \in Actions : ChargedSoFar(a)

\* A step's own actions keep that true of it,
LEMMA OwnCharges ==
  ASSUME IInv, NEW a \in Actions, ChargedSoFar(a), Begin(a) \/ ActionStep(a) \/ StepFault(a)
  PROVE  ChargedSoFar(a)'
<1>. USE CreditAssumption DEF IInv, TypeOK, Callers, ChargedSoFar
<1>1. CASE Charge(a)
  <2>1. pc[a] = "charging" /\ charges[a] <= late[a] /\ charges[a] \in Nat /\ late[a] \in Nat
    BY <1>1 DEF Charge
  <2>2. CASE UNCHANGED history /\ (Goto(a, "failed") \/ (Goto(a, "alerting") /\ TrackingFaults))
    <3>1. charges' = charges /\ late' = late
      BY <2>2 DEF history
    <3>2. pc'[a] = "failed" \/ (pc'[a] = "alerting" /\ TrackingFaults)
      BY <2>2 DEF Goto
    <3>. QED BY <2>1, <3>1, <3>2
  <2>3. CASE Record(a) /\ Goto(a, "alerting") /\ UNCHANGED late
    <3>1. charges'[a] = charges[a] + 1 /\ late' = late /\ pc'[a] = "alerting"
      BY <2>3 DEF Record, Goto
    <3>. QED BY <2>1, <3>1
  <2>4. CASE Record(a) /\ Throw(a) /\ late' = [late EXCEPT ![a] = @ + 1]
    <3>1. charges'[a] = charges[a] + 1 /\ late'[a] = late[a] + 1
      BY <2>4 DEF Record
    <3>2. pc'[a] \in {"checking", "failed"}
      BY <2>4 DEF Throw, Goto
    <3>. QED BY <2>1, <3>1, <3>2
  <2>5. \/ UNCHANGED <<ledger, history>> /\ (Goto(a, "failed") \/ (Goto(a, "alerting") /\ TrackingFaults))
        \/ Record(a) /\ Goto(a, "alerting") /\ UNCHANGED late
        \/ Record(a) /\ Throw(a) /\ late' = [late EXCEPT ![a] = @ + 1]
    BY <1>1 DEF Charge, Following
  <2>. QED BY <2>2, <2>3, <2>4, <2>5
<1>2. CASE StepFault(a)
  <2>1. pc[a] # "done" /\ pc'[a] \in {"checking", "failed"} /\ charges' = charges
    BY <1>2 DEF StepFault, Throw, Goto, Ended
  <2>2. late'[a] = late[a] + (IF pc[a] = "alerting" THEN 1 ELSE 0)
    BY <1>2 DEF StepFault
  <2>. QED BY <2>1, <2>2
<1>3. CASE Begin(a) \/ ComputeBalance(a) \/ AssertSufficient(a) \/ Provide(a) \/ Lock(a) \/ Alert(a)
  BY <1>3 DEF Begin, ComputeBalance, AssertSufficient, Provide, Lock, Alert, Goto, Following, history
<1>. QED BY <1>1, <1>2, <1>3 DEF ActionStep

\* ... and nobody else touches its rows.
LEMMA OthersCharges ==
  ASSUME IInv, NEW a \in Actions, ChargedSoFar(a), NEW c \in Callers, c # a,
         \/ c \in Actions /\ (Begin(c) \/ ActionStep(c) \/ StepFault(c))
         \/ c \in Grantors /\ (Request(c) \/ GrantStep(c) \/ GrantFault(c))
  PROVE  ChargedSoFar(a)'
<1>. USE CreditAssumption DEF IInv, TypeOK, Callers
<1>1. pc'[a] = pc[a]
  BY DEF ActionStep, GrantStep, Begin, ComputeBalance, AssertSufficient, Provide, Lock, Charge, Alert,
         StepFault, Throw, Request, Grant, GrantFault, Goto
<1>2. charges'[a] = charges[a] /\ late'[a] = late[a]
  BY DEF ActionStep, GrantStep, Begin, ComputeBalance, AssertSufficient, Provide, Lock, Charge, Alert,
         Record, StepFault, Request, Grant, GrantFault, history
<1>. QED BY <1>1, <1>2 DEF ChargedSoFar

LEMMA ChargesStillTell == IInv /\ ChargesTell /\ [Next]_vars => ChargesTell'
<1>. SUFFICES ASSUME IInv, ChargesTell, [Next]_vars, NEW a \in Actions PROVE ChargedSoFar(a)'
  BY DEF ChargesTell
<1>1. ChargedSoFar(a)
  BY DEF ChargesTell
<1>2. CASE UNCHANGED vars
  BY <1>1, <1>2 DEF vars, history, ChargedSoFar
<1>3. ASSUME NEW b \in Actions, Begin(b) \/ ActionStep(b) \/ StepFault(b) PROVE ChargedSoFar(a)'
  BY <1>1, <1>3, OwnCharges, OthersCharges DEF Callers
<1>4. ASSUME NEW g \in Grantors, Request(g) \/ GrantStep(g) \/ GrantFault(g)
      PROVE  ChargedSoFar(a)'
  BY <1>1, <1>4, OthersCharges, CreditAssumption DEF Callers
<1>. QED BY <1>2, <1>3, <1>4 DEF Next

\* Retries never charge more often than faults after a charge explain, and what was
\* delivered was charged, for any number of steps, attempts and grants, as long as no
\* event statement fails.
THEOREM RetriesPayOnce == ASSUME ~TrackingFaults PROVE Spec => []PaidOnce
<1>1. Init => ChargesTell
  BY DEF Init, ChargesTell, ChargedSoFar, Callers
<1>2. IInv /\ ChargesTell => PaidOnce
  BY DEF IInv, TypeOK, ChargesTell, ChargedSoFar, PaidOnce
<1>. QED BY <1>1, <1>2, Invariant, ChargesStillTell, PTL DEF Spec
===============================================================================
