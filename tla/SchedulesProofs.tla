--------------------------- MODULE SchedulesProofs ----------------------------
(***************************************************************************)
(* Proofs about what runs on a schedule: SchedulerTick for any schedules,  *)
(* scheduler processes and requests; and the upkeep that is run so,        *)
(* backups, dumps and purges beside the CRM, for any tables, schemas,      *)
(* processes, rows and requests.                                           *)
(***************************************************************************)
EXTENDS SchedulerTick, MCUpkeep, FiniteSetTheorems, SequenceTheorems, WellFoundedInduction, TLAPS

(***************************************************************************)
(* The scheduler.                                                          *)
(***************************************************************************)

\* What is enabled has been created, and what a tick has read is due.
EnabledExist == \A s \in Schedules : enabled[s] => nextRun[s] # -1
DueIsPast == \A p \in Tickers : \A d \in due[p] : d[2] <= at[p]

\* Without requests a claim has moved nextRunAt past the whole backlog.
BacklogIsPassed == edits = 0 =>
  /\ \A e \in Editors : edit[e] = None
  /\ \A r \in claimed : r.occurrence <= r.at /\ r.at < nextRun[r.schedule]

\* The inductive invariant: FiredOnce speaks of claims alone, and what keeps a
\* second claim away is where the first one left nextRunAt.
TickInv ==
  /\ TypeOK /\ EnabledExist /\ DueIsPast /\ BacklogIsPassed
  /\ IsFiniteSet(claimed) /\ FiredOnce

-------------------------------------------------------------------------------
\* The first slot after t.
LEMMA SlotIsNext ==
  ASSUME NEW t \in Nat
  PROVE  NextSlot(t) \in Nat /\ NextSlot(t) > t /\ NextSlot(t) <= t + Period
<1>1. Period \in Nat \ {0}
  BY SchedulerAssumption
<1>2. t = Period * (t \div Period) + (t % Period) /\ t \div Period \in Nat /\ t % Period \in 0..(Period - 1)
  BY <1>1
<1>3. NextSlot(t) = Period * (t \div Period) + Period
  BY <1>1, <1>2 DEF NextSlot
<1>. QED BY <1>1, <1>2, <1>3

\* Catching up from a past occurrence leads to the first one after the tick's now.
LEMMA CatchUpIsNext ==
  ASSUME NEW s \in Schedules, NEW t \in Nat, NEW o \in Nat, o <= t
  PROVE  CatchUp(s, o, t) \in Nat /\ CatchUp(s, o, t) > t /\ CatchUp(s, o, t) <= t + Period
<1>1. CASE s \in Anchored
  BY <1>1, SlotIsNext DEF CatchUp
<1>2. CASE s \notin Anchored
  <2>1. t - o \in Nat /\ Period \in Nat \ {0}
    BY SchedulerAssumption
  <2>2. o + NextSlot(t - o) \in Nat /\ o + NextSlot(t - o) > t /\ o + NextSlot(t - o) <= t + Period
    BY <2>1, SlotIsNext
  <2>3. (t - o) \div Period \in Nat
    BY <2>1
  <2>4. NextSlot(t - o) = Period * (((t - o) \div Period) + 1)
    BY <2>1, <2>3 DEF NextSlot
  <2>. QED BY <1>2, <2>2, <2>4 DEF CatchUp
<1>. QED BY <1>1, <1>2

LEMMA NextRunIsNext ==
  ASSUME NEW s \in Schedules, NEW t \in 0..MaxTime
  PROVE  NextRunAt(s, t) \in Instants
  BY SlotIsNext, SchedulerAssumption DEF NextRunAt, Instants

-------------------------------------------------------------------------------
\* A step that claims nothing keeps what claims say of each other and of nextRunAt.
LEMMA ClaimsKept ==
  ASSUME TickInv, claimed' = claimed, edits' = edits, edit' = edit,
         \A s \in Schedules : nextRun[s] # -1 => nextRun'[s] = nextRun[s]
  PROVE  BacklogIsPassed' /\ NoDuplicateClaim' /\ OneRunPerBacklog' /\ IsFiniteSet(claimed)'
<1>1. \A r \in claimed : r.schedule \in Schedules /\ r.at \in Nat
  BY DEF TickInv, TypeOK, Runs
<1>2. \A r \in claimed : edits = 0 => nextRun[r.schedule] # -1
  BY <1>1 DEF TickInv, BacklogIsPassed
<1>. QED
  BY <1>1, <1>2 DEF TickInv, BacklogIsPassed, FiredOnce, NoDuplicateClaim, OneRunPerBacklog

\* Once a request has been made, nothing is owed to the first layer.
LEMMA ClaimsExcused ==
  ASSUME edits # 0, claimed' = claimed, edits' # 0, TickInv
  PROVE  BacklogIsPassed' /\ NoDuplicateClaim' /\ OneRunPerBacklog' /\ IsFiniteSet(claimed)'
  BY DEF TickInv, BacklogIsPassed, NoDuplicateClaim, OneRunPerBacklog

\* Occurrences are lost one at a time, each to a crash.
LEMMA LostKept ==
  ASSUME TickInv, Lost' \subseteq Lost, crashes' = crashes
  PROVE  LostOnlyToCrashes'
<1>1. IsFiniteSet(Lost)
  BY FS_Subset DEF TickInv, Lost
<1>2. Cardinality(Lost') <= Cardinality(Lost) /\ Cardinality(Lost) \in Nat /\ Cardinality(Lost') \in Nat
  BY <1>1, FS_Subset, FS_CardinalityType
<1>. QED BY <1>2 DEF TickInv, FiredOnce, LostOnlyToCrashes, TypeOK

LEMMA CreateKeeps ==
  ASSUME TickInv, NEW s \in Schedules, Create(s)
  PROVE  TickInv'
<1>1. /\ nextRun[s] = -1 /\ nextRun' = [nextRun EXCEPT ![s] = NextRunAt(s, now)]
      /\ enabled' = [enabled EXCEPT ![s] = TRUE]
      /\ UNCHANGED <<now, jobs, claimed, due, at, cur, edit, edits, crashes>>
  BY DEF Create, tickVars
<1>2. NextRunAt(s, now) \in Instants /\ NextRunAt(s, now) # -1
  BY NextRunIsNext, SchedulerAssumption DEF TickInv, TypeOK, Instants
<1>3. TypeOK'
  BY <1>1, <1>2 DEF TickInv, TypeOK
<1>4. EnabledExist' /\ DueIsPast'
  BY <1>1, <1>2 DEF TickInv, TypeOK, EnabledExist, DueIsPast
<1>5. BacklogIsPassed' /\ NoDuplicateClaim' /\ OneRunPerBacklog' /\ IsFiniteSet(claimed)'
  BY <1>1, ClaimsKept DEF TickInv, TypeOK
<1>6. NoDuplicateRun' /\ LostOnlyToCrashes'
  BY <1>1, LostKept DEF TickInv, FiredOnce, NoDuplicateRun, Lost
<1>. QED BY <1>3, <1>4, <1>5, <1>6 DEF TickInv, FiredOnce

LEMMA EditReadKeeps ==
  ASSUME TickInv, NEW e \in Editors, EditRead(e)
  PROVE  TickInv'
<1>1. /\ edits < MaxEdits /\ edits' = edits + 1
      /\ UNCHANGED <<now, enabled, nextRun, jobs, claimed, due, at, cur, crashes>>
  BY DEF EditRead, tickVars, table
<1>2. edits \in Nat /\ edits' # 0
  BY <1>1, SchedulerAssumption DEF TickInv, TypeOK
<1>3. PICK s \in Schedules, on \in BOOLEAN :
        /\ nextRun[s] # -1
        /\ edit' = [edit EXCEPT ![e] = [schedule |-> s, enabled |-> on,
             nextRun |-> IF on THEN NextRunAt(s, now) ELSE nextRun[s]]]
  BY DEF EditRead
<1>4. NextRunAt(s, now) \in Instants /\ nextRun[s] \in Instants
  BY <1>3, NextRunIsNext DEF TickInv, TypeOK
<1>5. edit' \in [Editors -> Edits \cup {None}]
  <2>1. [schedule |-> s, enabled |-> on, nextRun |-> IF on THEN NextRunAt(s, now) ELSE nextRun[s]] \in Edits
    BY <1>4 DEF Edits
  <2>. QED BY <1>3, <2>1 DEF TickInv, TypeOK
<1>6. TypeOK'
  BY <1>1, <1>2, <1>5, SchedulerAssumption DEF TickInv, TypeOK
<1>7. EnabledExist' /\ DueIsPast'
  BY <1>1 DEF TickInv, EnabledExist, DueIsPast
<1>8. BacklogIsPassed' /\ NoDuplicateClaim' /\ OneRunPerBacklog' /\ IsFiniteSet(claimed)'
  BY <1>1, <1>2 DEF TickInv, BacklogIsPassed, NoDuplicateClaim, OneRunPerBacklog
<1>9. NoDuplicateRun' /\ LostOnlyToCrashes'
  BY <1>1, LostKept DEF TickInv, FiredOnce, NoDuplicateRun, Lost
<1>. QED BY <1>6, <1>7, <1>8, <1>9 DEF TickInv, FiredOnce

LEMMA EditWriteKeeps ==
  ASSUME TickInv, NEW e \in Editors, EditWrite(e)
  PROVE  TickInv'
<1>1. /\ edit[e] # None /\ edit[e] \in Edits
      /\ enabled' = [enabled EXCEPT ![edit[e].schedule] = edit[e].enabled]
      /\ nextRun' = [nextRun EXCEPT ![edit[e].schedule] = edit[e].nextRun]
      /\ edit' = [edit EXCEPT ![e] = None]
      /\ UNCHANGED <<now, jobs, claimed, due, at, cur, edits, crashes>>
  BY DEF EditWrite, tickVars, TickInv, TypeOK
<1>2. /\ edit[e].schedule \in Schedules /\ edit[e].enabled \in BOOLEAN
      /\ edit[e].nextRun \in Instants /\ edit[e].nextRun # -1
  BY <1>1, SchedulerAssumption DEF Edits, Instants
<1>3. TypeOK'
  BY <1>1, <1>2 DEF TickInv, TypeOK
<1>4. EnabledExist' /\ DueIsPast'
  BY <1>1, <1>2 DEF TickInv, TypeOK, EnabledExist, DueIsPast
<1>5. edits # 0
  BY <1>1 DEF TickInv, BacklogIsPassed
<1>6. BacklogIsPassed' /\ NoDuplicateClaim' /\ OneRunPerBacklog' /\ IsFiniteSet(claimed)'
  BY <1>1, <1>5, ClaimsExcused
<1>7. NoDuplicateRun' /\ LostOnlyToCrashes'
  BY <1>1, LostKept DEF TickInv, FiredOnce, NoDuplicateRun, Lost
<1>. QED BY <1>3, <1>4, <1>6, <1>7 DEF TickInv, FiredOnce

LEMMA TickReadKeeps ==
  ASSUME TickInv, NEW p \in Tickers, TickRead(p)
  PROVE  TickInv'
<1>. DEFINE found == {<<s, nextRun[s]>> : s \in {r \in Schedules : enabled[r] /\ nextRun[r] <= now}}
<1>1. /\ due' = [due EXCEPT ![p] = found] /\ at' = [at EXCEPT ![p] = now]
      /\ UNCHANGED <<now, enabled, nextRun, jobs, claimed, cur, edit, edits, crashes>>
  BY DEF TickRead, table
<1>2. /\ found \subseteq Schedules \X Instants
      /\ \A d \in found : d[2] <= now
  BY DEF TickInv, TypeOK, EnabledExist
<1>3. TypeOK'
  BY <1>1, <1>2 DEF TickInv, TypeOK
<1>4. EnabledExist' /\ DueIsPast'
  BY <1>1, <1>2 DEF TickInv, TypeOK, EnabledExist, DueIsPast
<1>5. BacklogIsPassed' /\ NoDuplicateClaim' /\ OneRunPerBacklog' /\ IsFiniteSet(claimed)'
  BY <1>1, ClaimsKept
<1>6. NoDuplicateRun' /\ LostOnlyToCrashes'
  BY <1>1, LostKept DEF TickInv, FiredOnce, NoDuplicateRun, Lost
<1>. QED BY <1>3, <1>4, <1>5, <1>6 DEF TickInv, FiredOnce

LEMMA TickClaimKeeps ==
  ASSUME TickInv, NEW p \in Tickers, TickClaim(p)
  PROVE  TickInv'
<1>1. PICK d \in due[p] :
        LET run == [schedule |-> d[1], occurrence |-> d[2], at |-> at[p]] IN
          /\ due' = [due EXCEPT ![p] = @ \ {d}]
          /\ IF ClaimHits(d[1], d[2])
             THEN /\ nextRun' = [nextRun EXCEPT ![d[1]] = CatchUp(d[1], d[2], at[p])]
                  /\ claimed' = claimed \cup {run}
                  /\ cur' = [cur EXCEPT ![p] = run]
             ELSE UNCHANGED <<nextRun, claimed, cur>>
  BY DEF TickClaim
<1>2. cur[p] = None /\ UNCHANGED <<now, enabled, jobs, at, edit, edits, crashes>>
  BY DEF TickClaim
<1>. DEFINE s == d[1]
            o == d[2]
            run == [schedule |-> s, occurrence |-> o, at |-> at[p]]
<1>3. /\ s \in Schedules /\ o \in Instants /\ o \in Nat /\ o <= at[p]
      /\ at[p] \in 0..MaxTime /\ at[p] \in Nat
  BY SchedulerAssumption DEF TickInv, TypeOK, DueIsPast, Instants
<1>4. /\ due' \in [Tickers -> SUBSET (Schedules \X Instants)]
      /\ \A q \in Tickers : due'[q] \subseteq due[q]
  BY <1>1 DEF TickInv, TypeOK
<1>5. DueIsPast'
  BY <1>2, <1>4 DEF TickInv, DueIsPast
<1>6. NoDuplicateRun'
  BY <1>2 DEF TickInv, FiredOnce, NoDuplicateRun
<1>7. CASE nextRun[s] # o
  <2>1. UNCHANGED <<nextRun, claimed, cur>>
    BY <1>1, <1>7 DEF ClaimHits
  <2>2. TypeOK' /\ EnabledExist'
    BY <1>2, <1>4, <2>1 DEF TickInv, TypeOK, EnabledExist
  <2>3. BacklogIsPassed' /\ NoDuplicateClaim' /\ OneRunPerBacklog' /\ IsFiniteSet(claimed)'
    BY <1>2, <2>1, ClaimsKept
  <2>4. LostOnlyToCrashes'
    BY <1>2, <2>1, LostKept DEF Lost
  <2>. QED BY <1>5, <1>6, <2>2, <2>3, <2>4 DEF TickInv, FiredOnce
<1>8. CASE nextRun[s] = o
  <2>1. /\ nextRun' = [nextRun EXCEPT ![s] = CatchUp(s, o, at[p])]
        /\ claimed' = claimed \cup {run} /\ cur' = [cur EXCEPT ![p] = run]
    BY <1>1, <1>8 DEF ClaimHits
  <2>2. CatchUp(s, o, at[p]) \in Instants /\ CatchUp(s, o, at[p]) > at[p] /\ CatchUp(s, o, at[p]) # -1
    <3>1. /\ CatchUp(s, o, at[p]) \in Nat /\ CatchUp(s, o, at[p]) > at[p]
          /\ CatchUp(s, o, at[p]) <= at[p] + Period
      BY <1>3, CatchUpIsNext
    <3>2. at[p] + Period <= MaxTime + Period
      BY <1>3, SchedulerAssumption
    <3>. HIDE DEF s, o
    <3>. QED BY <1>3, <3>1, <3>2, SchedulerAssumption DEF Instants
  <2>3. /\ run \in Runs /\ run.schedule = s /\ run.occurrence = o /\ run.at = at[p]
    BY <1>3 DEF Runs
  <2>4. TypeOK'
    BY <1>2, <1>3, <1>4, <2>1, <2>2, <2>3 DEF TickInv, TypeOK
  <2>5. EnabledExist' /\ IsFiniteSet(claimed)'
    BY <1>2, <1>3, <2>1, <2>2, FS_AddElement DEF TickInv, TypeOK, EnabledExist
  <2>6. nextRun'[s] = CatchUp(s, o, at[p]) /\ \A r \in Schedules : r # s => nextRun'[r] = nextRun[r]
    BY <1>3, <2>1 DEF TickInv, TypeOK
  <2>7. \A r \in claimed : r.schedule \in Schedules /\ r.occurrence \in Nat /\ r.at \in Nat
    BY SchedulerAssumption DEF TickInv, TypeOK, Runs, Instants
  <2>8. BacklogIsPassed'
    <3>. SUFFICES ASSUME edits = 0, NEW r \in claimed'
                  PROVE  r.occurrence <= r.at /\ r.at < nextRun'[r.schedule]
      BY <1>2 DEF TickInv, BacklogIsPassed
    <3>1. CASE r = run
      BY <3>1, <1>3, <2>2, <2>3, <2>6
    <3>2. CASE r \in claimed
      <4>1. r.occurrence <= r.at /\ r.at < nextRun[r.schedule]
        BY <3>2 DEF TickInv, BacklogIsPassed
      <4>2. CASE r.schedule = s
        <5>. HIDE DEF s, o
        <5>. QED BY <3>2, <4>1, <4>2, <1>3, <1>8, <2>2, <2>6, <2>7 DEF Instants
      <4>3. CASE r.schedule # s
        BY <3>2, <4>1, <4>3, <2>6, <2>7
      <4>. QED BY <4>2, <4>3
    <3>. QED BY <2>1, <3>1, <3>2
  <2>9. edits = 0 => \A r \in claimed : r.schedule = s => r.occurrence < o /\ r.at < o
    BY <1>8, <2>7, <1>3 DEF TickInv, BacklogIsPassed
  <2>10. NoDuplicateClaim'
    BY <1>2, <1>3, <2>1, <2>3, <2>7, <2>9 DEF TickInv, FiredOnce, NoDuplicateClaim
  <2>11. OneRunPerBacklog'
    BY <1>2, <1>3, <2>1, <2>3, <2>7, <2>9 DEF TickInv, FiredOnce, OneRunPerBacklog
  <2>12. Lost' \subseteq Lost
    <3>1. cur'[p] = run /\ \A q \in Tickers : q # p => cur'[q] = cur[q]
      BY <2>1 DEF TickInv, TypeOK
    <3>2. cur[p] = None /\ \A r \in claimed : r # None
      BY <1>2, NoneAssumption DEF TickInv, TypeOK
    <3>. HIDE DEF run
    <3>. QED BY <1>2, <2>1, <3>1, <3>2 DEF Lost
  <2>. QED
    BY <1>2, <1>5, <1>6, <2>4, <2>5, <2>8, <2>10, <2>11, <2>12, LostKept DEF TickInv, FiredOnce
<1>. QED BY <1>7, <1>8

LEMMA TickEnqueueKeeps ==
  ASSUME TickInv, NEW p \in Tickers, TickEnqueue(p)
  PROVE  TickInv'
<1>1. /\ cur[p] # None /\ cur[p] \in Runs /\ cur' = [cur EXCEPT ![p] = None]
      /\ jobs' = IF \E r \in jobs : SameKey(r, cur[p]) THEN jobs ELSE jobs \cup {cur[p]}
      /\ UNCHANGED <<now, enabled, nextRun, claimed, due, at, edit, edits, crashes>>
  BY DEF TickEnqueue, table, TickInv, TypeOK
<1>2. TypeOK' /\ EnabledExist' /\ DueIsPast'
  BY <1>1 DEF TickInv, TypeOK, EnabledExist, DueIsPast
<1>3. BacklogIsPassed' /\ NoDuplicateClaim' /\ OneRunPerBacklog' /\ IsFiniteSet(claimed)'
  BY <1>1, ClaimsKept
<1>4. NoDuplicateRun'
  BY <1>1 DEF TickInv, FiredOnce, NoDuplicateRun, SameKey
<1>5. jobs \subseteq jobs' /\ \E r \in jobs' : SameKey(r, cur[p])
  BY <1>1 DEF SameKey
<1>6. Lost' \subseteq Lost
  BY <1>1, <1>5 DEF Lost, SameKey, TickInv, TypeOK
<1>. QED BY <1>1, <1>2, <1>3, <1>4, <1>6, LostKept DEF TickInv, FiredOnce

LEMMA CrashKeeps ==
  ASSUME TickInv, NEW p \in Tickers, Crash(p)
  PROVE  TickInv'
<1>1. /\ crashes < MaxCrashes /\ crashes' = crashes + 1
      /\ due' = [due EXCEPT ![p] = {}] /\ cur' = [cur EXCEPT ![p] = None]
      /\ UNCHANGED <<now, enabled, nextRun, jobs, claimed, at, edit, edits>>
  BY DEF Crash, table
<1>2. TypeOK' /\ EnabledExist' /\ DueIsPast'
  BY <1>1, SchedulerAssumption DEF TickInv, TypeOK, EnabledExist, DueIsPast
<1>3. BacklogIsPassed' /\ NoDuplicateClaim' /\ OneRunPerBacklog' /\ IsFiniteSet(claimed)'
  BY <1>1, ClaimsKept
<1>4. NoDuplicateRun'
  BY <1>1 DEF TickInv, FiredOnce, NoDuplicateRun
<1>5. Lost' \subseteq Lost \cup {cur[p]}
  BY <1>1 DEF Lost, TickInv, TypeOK
<1>6. IsFiniteSet(Lost)
  BY FS_Subset DEF TickInv, Lost
<1>7. /\ IsFiniteSet(Lost \cup {cur[p]}) /\ Cardinality(Lost) \in Nat
      /\ \/ Cardinality(Lost \cup {cur[p]}) = Cardinality(Lost)
         \/ Cardinality(Lost \cup {cur[p]}) = Cardinality(Lost) + 1
  BY <1>6, FS_AddElement, FS_CardinalityType, Zenon
<1>8. Cardinality(Lost') <= Cardinality(Lost \cup {cur[p]}) /\ Cardinality(Lost') \in Nat
      /\ Cardinality(Lost \cup {cur[p]}) \in Nat
  BY <1>5, <1>7, FS_Subset, FS_CardinalityType
<1>9. LostOnlyToCrashes'
  BY <1>1, <1>7, <1>8 DEF TickInv, FiredOnce, LostOnlyToCrashes, TypeOK
<1>. QED BY <1>2, <1>3, <1>4, <1>9 DEF TickInv, FiredOnce

LEMMA TickKeeps ==
  ASSUME TickInv, Tick
  PROVE  TickInv'
<1>1. /\ now < MaxTime /\ now' = now + 1
      /\ UNCHANGED <<enabled, nextRun, jobs, claimed, due, at, cur, edit, edits, crashes>>
  BY DEF Tick, table, tickVars
<1>2. TypeOK' /\ EnabledExist' /\ DueIsPast'
  BY <1>1, SchedulerAssumption DEF TickInv, TypeOK, EnabledExist, DueIsPast
<1>3. BacklogIsPassed' /\ NoDuplicateClaim' /\ OneRunPerBacklog' /\ IsFiniteSet(claimed)'
  BY <1>1, ClaimsKept
<1>4. NoDuplicateRun' /\ LostOnlyToCrashes'
  BY <1>1, LostKept DEF TickInv, FiredOnce, NoDuplicateRun, Lost
<1>. QED BY <1>2, <1>3, <1>4 DEF TickInv, FiredOnce

-------------------------------------------------------------------------------
LEMMA InitInvariant == Init => TickInv
<1>. SUFFICES ASSUME Init PROVE TickInv
  OBVIOUS
<1>1. TypeOK
  BY SchedulerAssumption DEF Init, TypeOK
<1>2. EnabledExist /\ DueIsPast /\ BacklogIsPassed /\ IsFiniteSet(claimed)
  BY FS_EmptySet DEF Init, EnabledExist, DueIsPast, BacklogIsPassed
<1>3. NoDuplicateRun /\ NoDuplicateClaim /\ OneRunPerBacklog
  BY DEF Init, NoDuplicateRun, NoDuplicateClaim, OneRunPerBacklog
<1>4. LostOnlyToCrashes
  <2>1. Lost = {}
    BY DEF Init, Lost
  <2>. QED BY <2>1, FS_EmptySet DEF Init, LostOnlyToCrashes
<1>. QED BY <1>1, <1>2, <1>3, <1>4 DEF TickInv, FiredOnce

LEMMA NextInvariant == TickInv /\ [Next]_vars => TickInv'
<1>. SUFFICES ASSUME TickInv, [Next]_vars PROVE TickInv'
  OBVIOUS
<1>1. ASSUME NEW s \in Schedules, Create(s) PROVE TickInv'
  BY <1>1, CreateKeeps
<1>2. ASSUME NEW e \in Editors, EditRead(e) \/ EditWrite(e) PROVE TickInv'
  BY <1>2, EditReadKeeps, EditWriteKeeps
<1>3. ASSUME NEW p \in Tickers, TickStep(p) \/ Crash(p) PROVE TickInv'
  BY <1>3, TickReadKeeps, TickClaimKeeps, TickEnqueueKeeps, CrashKeeps DEF TickStep
<1>4. CASE UNCHANGED vars
  <2>1. UNCHANGED <<now, enabled, nextRun, jobs, claimed, due, at, cur, edit, edits, crashes>>
    BY <1>4 DEF vars, table, tickVars
  <2>2. TypeOK' /\ EnabledExist' /\ DueIsPast'
    BY <2>1 DEF TickInv, TypeOK, EnabledExist, DueIsPast
  <2>3. BacklogIsPassed' /\ NoDuplicateClaim' /\ OneRunPerBacklog' /\ IsFiniteSet(claimed)'
    BY <2>1, ClaimsKept
  <2>4. NoDuplicateRun' /\ LostOnlyToCrashes'
    BY <2>1, LostKept DEF TickInv, FiredOnce, NoDuplicateRun, Lost
  <2>. QED BY <2>2, <2>3, <2>4 DEF TickInv, FiredOnce
<1>. QED BY <1>1, <1>2, <1>3, <1>4, TickKeeps DEF Next

\* The inductive invariant holds in every reachable state.
THEOREM Invariant == Spec => []TickInv
  BY InitInvariant, NextInvariant, PTL DEF Spec

\* The tables, the ticks and the requests stay well-typed.
THEOREM TypeCorrect == Spec => []TypeOK
<1>1. TickInv => TypeOK
  BY DEF TickInv
<1>. QED BY <1>1, Invariant, PTL

\* An occurrence fires once, or a crash has taken it, and a backlog fires as one
\* (tickScheduler, lines 60-120), however many processes tick over however many schedules.
THEOREM OccurrencesFireOnce == Spec => []FiredOnce
<1>1. TickInv => FiredOnce
  BY DEF TickInv
<1>. QED BY <1>1, Invariant, PTL

(***************************************************************************)
(* The inductive invariants of the upkeep.                                 *)
(***************************************************************************)

\* BackupRuns. Who still writes the status of a row it has made; and who deletes files.
Holds(p) == proc[p] # Nobody /\ proc[p].do \in {"dump", "succeed", "catch"}
Prunes(p) == proc[p] # Nobody /\ proc[p].do \in {"prune", "mark"}

\* A row is one process's, which alone may make it a success; a recorded success
\* has its files.
RowsApart ==
  /\ \A p \in Processes : Holds(p) => proc[p].row \in 1..rows /\ status[proc[p].row] # "SUCCEEDED"
  /\ \A p, q \in Processes : p # q /\ Holds(p) /\ Holds(q) => proc[p].row # proc[q].row
  /\ ~undone => \A p \in Processes : Doing(p, "succeed") => proc[p].row \in stored

\* What a process has read are rows there are.
ReadRows ==
  /\ \A p \in Processes : Doing(p, "guard") => proc[p].seen \subseteq 1..rows
  /\ \A p \in Processes : Prunes(p) => proc[p].seen \subseteq 1..rows /\ proc[p].seen # {}
  /\ \A p \in Processes : Doing(p, "mark") => proc[p].row \in proc[p].seen

\* Enough newer successes to do without r: pruning r takes none of them away from any
\* older row.
Behind(r) == Cardinality({q \in Successes : q > r}) >= MinRetained

\* What is pruned, or about to be, is behind; a success without files as well.
OnlyOldArePruned == ~undone =>
  /\ \A p \in Processes : Prunes(p) => \A r \in proc[p].seen : status[r] = "SUCCEEDED" /\ Behind(r)
  /\ \A r \in pruned : Behind(r)
  /\ \A r \in Successes \ stored : Behind(r)

RunInv == RunTypeOK /\ RowsApart /\ ReadRows /\ OnlyOldArePruned

\* Crm. An update is of a lead there is, and to a status that follows the one it read.
UpdatesAreLegal ==
  /\ \A q \in Requests : req[q] # NoRequest /\ req[q].op = "update" =>
       leadOf[req[q].on] # NoContact /\ req[q].to \in NextLeadStatuses(req[q].was)
  /\ \A l \in Leads : leadOf[l] = NoContact => leadStatus[l] = "NEW"

\* DataRetention. A purge selects contacts, then members.
Purges == [do : {"guard", "create", "contacts", "contact", "member"},
           run : PurgeIds \cup {NotPurging}, todo : SUBSET (Purgeable \cup PurgeIds)]
PurgersAreTyped ==
  /\ purger \in [Purgers -> Purges \cup {NotPurging}] /\ expired \subseteq Purgeable
  /\ \A p \in Purgers : (Does(p, "guard") => purger[p].todo \subseteq PurgeIds)
                     /\ (Does(p, "contact") => purger[p].todo \subseteq Contacts)
                     /\ (Does(p, "member") => purger[p].todo \subseteq Members)

\* A contact that has expired or is gone gets no lead any more.
ExpiredIsAlone ==
  /\ \A k \in Contacts \cap expired : \A q \in Requests :
       ~(req[q] # NoRequest /\ req[q].op \in {"delete", "lead"} /\ req[q].on = k)
  /\ \A k \in Contacts : contact[k] = "gone" => LeadsOf(k) = {}

\* What was selected is still to be purged, or purged already, or came back.
SelectedStaysDue ==
  /\ \A p \in Purgers : Does(p, "contact") => \A k \in purger[p].todo :
       LeadsOf(k) = {} /\ (k \in expired \/ contact[k] = "gone")
  /\ \A p \in Purgers : Does(p, "member") => \A m \in purger[p].todo :
       m \in expired \/ member[m] = "gone" \/ m \in rejoined

PurgeInv ==
  /\ PurgeTypeOK /\ PurgersAreTyped /\ UpdatesAreLegal /\ ExpiredIsAlone /\ SelectedStaysDue
  /\ PurgedAuditedOnce /\ OnlyExpiredPurged

\* BackupDump. A database is a table of rows for every name.
Row(t) == [KeysOf(t) -> Ids \cup {0}]
Tabled(db) ==
  /\ db = [t \in Tables |-> db[t]]
  /\ \A t \in Tables : \E D \in SUBSET Ids : db[t] \in [D -> Row(t)]

\* The order is topological and complete; todo is its rest.
Number == Cardinality(Tables)
Handled == {order[i] : i \in 1..(Number - Len(todo))}
OrderIsKept ==
  /\ step = "break" => fresh = Empty /\ ~torn /\ ~damaged
  /\ step \notin {"break", "refused"} => Stuck(edges) = {} /\ order \in Orders(edges)
  /\ step \in {"dump", "verify", "insert"} =>
       /\ todo \in Seq(Tables) /\ Len(todo) \in 1..Number
       /\ \A i \in 1..Len(todo) : todo[i] = order[Number - Len(todo) + i]
  /\ step = "verify" => todo = order

\* What is dumped is what is live, unless writes fell in between.
DumpedIsLive ==
  /\ step = "dump" => ~damaged /\ (torn \/ \A t \in Handled : file[t] = live[t])
  /\ step \in {"verify", "insert", "fix", "restored", "failed"} => torn \/ file = live
  /\ step \in {"insert", "fix", "restored", "failed"} => ~damaged

\* The restore puts in what was dumped.
InsertedSoFar ==
  /\ step \in {"dump", "verify"} => fresh = Empty
  /\ step = "insert" => \A t \in Handled : fresh[t] = Inserted(t)
  /\ step = "fix" => \A t \in Tables : fresh[t] = Inserted(t)

\* What DumpTypeOK says but for the tables' types.
DumpIsTyped ==
  /\ Schema \in Schemas /\ edges \cap broken = {} /\ \A e \in broken : e.nullable
  /\ Consistent(live) /\ \A i, j \in DOMAIN order : order[i] = order[j] => i = j
  /\ step \in {"break", "dump", "verify", "insert", "fix", "restored", "refused", "corrupt",
               "failed"}
  /\ writes \in 0..MaxWrites /\ torn \in BOOLEAN /\ damaged \in BOOLEAN

DumpInv ==
  /\ DumpIsTyped /\ Tabled(live) /\ Tabled(file) /\ Tabled(fresh)
  /\ OrderIsKept /\ DumpedIsLive /\ InsertedSoFar /\ RestoreIsFaithful

(***************************************************************************)
(* Backup runs.                                                            *)
(***************************************************************************)

NewerAreFinite == \A r :
  IsFiniteSet({q \in Successes : q > r}) /\ Cardinality({q \in Successes : q > r}) \in Nat

LEMMA RowsAreFinite == RunTypeOK => NewerAreFinite
<1>. SUFFICES ASSUME RunTypeOK PROVE NewerAreFinite
  OBVIOUS
<1>1. Successes \subseteq 1..rows /\ rows \in Nat
  BY BackupAssumption DEF Successes, RunTypeOK
<1>2. IsFiniteSet(1..rows)
  BY <1>1, FS_Interval
<1>3. IsFiniteSet(Successes)
  BY <1>1, <1>2, FS_Subset
<1>4. ASSUME NEW r
      PROVE  /\ IsFiniteSet({q \in Successes : q > r})
             /\ Cardinality({q \in Successes : q > r}) \in Nat
  <2>1. {q \in Successes : q > r} \in SUBSET Successes
    OBVIOUS
  <2>2. IsFiniteSet({q \in Successes : q > r})
    BY <1>3, <2>1, FS_Subset
  <2>. QED BY <2>2, FS_CardinalityType
<1>. QED BY <1>4 DEF NewerAreFinite

\* More successes leave what is behind behind.
LEMMA BehindGrows ==
  ASSUME RunTypeOK, RunTypeOK', Successes \subseteq Successes'
  PROVE  \A r : Behind(r) => Behind(r)'
<1>. SUFFICES ASSUME NEW r, Behind(r)
              PROVE  Behind(r)'
  OBVIOUS
<1>. DEFINE S == {q \in Successes : q > r}
            T == {q \in Successes' : q > r}
<1>1. S \in SUBSET T
  OBVIOUS
<1>2. IsFiniteSet(S) /\ Cardinality(S) \in Nat
  BY RowsAreFinite DEF NewerAreFinite
<1>3. (RunTypeOK => NewerAreFinite)'
  BY RowsAreFinite, PTL
<1>4. IsFiniteSet(T) /\ Cardinality(T) \in Nat
  BY <1>3 DEF NewerAreFinite
<1>5. Cardinality(S) <= Cardinality(T)
  <2>. HIDE DEF S, T
  <2>. QED BY <1>1, <1>4, FS_Subset
<1>6. Cardinality(S) >= MinRetained
  BY DEF Behind
<1>7. Cardinality(T) >= MinRetained
  <2>. HIDE DEF S, T
  <2>. QED BY <1>2, <1>4, <1>5, <1>6, BackupAssumption
<1>. QED BY <1>7 DEF Behind

\* Pruning a row that is behind leaves what is behind behind.
LEMMA BehindWithoutOne ==
  ASSUME RunTypeOK, RunTypeOK', NEW x \in RunIds, Behind(x), Successes' = Successes \ {x}
  PROVE  \A r \in RunIds : Behind(r) => Behind(r)'
<1>. SUFFICES ASSUME NEW r \in RunIds, Behind(r)
              PROVE  Behind(r)'
  OBVIOUS
<1>. DEFINE S(y) == {q \in Successes : q > y}
            T == {q \in Successes' : q > r}
<1>0. x \in Int /\ r \in Int /\ Successes \subseteq Int
  BY BackupAssumption DEF RunIds, Successes, RunTypeOK
<1>1. S(r) \subseteq T \/ S(x) \subseteq T
  <2>0. \A q \in Successes : q \in Int
    BY <1>0
  <2>1. CASE r < x
    <3>1. \A q \in Successes : q > x => q > r /\ q # x
      BY <2>0, <2>1, <1>0
    <3>. QED BY <3>1
  <2>2. CASE ~(r < x)
    <3>1. \A q \in Successes : q > r => q # x
      BY <2>0, <2>2, <1>0
    <3>. QED BY <3>1
  <2>. QED BY <2>1, <2>2
<1>2. \A y : IsFiniteSet(S(y)) /\ Cardinality(S(y)) \in Nat
  BY RowsAreFinite DEF NewerAreFinite
<1>3. (RunTypeOK => NewerAreFinite)'
  BY RowsAreFinite, PTL
<1>4. IsFiniteSet(T) /\ Cardinality(T) \in Nat
  BY <1>3 DEF NewerAreFinite
<1>5. \A y : S(y) \subseteq T => Cardinality(S(y)) <= Cardinality(T)
  <2>. HIDE DEF S, T
  <2>. QED BY <1>4, FS_Subset
<1>6. Cardinality(S(r)) >= MinRetained /\ Cardinality(S(x)) >= MinRetained
  BY DEF Behind
<1>7. Cardinality(T) >= MinRetained
  <2>. HIDE DEF S, T
  <2>. QED BY <1>1, <1>2, <1>4, <1>5, <1>6, BackupAssumption
<1>. QED BY <1>7 DEF Behind

\* A step that changes what one process is doing, and no row.
LEMMA ProcessKeeps ==
  ASSUME RunInv, NEW p \in Processes, NEW d \in Procs \cup {Nobody},
         proc' = [proc EXCEPT ![p] = d],
         UNCHANGED <<rowVars, clockVars, undone>>, backupFaults' \in 0..MaxBackupFaults,
         d # Nobody /\ d.do \in {"dump", "succeed", "catch"} =>
           Holds(p) /\ d.row = proc[p].row /\ (d.do = "succeed" => Doing(p, "succeed")),
         d # Nobody /\ d.do = "guard" => d.seen \subseteq 1..rows,
         d # Nobody /\ d.do \in {"prune", "mark"} => d.seen \subseteq 1..rows /\ d.seen # {},
         d # Nobody /\ d.do \in {"prune", "mark"} /\ ~undone =>
           \A r \in d.seen : status[r] = "SUCCEEDED" /\ Behind(r),
         d # Nobody /\ d.do = "mark" => d.row \in d.seen
  PROVE  RunInv'
<1>1. /\ UNCHANGED <<rows, status, stored, pruned, overdue, aged, undone>>
      /\ RunIds' = RunIds /\ Successes' = Successes
  BY DEF rowVars, clockVars, RunIds, Successes
<1>2. \A q \in Processes : proc'[q] = IF q = p THEN d ELSE proc[q]
  BY DEF RunInv, RunTypeOK
<1>3. RunTypeOK'
  BY <1>1 DEF RunInv, RunTypeOK, Procs, RunIds
<1>4. RowsApart'
  <2>1. \A q \in Processes : Holds(q)' => Holds(q) /\ proc'[q].row = proc[q].row
    BY <1>2 DEF Holds
  <2>2. \A q \in Processes : Doing(q, "succeed")' => Doing(q, "succeed")
    BY <1>2 DEF Holds, Doing
  <2>. QED BY <1>1, <2>1, <2>2 DEF RunInv, RowsApart, Holds, Doing
<1>5. ReadRows'
  BY <1>1, <1>2 DEF RunInv, ReadRows, Doing, Prunes
<1>6. \A r : Behind(r)' <=> Behind(r)
  BY <1>1 DEF Behind
<1>7. OnlyOldArePruned'
  <2>1. ASSUME ~undone, NEW q \in Processes, Prunes(q)', NEW r \in proc'[q].seen
        PROVE  status'[r] = "SUCCEEDED" /\ Behind(r)'
    BY <2>1, <1>1, <1>2, <1>6 DEF RunInv, OnlyOldArePruned, Prunes
  <2>. QED BY <2>1, <1>1, <1>6 DEF RunInv, OnlyOldArePruned
<1>. QED BY <1>3, <1>4, <1>5, <1>7 DEF RunInv

\* A step that gives up a row which is no success, or says that it was one.
LEMMA MarkKeeps ==
  ASSUME RunInv, NEW p \in Processes, NEW d \in Procs \cup {Nobody},
         NEW x \in 1..rows, NEW s \in {"FAILED", "CORRUPT"},
         proc' = [proc EXCEPT ![p] = d], status' = [status EXCEPT ![x] = s],
         UNCHANGED <<rows, stored, pruned, clockVars>>, backupFaults' \in 0..MaxBackupFaults,
         undone' = (undone \/ status[x] = "SUCCEEDED"),
         d # Nobody => d.do \in {"guard", "create"} /\ d.seen \subseteq 1..rows
  PROVE  RunInv'
<1>1. /\ UNCHANGED <<rows, stored, pruned, overdue, aged>>
      /\ RunIds' = RunIds /\ x \in RunIds /\ rows \in Nat
      /\ undone' \in BOOLEAN /\ (undone => undone')
      /\ ~undone' => ~undone /\ status[x] # "SUCCEEDED"
  <2>1. rows \in 0..MaxRuns /\ undone \in BOOLEAN
    BY DEF RunInv, RunTypeOK
  <2>2. UNCHANGED <<rows, stored, pruned, overdue, aged>> /\ RunIds' = RunIds
    BY DEF clockVars, RunIds
  <2>3. x \in RunIds /\ rows \in Nat
    BY <2>1, BackupAssumption DEF RunIds
  <2>4. undone' \in BOOLEAN /\ (undone => undone')
    BY <2>1
  <2>5. ~undone' => ~undone /\ status[x] # "SUCCEEDED"
    OBVIOUS
  <2>. QED BY <2>2, <2>3, <2>4, <2>5
<1>2. /\ \A q \in Processes : proc'[q] = IF q = p THEN d ELSE proc[q]
      /\ \A r \in RunIds : status'[r] = IF r = x THEN s ELSE status[r]
  BY DEF RunInv, RunTypeOK
<1>3. RunTypeOK'
  <2>1. status' \in [RunIds -> {"none", "RUNNING", "SUCCEEDED", "FAILED", "CORRUPT"}]
    <3>1. status \in [RunIds -> {"none", "RUNNING", "SUCCEEDED", "FAILED", "CORRUPT"}]
      BY DEF RunInv, RunTypeOK
    <3>. QED BY <3>1
  <2>2. \A r \in RunIds : status'[r] = "none" <=> r > rows
    <3>1. \A r \in RunIds : status[r] = "none" <=> r > rows
      BY DEF RunInv, RunTypeOK
    <3>2. s # "none" /\ ~(x > rows)
      BY <1>1
    <3>. QED BY <3>1, <3>2, <1>2
  <2>3. pruned \subseteq {r \in RunIds : status'[r] = "SUCCEEDED" \/ undone'}
    BY <1>1, <1>2 DEF RunInv, RunTypeOK
  <2>4. proc' \in [Processes -> Procs \cup {Nobody}]
    BY DEF RunInv, RunTypeOK
  <2>. QED BY <1>1, <2>1, <2>2, <2>3, <2>4 DEF RunInv, RunTypeOK, Procs, RunIds
<1>4. RowsApart'
  <2>1. \A q \in Processes : Holds(q)' => Holds(q) /\ proc'[q].row = proc[q].row
    BY <1>2 DEF Holds
  <2>2. \A q \in Processes : Doing(q, "succeed")' => Doing(q, "succeed")
    BY <1>2 DEF Doing
  <2>3. \A r \in 1..rows : r \in RunIds
    BY <1>1, BackupAssumption DEF RunInv, RunTypeOK, RunIds
  <2>4. \A q \in Processes : Holds(q)' => status'[proc'[q].row] # "SUCCEEDED" /\ proc'[q].row \in 1..rows'
    BY <1>1, <1>2, <2>1, <2>3 DEF RunInv, RowsApart
  <2>5. ~undone' => \A q \in Processes : Doing(q, "succeed")' => proc'[q].row \in stored'
    BY <1>1, <2>1, <2>2 DEF RunInv, RowsApart, Holds, Doing
  <2>. QED BY <2>1, <2>4, <2>5 DEF RunInv, RowsApart
<1>5. ReadRows'
  BY <1>1, <1>2 DEF RunInv, ReadRows, Doing, Prunes
<1>6. OnlyOldArePruned'
  <2>. SUFFICES ASSUME ~undone' PROVE OnlyOldArePruned'
    BY DEF OnlyOldArePruned
  <2>1. Successes' = Successes
    <3>1. \A r \in 1..rows : r \in RunIds
      BY <1>1, BackupAssumption DEF RunInv, RunTypeOK, RunIds
    <3>2. \A r \in 1..rows : status'[r] = "SUCCEEDED" <=> status[r] = "SUCCEEDED"
      BY <1>1, <1>2, <3>1
    <3>. QED BY <1>1, <3>2 DEF Successes
  <2>2. \A r : Behind(r)' <=> Behind(r)
    BY <2>1 DEF Behind
  <2>3. ASSUME NEW q \in Processes, Prunes(q)', NEW r \in proc'[q].seen
        PROVE  status'[r] = "SUCCEEDED" /\ Behind(r)'
    <3>1. Prunes(q) /\ proc'[q] = proc[q]
      BY <2>3, <1>2 DEF Prunes
    <3>2. status[r] = "SUCCEEDED" /\ Behind(r)
      BY <3>1, <2>3, <1>1 DEF RunInv, OnlyOldArePruned
    <3>3. r # x /\ r \in 1..rows
      BY <3>1, <3>2, <2>3, <1>1 DEF RunInv, ReadRows
    <3>4. r \in RunIds
      BY <3>3, <1>1, BackupAssumption DEF RunInv, RunTypeOK, RunIds
    <3>. QED BY <3>2, <3>3, <3>4, <2>2, <1>2
  <2>. QED BY <1>1, <2>1, <2>2, <2>3 DEF RunInv, OnlyOldArePruned
<1>. QED BY <1>3, <1>4, <1>5, <1>6 DEF RunInv

LEMMA GuardReadKeeps ==
  ASSUME RunInv, NEW p \in Processes, GuardRead(p)
  PROVE  RunInv'
<1>. DEFINE d == [do |-> IF Running = {} THEN "create" ELSE "guard", row |-> 0,
                  seen |-> Running, stale |-> Stale]
<1>1. Running \subseteq 1..rows /\ 1..rows \subseteq RunIds /\ 0 \in 0..MaxRuns
  BY BackupAssumption DEF RunInv, RunTypeOK, Running, RunIds
<1>2. d \in Procs
  <2>1. Stale \subseteq RunIds /\ Running \subseteq RunIds
    BY <1>1 DEF Stale
  <2>. QED BY <2>1, <1>1 DEF Procs
<1>3. d.do \in {"guard", "create"} /\ d.seen \subseteq 1..rows
  BY <1>1
<1>4. proc' = [proc EXCEPT ![p] = d] /\ backupFaults' \in 0..MaxBackupFaults
      /\ UNCHANGED <<rowVars, clockVars, undone>>
  BY DEF GuardRead, Set, RunInv, RunTypeOK
<1>. QED
  <2>. HIDE DEF d
  <2>. QED BY <1>2, <1>3, <1>4, ProcessKeeps

LEMMA GuardStepKeeps ==
  ASSUME RunInv, NEW p \in Processes, GuardStep(p)
  PROVE  RunInv'
<1>1. Doing(p, "guard") /\ proc[p] \in Procs /\ proc[p].seen \subseteq 1..rows
      /\ backupFaults' \in 0..MaxBackupFaults
  BY DEF GuardStep, Doing, RunInv, RunTypeOK, ReadRows
<1>2. PICK r \in proc[p].seen :
        IF r \in proc[p].stale
        THEN /\ Mark(r, "FAILED")
             /\ undone' = (undone \/ status[r] = "SUCCEEDED")
             /\ Set(p, [proc[p] EXCEPT !.seen = @ \ {r},
                          !.do = IF proc[p].seen = {r} THEN "create" ELSE "guard"])
        ELSE Set(p, Nobody) /\ UNCHANGED <<status, undone>>
  BY DEF GuardStep
<1>3. CASE r \in proc[p].stale
  <2>. DEFINE d == [proc[p] EXCEPT !.seen = @ \ {r},
                      !.do = IF proc[p].seen = {r} THEN "create" ELSE "guard"]
  <2>1. d \in Procs /\ d.do \in {"guard", "create"} /\ d.seen \subseteq 1..rows
    <3>. DEFINE v == IF proc[p].seen = {r} THEN "create" ELSE "guard"
                S == proc[p].seen \ {r}
    <3>1. d = [do |-> v, row |-> proc[p].row, seen |-> S, stale |-> proc[p].stale]
      <4>1. PICK o \in {"guard", "create", "dump", "succeed", "catch", "copy", "clean", "prune", "mark"},
                 w \in 0..MaxRuns, n \in SUBSET RunIds, t \in SUBSET RunIds :
              proc[p] = [do |-> o, row |-> w, seen |-> n, stale |-> t]
        BY <1>1 DEF Procs
      <4>2. /\ proc[p].row = w /\ proc[p].seen = n /\ proc[p].stale = t
        BY <4>1
      <4>3. DOMAIN d = {"do", "row", "seen", "stale"}
        BY <4>1
      <4>4. d.row = w /\ d.stale = t /\ d.seen = n \ {r} /\ d.do = v
        BY <4>1, <4>2
      <4>5. d = [i \in DOMAIN d |-> d[i]]
        OBVIOUS
      <4>. QED
        <5>. HIDE DEF d, v
        <5>. QED BY <4>2, <4>3, <4>4, <4>5
    <3>2. S \subseteq RunIds /\ S \subseteq 1..rows /\ v \in {"guard", "create"}
      BY <1>1 DEF Procs
    <3>3. proc[p].row \in 0..MaxRuns /\ proc[p].stale \in SUBSET RunIds
      BY <1>1 DEF Procs
    <3>. HIDE DEF v, S, d
    <3>. QED BY <3>1, <3>2, <3>3 DEF Procs
  <2>2. /\ proc' = [proc EXCEPT ![p] = d] /\ status' = [status EXCEPT ![r] = "FAILED"]
        /\ UNCHANGED <<rows, stored, pruned, clockVars>>
        /\ undone' = (undone \/ status[r] = "SUCCEEDED") /\ r \in 1..rows
    BY <1>1, <1>2, <1>3 DEF GuardStep, Set, Mark
  <2>. HIDE DEF d
  <2>. QED BY <1>1, <2>1, <2>2, MarkKeeps
<1>4. CASE r \notin proc[p].stale
  <2>1. proc' = [proc EXCEPT ![p] = Nobody] /\ UNCHANGED <<rowVars, clockVars, undone>>
    BY <1>2, <1>4 DEF GuardStep, Set, rowVars
  <2>. QED BY <1>1, <2>1, ProcessKeeps
<1>. QED BY <1>3, <1>4

LEMMA DumpFailsKeeps ==
  ASSUME RunInv, NEW p \in Processes, DumpFails(p) \/ BackupCrash(p) \/ CopyAndProve(p)
  PROVE  RunInv'
<1>0. /\ proc[p] # Nobody /\ proc[p] \in Procs /\ backupFaults' \in 0..MaxBackupFaults
      /\ UNCHANGED <<rowVars, clockVars, undone>>
  BY BackupAssumption DEF DumpFails, BackupCrash, CopyAndProve, Doing, RunInv, RunTypeOK
<1>1. CASE proc' = [proc EXCEPT ![p] = Nobody]
  BY <1>0, <1>1, ProcessKeeps
<1>2. CASE (Holds(p) /\ Goes(p, "catch")) \/ Goes(p, "clean")
  <2>1. \A x \in Procs, v \in {"catch", "clean"} : LET y == [x EXCEPT !.do = v] IN
          y \in Procs /\ y.do = v /\ y.row = x.row
    BY DEF Procs
  <2>2. PICK v \in {"catch", "clean"} :
          proc' = [proc EXCEPT ![p] = [proc[p] EXCEPT !.do = v]] /\ (v = "catch" => Holds(p))
    BY <1>2 DEF Goes, Set
  <2>. DEFINE d == [proc[p] EXCEPT !.do = v]
  <2>3. d \in Procs /\ d.do = v /\ d.row = proc[p].row
    BY <1>0, <2>1
  <2>4. proc' = [proc EXCEPT ![p] = d]
    BY <2>2
  <2>. HIDE DEF d
  <2>. QED BY <1>0, <2>2, <2>3, <2>4, ProcessKeeps
<1>3. CASE DumpFails(p)
  <2>1. Holds(p) /\ (Goes(p, "catch") \/ Set(p, Nobody))
    BY <1>3 DEF DumpFails, Doing, Holds
  <2>. QED BY <2>1, <1>1, <1>2 DEF Set
<1>4. CASE BackupCrash(p)
  BY <1>4, <1>1 DEF BackupCrash, Set
<1>5. CASE CopyAndProve(p)
  BY <1>5, <1>2 DEF CopyAndProve
<1>. QED BY <1>3, <1>4, <1>5

LEMMA GivenUpKeeps ==
  ASSUME RunInv, NEW p \in Processes, DumpCorrupt(p) \/ CatchWrite(p)
  PROVE  RunInv'
<1>1. /\ Holds(p) /\ backupFaults' \in 0..MaxBackupFaults
      /\ UNCHANGED <<rows, stored, pruned, clockVars, undone>>
      /\ proc' = [proc EXCEPT ![p] = Nobody]
      /\ \E s \in {"FAILED", "CORRUPT"} : status' = [status EXCEPT ![proc[p].row] = s]
  BY BackupAssumption DEF DumpCorrupt, CatchWrite, Doing, Holds, Set, Mark, RunInv, RunTypeOK
<1>2. proc[p].row \in 1..rows /\ status[proc[p].row] # "SUCCEEDED" /\ undone \in BOOLEAN
  BY <1>1 DEF RunInv, RowsApart, RunTypeOK
<1>3. undone' = (undone \/ status[proc[p].row] = "SUCCEEDED")
  BY <1>1, <1>2
<1>. QED BY <1>1, <1>2, <1>3, MarkKeeps

\* What becomes of a process's record.
Dos == {"guard", "create", "dump", "succeed", "catch", "copy", "clean", "prune", "mark"}
LEMMA ProcShape ==
  ASSUME NEW y, y = [i \in DOMAIN y |-> y[i]], DOMAIN y = {"do", "row", "seen", "stale"},
         y.do \in Dos, y.row \in 0..MaxRuns, y.seen \in SUBSET RunIds, y.stale \in SUBSET RunIds
  PROVE  y \in Procs
<1>1. y = [do |-> y.do, row |-> y.row, seen |-> y.seen, stale |-> y.stale]
  OBVIOUS
<1>2. [do |-> y.do, row |-> y.row, seen |-> y.seen, stale |-> y.stale] \in Procs
  BY DEF Procs, Dos
<1>. QED BY <1>1, <1>2

LEMMA ProcParts ==
  ASSUME NEW x \in Procs
  PROVE  /\ x = [i \in {"do", "row", "seen", "stale"} |-> x[i]]
         /\ x.do \in Dos /\ x.row \in 0..MaxRuns
         /\ x.seen \in SUBSET RunIds /\ x.stale \in SUBSET RunIds
BY DEF Procs, Dos

\* The newest of some rows.
LEMMA Least ==
  \A T \in SUBSET Nat : T # {} => \E x \in T : \A y \in T : x <= y
<1>. SUFFICES ASSUME NEW T \in SUBSET Nat, T # {}
              PROVE  \E x \in T : \A y \in T : x <= y
  OBVIOUS
<1>. DEFINE F == {0..t : t \in T}
            R == StrictSubsetOrdering(Nat)
<1>1. IsWellFoundedOn(R, FiniteSubsetsOf(Nat))
  BY FS_StrictSubsetOrderingWellFounded
<1>2. F \subseteq FiniteSubsetsOf(Nat)
  <2>1. \A t \in T : IsFiniteSet(0..t) /\ 0..t \subseteq Nat
    BY FS_Interval
  <2>. QED BY <2>1 DEF FiniteSubsetsOf
<1>3. F # {}
  OBVIOUS
<1>4. PICK D \in F : \A E \in F : ~(<<E, D>> \in R)
  <2>. HIDE DEF R, F
  <2>. QED BY <1>1, <1>2, <1>3, WFMin
<1>5. PICK x \in T : D = 0..x
  BY <1>4
<1>6. ASSUME NEW y \in T, y < x PROVE FALSE
  <2>1. 0..y \subseteq 0..x /\ x \in 0..x /\ x \notin 0..y
    BY <1>6
  <2>2. IsFiniteSet(0..x) /\ IsFiniteSet(0..y) /\ 0..x \subseteq Nat /\ 0..y \subseteq Nat
    BY FS_Interval
  <2>3. <<0..y, 0..x>> \in R
    BY <2>1, <2>2 DEF StrictSubsetOrdering, FiniteSubsetsOf
  <2>. QED BY <2>3, <1>4, <1>5
<1>. QED BY <1>6

LEMMA NewestOfSome ==
  ASSUME NEW S \in SUBSET RunIds, S # {}
  PROVE  \E q \in S : \A o \in S : o <= q
<1>. DEFINE T == {MaxRuns - q : q \in S}
<1>1. MaxRuns \in Nat /\ S \subseteq 1..MaxRuns
  BY BackupAssumption DEF RunIds
<1>2. T \in SUBSET Nat /\ T # {}
  <2>1. \A q \in S : MaxRuns - q \in Nat
    BY <1>1
  <2>. QED BY <2>1
<1>3. PICK x \in T : \A y \in T : x <= y
  <2>. HIDE DEF T
  <2>. QED BY <1>2, Least
<1>4. PICK q \in S : x = MaxRuns - q
  BY <1>3
<1>5. ASSUME NEW o \in S PROVE o <= q
  <2>1. MaxRuns - q <= MaxRuns - o
    BY <1>3, <1>4
  <2>2. o \in Int /\ q \in Int
    BY <1>1
  <2>. QED BY <2>1, <2>2, <1>1
<1>. QED BY <1>4, <1>5

LEMMA CreateRunKeeps ==
  ASSUME RunInv, NEW p \in Processes, CreateRun(p)
  PROVE  RunInv'
<1>0. /\ proc[p] \in Procs /\ rows \in Nat /\ MaxRuns \in Nat /\ rows <= MaxRuns
      /\ UNCHANGED <<stored, pruned, overdue, aged, backupFaults, undone>> /\ RunIds' = RunIds
      /\ backupFaults \in 0..MaxBackupFaults
  BY BackupAssumption DEF CreateRun, clockVars, Doing, RunInv, RunTypeOK, RunIds
<1>1. CASE rows < MaxRuns
  <2>. DEFINE n == rows + 1
              d == [proc[p] EXCEPT !.do = "dump", !.row = n, !.seen = {}, !.stale = {}]
  <2>1. n \in RunIds /\ n \in 0..MaxRuns /\ n > rows
    BY <1>0, <1>1 DEF RunIds
  <2>2. /\ rows' = n /\ status' = [status EXCEPT ![n] = "RUNNING"]
        /\ proc' = [proc EXCEPT ![p] = d]
    BY <1>1 DEF CreateRun, Mark, Set
  <2>9. d \in Procs /\ d.do = "dump" /\ d.row = n
    <3>1. "dump" \in Dos /\ {} \in SUBSET RunIds
      BY DEF Dos
    <3>2. n \in 0..MaxRuns
      BY <2>1
    <3>. HIDE DEF n
    <3>3. proc[p] = [i \in {"do", "row", "seen", "stale"} |-> proc[p][i]]
      BY <1>0, ProcParts
    <3>4. d = [i \in DOMAIN d |-> d[i]] /\ DOMAIN d = {"do", "row", "seen", "stale"}
      BY <3>3
    <3>5. d.do = "dump" /\ d.row = n /\ d.seen = {} /\ d.stale = {}
      BY <3>3
    <3>. HIDE DEF d
    <3>. QED BY <3>1, <3>2, <3>4, <3>5, ProcShape
  <2>. HIDE DEF n, d
  <2>3. /\ \A q \in Processes : proc'[q] = IF q = p THEN d ELSE proc[q]
        /\ \A r \in RunIds : status'[r] = IF r = n THEN "RUNNING" ELSE status[r]
    BY <2>2 DEF RunInv, RunTypeOK
  <2>4. n = rows + 1 /\ 1..rows \subseteq 1..n /\ n \notin 1..rows /\ 1..rows \subseteq RunIds
    BY <1>0, <1>1 DEF n, RunIds
  <2>5. RunTypeOK'
    <3>1. status' \in [RunIds -> {"none", "RUNNING", "SUCCEEDED", "FAILED", "CORRUPT"}]
      BY <2>2 DEF RunInv, RunTypeOK
    <3>2. \A r \in RunIds : status'[r] = "none" <=> r > n
      <4>1. \A r \in RunIds : status[r] = "none" <=> r > rows
        BY DEF RunInv, RunTypeOK
      <4>2. \A r \in RunIds : r \in Int
        BY DEF RunIds
      <4>. QED BY <4>1, <4>2, <2>3, <2>4, <1>0
    <3>3. pruned \subseteq {r \in RunIds : status'[r] = "SUCCEEDED" \/ undone}
      <4>1. status[n] = "none"
        BY <2>1, <2>4, <1>0 DEF RunInv, RunTypeOK
      <4>2. pruned \subseteq {r \in RunIds : status[r] = "SUCCEEDED" \/ undone}
        BY DEF RunInv, RunTypeOK
      <4>. QED BY <4>1, <4>2, <2>3
    <3>4. proc' \in [Processes -> Procs \cup {Nobody}]
      BY <2>2, <2>9 DEF RunInv, RunTypeOK
    <3>5. stored \cup overdue \cup aged \subseteq 1..n
      BY <2>4 DEF RunInv, RunTypeOK
    <3>6. undone \in BOOLEAN
      BY DEF RunInv, RunTypeOK
    <3>. QED BY <1>0, <2>1, <2>2, <3>1, <3>2, <3>3, <3>4, <3>5, <3>6 DEF RunTypeOK, Procs, RunIds
  <2>6. RowsApart'
    <3>1. \A q \in Processes : q # p =>
            /\ Holds(q)' => Holds(q) /\ proc'[q].row = proc[q].row
            /\ Doing(q, "succeed")' => Doing(q, "succeed")
      BY <2>3 DEF Holds, Doing
    <3>2. d.row = n /\ d.do = "dump" /\ proc'[p] = d
      BY <2>3, <2>9
    <3>3. ~Doing(p, "succeed")'
      BY <3>2 DEF Doing
    <3>4. \A q \in Processes : q # p /\ Holds(q) => proc[q].row \in 1..rows /\ status[proc[q].row] # "SUCCEEDED"
      BY DEF RunInv, RowsApart
    <3>5. \A q \in Processes : Holds(q)' => proc'[q].row \in 1..n /\ status'[proc'[q].row] # "SUCCEEDED"
      <4>1. n \in 1..n
        BY <2>4, <1>0
      <4>2. ASSUME NEW q \in Processes, q # p, Holds(q)'
            PROVE  proc'[q].row \in 1..n /\ status'[proc'[q].row] # "SUCCEEDED"
        BY <4>2, <3>1, <3>4, <2>3, <2>4
      <4>3. proc'[p].row \in 1..n /\ status'[proc'[p].row] # "SUCCEEDED"
        BY <4>1, <3>2, <2>3, <2>1
      <4>. QED BY <4>2, <4>3
    <3>6. \A q, r \in Processes : q # r /\ Holds(q)' /\ Holds(r)' => proc'[q].row # proc'[r].row
      <4>1. \A q \in Processes : q # p /\ Holds(q)' => proc'[q].row \in 1..rows
        BY <3>1, <3>4
      <4>. QED BY <4>1, <3>1, <3>2, <2>4 DEF RunInv, RowsApart
    <3>7. ~undone => \A q \in Processes : Doing(q, "succeed")' => proc'[q].row \in stored
      BY <3>1, <3>3 DEF RunInv, RowsApart, Doing, Holds
    <3>. QED BY <1>0, <2>2, <3>5, <3>6, <3>7 DEF RowsApart
  <2>7. ReadRows'
    <3>1. \A q \in Processes : q # p => proc'[q] = proc[q]
      BY <2>3
    <3>2. ~Doing(p, "guard")' /\ ~Prunes(p)' /\ ~Doing(p, "mark")'
      BY <2>3, <2>9 DEF Doing, Prunes
    <3>. QED BY <2>2, <2>4, <3>1, <3>2 DEF RunInv, ReadRows, Doing, Prunes
  <2>8. OnlyOldArePruned'
    <3>. SUFFICES ASSUME ~undone PROVE OnlyOldArePruned'
      BY <1>0 DEF OnlyOldArePruned
    <3>1. Successes' = Successes
      <4>1. \A r \in 1..n : r \in RunIds /\ (r = n \/ r \in 1..rows)
        BY <2>1, <2>4, <1>0
      <4>. QED BY <4>1, <2>2, <2>3, <2>4, <1>0 DEF Successes
    <3>2. \A r : Behind(r)' <=> Behind(r)
      BY <3>1 DEF Behind
    <3>3. ASSUME NEW q \in Processes, Prunes(q)', NEW r \in proc'[q].seen
          PROVE  status'[r] = "SUCCEEDED" /\ Behind(r)'
      <4>1. q # p /\ Prunes(q) /\ proc'[q] = proc[q]
        BY <3>3, <2>3, <2>9 DEF Prunes
      <4>2. status[r] = "SUCCEEDED" /\ Behind(r) /\ r \in 1..rows
        BY <4>1, <3>3 DEF RunInv, OnlyOldArePruned, ReadRows
      <4>. QED BY <4>2, <2>3, <2>4, <3>2
    <3>. QED BY <1>0, <3>1, <3>2, <3>3 DEF RunInv, OnlyOldArePruned
  <2>. QED BY <2>5, <2>6, <2>7, <2>8 DEF RunInv
<1>2. CASE ~(rows < MaxRuns)
  <2>1. proc' = [proc EXCEPT ![p] = Nobody] /\ UNCHANGED <<rowVars, clockVars, undone>>
    BY <1>2 DEF CreateRun, Set, rowVars
  <2>. QED BY <1>0, <2>1, ProcessKeeps
<1>. QED BY <1>1, <1>2

\* Only what a process does next changes.
LEMMA DoesNext ==
  ASSUME NEW x \in Procs, NEW o \in Dos
  PROVE  /\ [x EXCEPT !.do = o] \in Procs /\ [x EXCEPT !.do = o].do = o
         /\ [x EXCEPT !.do = o].row = x.row /\ [x EXCEPT !.do = o].seen = x.seen
<1>. DEFINE d == [x EXCEPT !.do = o]
<1>1. /\ x = [i \in {"do", "row", "seen", "stale"} |-> x[i]]
      /\ x.row \in 0..MaxRuns /\ x.seen \in SUBSET RunIds /\ x.stale \in SUBSET RunIds
  BY ProcParts
<1>2. d = [i \in DOMAIN d |-> d[i]] /\ DOMAIN d = {"do", "row", "seen", "stale"}
  BY <1>1
<1>3. d.do = o /\ d.row = x.row /\ d.seen = x.seen /\ d.stale = x.stale
  BY <1>1
<1>. HIDE DEF d
<1>4. d \in Procs
  BY <1>1, <1>2, <1>3, ProcShape
<1>. QED BY <1>3, <1>4 DEF d

LEMMA CleanReadKeeps ==
  ASSUME RunInv, NEW p \in Processes, CleanRead(p)
  PROVE  RunInv'
<1>0. /\ proc[p] \in Procs /\ UNCHANGED <<rowVars, clockVars, undone>>
      /\ backupFaults' \in 0..MaxBackupFaults
  BY DEF CleanRead, Doing, RunInv, RunTypeOK
<1>1. CASE Prunable = {}
  <2>1. proc' = [proc EXCEPT ![p] = Nobody]
    BY <1>1 DEF CleanRead, Set
  <2>. QED BY <1>0, <2>1, ProcessKeeps
<1>2. CASE Prunable # {}
  <2>. DEFINE d == [proc[p] EXCEPT !.do = "prune", !.seen = Prunable]
  <2>1. Prunable \in SUBSET RunIds /\ Prunable \subseteq 1..rows /\ Prunable \subseteq Successes
    BY BackupAssumption DEF Prunable, Successes, RunIds, RunInv, RunTypeOK
  <2>2. d \in Procs /\ d.do = "prune" /\ d.seen = Prunable
    <3>1. "prune" \in Dos
      BY DEF Dos
    <3>2. /\ proc[p] = [i \in {"do", "row", "seen", "stale"} |-> proc[p][i]]
          /\ proc[p].row \in 0..MaxRuns /\ proc[p].stale \in SUBSET RunIds
      BY <1>0, ProcParts
    <3>3. d = [i \in DOMAIN d |-> d[i]] /\ DOMAIN d = {"do", "row", "seen", "stale"}
      BY <3>2
    <3>4. d.do = "prune" /\ d.row = proc[p].row /\ d.seen = Prunable /\ d.stale = proc[p].stale
      BY <3>2
    <3>. HIDE DEF d
    <3>. QED BY <2>1, <3>1, <3>2, <3>3, <3>4, ProcShape
  <2>3. proc' = [proc EXCEPT ![p] = d]
    BY <1>2 DEF CleanRead, Set
  <2>4. \A r \in Prunable : status[r] = "SUCCEEDED" /\ Behind(r)
    <3>1. \A r \in Prunable : r \notin Newest(MinRetained)
      BY DEF Prunable
    <3>2. \A r \in Prunable : ~(Cardinality({q \in Successes : q > r}) < MinRetained)
      BY <3>1, <2>1 DEF Newest
    <3>3. \A r : Cardinality({q \in Successes : q > r}) \in Nat
      BY RowsAreFinite DEF NewerAreFinite, RunInv
    <3>4. \A r \in Prunable : Behind(r)
      BY <3>2, <3>3, BackupAssumption DEF Behind
    <3>. QED BY <3>4, <2>1 DEF Successes
  <2>. HIDE DEF d
  <2>. QED BY <1>0, <1>2, <2>1, <2>2, <2>3, <2>4, ProcessKeeps
<1>. QED BY <1>1, <1>2

LEMMA DumpDoneKeeps ==
  ASSUME RunInv, NEW p \in Processes, DumpDone(p)
  PROVE  RunInv'
<1>. DEFINE d == [proc[p] EXCEPT !.do = "succeed"]
            x == proc[p].row
<1>1. /\ Holds(p) /\ proc[p] \in Procs /\ proc' = [proc EXCEPT ![p] = d] /\ stored' = stored \cup {x}
      /\ UNCHANGED <<rows, status, pruned, overdue, aged, backupFaults, undone>> /\ RunIds' = RunIds
  BY DEF DumpDone, Doing, Holds, Goes, Set, clockVars, RunInv, RunTypeOK, RunIds
<1>2. d \in Procs /\ d.do = "succeed" /\ d.row = x
  <2>1. "succeed" \in Dos
    BY DEF Dos
  <2>. QED BY <2>1, <1>1, DoesNext
<1>3. x \in 1..rows /\ status[x] # "SUCCEEDED"
  BY <1>1 DEF RunInv, RowsApart
<1>. HIDE DEF d, x
<1>4. \A q \in Processes : proc'[q] = IF q = p THEN d ELSE proc[q]
  BY <1>1 DEF RunInv, RunTypeOK
<1>5. RunTypeOK'
  <2>1. proc' \in [Processes -> Procs \cup {Nobody}]
    BY <1>1, <1>2 DEF RunInv, RunTypeOK
  <2>2. stored' \cup overdue \cup aged \subseteq 1..rows
    BY <1>1, <1>3 DEF RunInv, RunTypeOK
  <2>. QED BY <1>1, <2>1, <2>2 DEF RunInv, RunTypeOK, Procs, RunIds
<1>6. RowsApart'
  <2>1. \A q \in Processes : Holds(q)' => Holds(q) /\ proc'[q].row = proc[q].row
    BY <1>1, <1>2, <1>4 DEF Holds, x
  <2>2. \A q \in Processes : Doing(q, "succeed")' => proc'[q].row = x \/ (Doing(q, "succeed") /\ proc'[q] = proc[q])
    BY <1>2, <1>4 DEF Doing
  <2>3. ~undone => \A q \in Processes : Doing(q, "succeed")' => proc'[q].row \in stored'
    BY <1>1, <2>2 DEF RunInv, RowsApart
  <2>4. \A q \in Processes : Holds(q)' => proc'[q].row \in 1..rows /\ status[proc'[q].row] # "SUCCEEDED"
    BY <2>1 DEF RunInv, RowsApart
  <2>5. \A q, r \in Processes : q # r /\ Holds(q)' /\ Holds(r)' => proc'[q].row # proc'[r].row
    BY <2>1 DEF RunInv, RowsApart
  <2>. QED BY <1>1, <2>3, <2>4, <2>5 DEF RowsApart
<1>7. \A q \in Processes : /\ Prunes(q)' => Prunes(q) /\ proc'[q] = proc[q]
                           /\ Doing(q, "mark")' => Doing(q, "mark") /\ proc'[q] = proc[q]
                           /\ Doing(q, "guard")' => Doing(q, "guard") /\ proc'[q] = proc[q]
  BY <1>2, <1>4 DEF Prunes, Doing
<1>8. ReadRows'
  BY <1>1, <1>7 DEF RunInv, ReadRows
<1>9. OnlyOldArePruned'
  <2>1. Successes' = Successes
    BY <1>1 DEF Successes
  <2>2. \A r : Behind(r)' <=> Behind(r)
    BY <2>1 DEF Behind
  <2>3. ASSUME ~undone, NEW q \in Processes, Prunes(q)', NEW r \in proc'[q].seen
        PROVE  status'[r] = "SUCCEEDED" /\ Behind(r)'
    BY <2>3, <1>1, <1>7, <2>2 DEF RunInv, OnlyOldArePruned
  <2>. QED BY <1>1, <2>1, <2>2, <2>3 DEF RunInv, OnlyOldArePruned
<1>. QED BY <1>5, <1>6, <1>8, <1>9 DEF RunInv

LEMMA RecordSuccessKeeps ==
  ASSUME RunInv, NEW p \in Processes, RecordSuccess(p)
  PROVE  RunInv'
<1>. DEFINE d == [proc[p] EXCEPT !.do = "copy"]
            x == proc[p].row
<1>1. /\ Holds(p) /\ proc[p] \in Procs /\ proc' = [proc EXCEPT ![p] = d]
      /\ status' = [status EXCEPT ![x] = "SUCCEEDED"]
      /\ UNCHANGED <<rows, stored, pruned, overdue, aged, backupFaults, undone>> /\ RunIds' = RunIds
  BY DEF RecordSuccess, Doing, Holds, Goes, Set, Mark, clockVars, RunInv, RunTypeOK, RunIds
<1>2. d \in Procs /\ d.do = "copy"
  <2>1. "copy" \in Dos
    BY DEF Dos
  <2>. QED BY <2>1, <1>1, DoesNext
<1>3. /\ x \in 1..rows /\ x \in RunIds /\ status[x] # "SUCCEEDED" /\ rows \in Nat
      /\ ~undone => x \in stored
  <2>1. x \in 1..rows /\ status[x] # "SUCCEEDED"
    BY <1>1 DEF RunInv, RowsApart
  <2>2. 1..rows \subseteq RunIds /\ rows \in Nat
    BY BackupAssumption DEF RunInv, RunTypeOK, RunIds
  <2>3. Doing(p, "succeed")
    BY DEF RecordSuccess
  <2>4. ~undone => x \in stored
    BY <2>3 DEF RunInv, RowsApart
  <2>. QED BY <2>1, <2>2, <2>4
<1>. HIDE DEF d, x
<1>4. /\ \A q \in Processes : proc'[q] = IF q = p THEN d ELSE proc[q]
      /\ \A r \in RunIds : status'[r] = IF r = x THEN "SUCCEEDED" ELSE status[r]
  BY <1>1 DEF RunInv, RunTypeOK
<1>5. RunTypeOK'
  <2>1. proc' \in [Processes -> Procs \cup {Nobody}]
    BY <1>1, <1>2 DEF RunInv, RunTypeOK
  <2>2. status' \in [RunIds -> {"none", "RUNNING", "SUCCEEDED", "FAILED", "CORRUPT"}]
    BY <1>1 DEF RunInv, RunTypeOK
  <2>3. \A r \in RunIds : status'[r] = "none" <=> r > rows
    <3>1. \A r \in RunIds : status[r] = "none" <=> r > rows
      BY DEF RunInv, RunTypeOK
    <3>2. ~(x > rows)
      BY <1>3
    <3>. QED BY <3>1, <3>2, <1>4
  <2>4. pruned \subseteq {r \in RunIds : status'[r] = "SUCCEEDED" \/ undone}
    BY <1>4 DEF RunInv, RunTypeOK
  <2>. QED BY <1>1, <2>1, <2>2, <2>3, <2>4 DEF RunInv, RunTypeOK, Procs, RunIds
<1>6. RowsApart'
  <2>1. \A q \in Processes : Holds(q)' => q # p /\ Holds(q) /\ proc'[q] = proc[q]
    BY <1>2, <1>4 DEF Holds
  <2>2. \A q \in Processes : Doing(q, "succeed")' => Doing(q, "succeed") /\ proc'[q] = proc[q]
    BY <1>2, <1>4 DEF Doing
  <2>3. 1..rows \subseteq RunIds
    BY BackupAssumption DEF RunInv, RunTypeOK, RunIds
  <2>4. \A q \in Processes : Holds(q)' => proc'[q].row \in 1..rows /\ status'[proc'[q].row] # "SUCCEEDED"
    <3>1. ASSUME NEW q \in Processes, Holds(q)'
          PROVE  proc'[q].row \in 1..rows /\ status'[proc'[q].row] # "SUCCEEDED"
      <4>1. q # p /\ Holds(q) /\ proc'[q] = proc[q]
        BY <3>1, <2>1
      <4>2. proc[q].row \in 1..rows /\ status[proc[q].row] # "SUCCEEDED" /\ proc[q].row # x
        BY <4>1, <1>1 DEF RunInv, RowsApart, x
      <4>. QED BY <4>1, <4>2, <2>3, <1>4
    <3>. QED BY <3>1
  <2>. QED BY <1>1, <2>1, <2>2, <2>4 DEF RunInv, RowsApart
<1>7. \A q \in Processes : /\ Prunes(q)' => Prunes(q) /\ proc'[q] = proc[q]
                           /\ Doing(q, "mark")' => Doing(q, "mark") /\ proc'[q] = proc[q]
                           /\ Doing(q, "guard")' => Doing(q, "guard") /\ proc'[q] = proc[q]
  BY <1>2, <1>4 DEF Prunes, Doing
<1>8. ReadRows'
  BY <1>1, <1>7 DEF RunInv, ReadRows
<1>9. OnlyOldArePruned'
  <2>. SUFFICES ASSUME ~undone PROVE OnlyOldArePruned'
    BY <1>1 DEF OnlyOldArePruned
  <2>0. 1..rows \subseteq RunIds
    BY BackupAssumption DEF RunInv, RunTypeOK, RunIds
  <2>1. Successes \subseteq Successes' /\ Successes' \subseteq Successes \cup {x}
    BY <1>1, <1>4, <2>0 DEF Successes
  <2>2. \A r : Behind(r) => Behind(r)'
    BY <2>1, <1>5, BehindGrows DEF RunInv
  <2>3. ASSUME NEW q \in Processes, Prunes(q)', NEW r \in proc'[q].seen
        PROVE  status'[r] = "SUCCEEDED" /\ Behind(r)'
    <3>1. status[r] = "SUCCEEDED" /\ Behind(r) /\ r \in 1..rows
      BY <2>3, <1>7 DEF RunInv, OnlyOldArePruned, ReadRows
    <3>. QED BY <3>1, <2>0, <2>2, <1>4
  <2>4. \A r \in pruned' : Behind(r)'
    BY <1>1, <2>2 DEF RunInv, OnlyOldArePruned
  <2>5. \A r \in Successes' \ stored' : Behind(r)'
    <3>1. \A r \in Successes' \ stored' : r \in Successes \ stored
      BY <1>1, <1>3, <2>1
    <3>. QED BY <3>1, <2>2 DEF RunInv, OnlyOldArePruned
  <2>. QED BY <2>3, <2>4, <2>5 DEF OnlyOldArePruned
<1>. QED BY <1>5, <1>6, <1>8, <1>9 DEF RunInv

LEMMA PruneFilesKeeps ==
  ASSUME RunInv, NEW p \in Processes, PruneFiles(p)
  PROVE  RunInv'
<1>. DEFINE x == CHOOSE q \in proc[p].seen : \A o \in proc[p].seen : o <= q
            d == [proc[p] EXCEPT !.do = "mark", !.row = x]
<1>1. /\ Prunes(p) /\ proc[p] \in Procs /\ proc' = [proc EXCEPT ![p] = d] /\ stored' = stored \ {x}
      /\ UNCHANGED <<rows, status, pruned, overdue, aged, backupFaults, undone>> /\ RunIds' = RunIds
  BY DEF PruneFiles, Doing, Prunes, Set, clockVars, RunInv, RunTypeOK, RunIds
<1>2. /\ proc[p].seen \subseteq 1..rows /\ proc[p].seen # {} /\ proc[p].seen \in SUBSET RunIds
      /\ rows \in Nat /\ 1..rows \subseteq RunIds
  BY <1>1, ProcParts, BackupAssumption DEF RunInv, ReadRows, RunTypeOK, RunIds
<1>3. x \in proc[p].seen
  <2>1. \E q \in proc[p].seen : \A o \in proc[p].seen : o <= q
    BY <1>2, NewestOfSome
  <2>. QED BY <2>1
<1>. HIDE DEF x
<1>4. d \in Procs /\ d.do = "mark" /\ d.row = x /\ d.seen = proc[p].seen
  <2>1. "mark" \in Dos /\ x \in 0..MaxRuns
    BY <1>2, <1>3, BackupAssumption DEF Dos, RunIds
  <2>2. /\ proc[p] = [i \in {"do", "row", "seen", "stale"} |-> proc[p][i]]
        /\ proc[p].stale \in SUBSET RunIds
    BY <1>1, ProcParts
  <2>3. d = [i \in DOMAIN d |-> d[i]] /\ DOMAIN d = {"do", "row", "seen", "stale"}
    BY <2>2
  <2>4. d.do = "mark" /\ d.row = x /\ d.seen = proc[p].seen /\ d.stale = proc[p].stale
    BY <2>2
  <2>. HIDE DEF d
  <2>5. d \in Procs
    BY <1>2, <2>1, <2>2, <2>3, <2>4, ProcShape
  <2>. QED BY <2>4, <2>5
<1>. HIDE DEF d
<1>5. \A q \in Processes : proc'[q] = IF q = p THEN d ELSE proc[q]
  BY <1>1 DEF RunInv, RunTypeOK
<1>6. RunTypeOK'
  <2>1. proc' \in [Processes -> Procs \cup {Nobody}]
    BY <1>1, <1>4 DEF RunInv, RunTypeOK
  <2>2. stored' \cup overdue \cup aged \subseteq 1..rows
    BY <1>1 DEF RunInv, RunTypeOK
  <2>. QED BY <1>1, <2>1, <2>2 DEF RunInv, RunTypeOK, Procs, RunIds
<1>7. RowsApart'
  <2>1. \A q \in Processes : Holds(q)' => Holds(q) /\ proc'[q] = proc[q]
    BY <1>4, <1>5 DEF Holds
  <2>2. \A q \in Processes : Doing(q, "succeed")' => Doing(q, "succeed") /\ proc'[q] = proc[q] /\ Holds(q)
    BY <1>4, <1>5 DEF Doing, Holds
  <2>3. ~undone => status[x] = "SUCCEEDED"
    BY <1>1, <1>3 DEF RunInv, OnlyOldArePruned
  <2>4. ~undone => \A q \in Processes : Doing(q, "succeed")' => proc'[q].row \in stored'
    BY <1>1, <2>2, <2>3 DEF RunInv, RowsApart
  <2>. QED BY <1>1, <2>1, <2>4 DEF RunInv, RowsApart
<1>8. ReadRows'
  <2>1. \A q \in Processes : Doing(q, "guard")' => Doing(q, "guard") /\ proc'[q] = proc[q]
    BY <1>4, <1>5 DEF Doing
  <2>2. \A q \in Processes : Prunes(q)' => Prunes(q) /\ proc'[q].seen = proc[q].seen
    BY <1>1, <1>4, <1>5 DEF Prunes
  <2>3. \A q \in Processes : Doing(q, "mark")' => q = p \/ (Doing(q, "mark") /\ proc'[q] = proc[q])
    BY <1>5 DEF Doing
  <2>4. proc'[p].row \in proc'[p].seen
    BY <1>3, <1>4, <1>5
  <2>. QED BY <1>1, <2>1, <2>2, <2>3, <2>4 DEF RunInv, ReadRows
<1>9. OnlyOldArePruned'
  <2>. SUFFICES ASSUME ~undone PROVE OnlyOldArePruned'
    BY <1>1 DEF OnlyOldArePruned
  <2>1. Successes' = Successes
    BY <1>1 DEF Successes
  <2>2. \A r : Behind(r)' <=> Behind(r)
    BY <2>1 DEF Behind
  <2>3. ASSUME NEW q \in Processes, Prunes(q)', NEW r \in proc'[q].seen
        PROVE  status'[r] = "SUCCEEDED" /\ Behind(r)'
    <3>1. Prunes(q) /\ r \in proc[q].seen
      BY <2>3, <1>1, <1>4, <1>5 DEF Prunes
    <3>. QED BY <3>1, <1>1, <2>2 DEF RunInv, OnlyOldArePruned
  <2>4. Behind(x)
    BY <1>1, <1>3 DEF RunInv, OnlyOldArePruned
  <2>5. \A r \in Successes' \ stored' : Behind(r)'
    BY <1>1, <2>1, <2>2, <2>4 DEF RunInv, OnlyOldArePruned
  <2>. QED BY <1>1, <2>2, <2>3, <2>5 DEF RunInv, OnlyOldArePruned
<1>. QED BY <1>6, <1>7, <1>8, <1>9 DEF RunInv

LEMMA PruneMarkKeeps ==
  ASSUME RunInv, NEW p \in Processes, PruneMark(p)
  PROVE  RunInv'
<1>. DEFINE x == proc[p].row
            rest == proc[p].seen \ {x}
            e == [proc[p] EXCEPT !.do = "prune", !.seen = rest]
            d == IF rest = {} THEN Nobody ELSE e
<1>1. /\ Prunes(p) /\ Doing(p, "mark") /\ proc[p] \in Procs /\ proc' = [proc EXCEPT ![p] = d]
      /\ pruned' = pruned \cup {x}
      /\ UNCHANGED <<rows, status, stored, overdue, aged, backupFaults, undone>> /\ RunIds' = RunIds
  BY DEF PruneMark, Doing, Prunes, Set, clockVars, RunInv, RunTypeOK, RunIds
<1>2. /\ proc[p].seen \subseteq 1..rows /\ proc[p].seen \in SUBSET RunIds
      /\ rows \in Nat /\ 1..rows \subseteq RunIds /\ x \in proc[p].seen
      /\ rest \subseteq proc[p].seen
  BY <1>1, ProcParts, BackupAssumption DEF RunInv, ReadRows, RunTypeOK, RunIds
<1>3. e \in Procs /\ e.do = "prune" /\ e.seen = rest
  <2>1. "prune" \in Dos /\ rest \in SUBSET RunIds
    BY <1>2 DEF Dos
  <2>2. /\ proc[p] = [i \in {"do", "row", "seen", "stale"} |-> proc[p][i]]
        /\ proc[p].stale \in SUBSET RunIds /\ proc[p].row \in 0..MaxRuns
    BY <1>1, ProcParts
  <2>. HIDE DEF rest
  <2>3. e = [i \in DOMAIN e |-> e[i]] /\ DOMAIN e = {"do", "row", "seen", "stale"}
    BY <2>2
  <2>4. e.do = "prune" /\ e.row = proc[p].row /\ e.seen = rest /\ e.stale = proc[p].stale
    BY <2>2
  <2>. HIDE DEF e
  <2>5. e \in Procs
    BY <2>1, <2>2, <2>3, <2>4, ProcShape
  <2>. QED BY <2>4, <2>5
<1>. HIDE DEF e
<1>4. d \in Procs \cup {Nobody} /\ (d = Nobody \/ (d.do = "prune" /\ d.seen = rest /\ rest # {}))
  BY <1>3
<1>. HIDE DEF d, x, rest
<1>5. \A q \in Processes : proc'[q] = IF q = p THEN d ELSE proc[q]
  BY <1>1 DEF RunInv, RunTypeOK
<1>0. x \in RunIds /\ (~undone => status[x] = "SUCCEEDED" /\ Behind(x))
  BY <1>1, <1>2 DEF RunInv, OnlyOldArePruned
<1>6. RunTypeOK'
  <2>1. proc' \in [Processes -> Procs \cup {Nobody}]
    BY <1>1, <1>4 DEF RunInv, RunTypeOK
  <2>2. pruned' \subseteq {r \in RunIds : status[r] = "SUCCEEDED" \/ undone}
    BY <1>1, <1>0 DEF RunInv, RunTypeOK
  <2>. QED BY <1>1, <2>1, <2>2 DEF RunInv, RunTypeOK, Procs, RunIds
<1>7. RowsApart'
  <2>1. \A q \in Processes : Holds(q)' => Holds(q) /\ proc'[q] = proc[q]
    BY <1>4, <1>5 DEF Holds
  <2>2. \A q \in Processes : Doing(q, "succeed")' => Doing(q, "succeed") /\ proc'[q] = proc[q]
    BY <1>4, <1>5 DEF Doing
  <2>. QED BY <1>1, <2>1, <2>2 DEF RunInv, RowsApart
<1>8. \A q \in Processes : Prunes(q)' => Prunes(q) /\ proc'[q].seen \subseteq proc[q].seen /\ proc'[q].seen # {}
  <2>1. ASSUME NEW q \in Processes, Prunes(q)'
        PROVE  Prunes(q) /\ proc'[q].seen \subseteq proc[q].seen /\ proc'[q].seen # {}
    <3>1. CASE q = p
      <4>1. proc'[q].seen = rest /\ rest # {}
        BY <2>1, <3>1, <1>4, <1>5 DEF Prunes
      <4>. QED BY <4>1, <3>1, <1>1, <1>2
    <3>2. CASE q # p
      BY <2>1, <3>2, <1>5 DEF Prunes, RunInv, ReadRows
    <3>. QED BY <3>1, <3>2
  <2>. QED BY <2>1
<1>9. ReadRows'
  <2>1. \A q \in Processes : Doing(q, "guard")' => Doing(q, "guard") /\ proc'[q] = proc[q]
    BY <1>4, <1>5 DEF Doing
  <2>2. \A q \in Processes : Doing(q, "mark")' => Doing(q, "mark") /\ proc'[q] = proc[q]
    BY <1>4, <1>5 DEF Doing
  <2>. QED BY <1>1, <1>8, <2>1, <2>2 DEF RunInv, ReadRows
<1>10. OnlyOldArePruned'
  <2>. SUFFICES ASSUME ~undone PROVE OnlyOldArePruned'
    BY <1>1 DEF OnlyOldArePruned
  <2>1. Successes' = Successes \ {x}
    BY <1>1 DEF Successes
  <2>2. \A r \in RunIds : Behind(r) => Behind(r)'
    BY <2>1, <1>0, <1>6, BehindWithoutOne DEF RunInv
  <2>3. ASSUME NEW q \in Processes, Prunes(q)', NEW r \in proc'[q].seen
        PROVE  status'[r] = "SUCCEEDED" /\ Behind(r)'
    <3>1. Prunes(q) /\ r \in proc[q].seen
      BY <2>3, <1>8
    <3>2. status[r] = "SUCCEEDED" /\ Behind(r) /\ r \in RunIds
      BY <3>1, <1>2 DEF RunInv, OnlyOldArePruned, ReadRows
    <3>. QED BY <3>2, <1>1, <2>2
  <2>4. \A r \in pruned' : Behind(r)'
    <3>1. pruned \subseteq RunIds
      BY DEF RunInv, RunTypeOK
    <3>. QED BY <3>1, <1>0, <1>1, <2>2 DEF RunInv, OnlyOldArePruned
  <2>5. \A r \in Successes' \ stored' : Behind(r)'
    <3>1. \A r \in Successes : r \in RunIds
      BY <1>2 DEF Successes
    <3>. QED BY <3>1, <1>1, <2>1, <2>2 DEF RunInv, OnlyOldArePruned
  <2>. QED BY <2>3, <2>4, <2>5 DEF OnlyOldArePruned
<1>. QED BY <1>6, <1>7, <1>9, <1>10 DEF RunInv

\* Time passes.
LEMMA RunClocksKeep ==
  ASSUME RunInv, (\E r \in RunIds : RowAbandoned(r)) \/ RowAges
  PROVE  RunInv'
<1>1. UNCHANGED <<rowVars, proc, backupFaults, undone>>
  BY DEF RowAbandoned, RowAges
<1>2. /\ UNCHANGED <<rows, status, stored, pruned, proc, backupFaults, undone>>
      /\ RunIds' = RunIds /\ Successes' = Successes
  BY <1>1 DEF rowVars, RunIds, Successes
<1>3. rows \in Nat /\ stored \cup overdue \cup aged \subseteq 1..rows
  BY BackupAssumption DEF RunInv, RunTypeOK
<1>4. overdue' \subseteq 1..rows /\ aged' \subseteq 1..rows
  <2>1. CASE \E r \in RunIds : RowAbandoned(r)
    BY <2>1, <1>3 DEF RowAbandoned, Running
  <2>2. CASE RowAges
    <3>1. Cardinality(aged) \in Nat
      <4>1. IsFiniteSet(1..rows)
        BY <1>3, FS_Interval
      <4>2. IsFiniteSet(aged)
        BY <1>3, <4>1, FS_Subset
      <4>. QED BY <4>2, FS_CardinalityType
    <3>2. Cardinality(aged) + 1 \in 1..rows
      BY <3>1, <2>2, <1>3 DEF RowAges
    <3>. QED BY <3>2, <2>2, <1>3 DEF RowAges
  <2>. QED BY <2>1, <2>2
<1>5. RunTypeOK'
  BY <1>2, <1>3, <1>4 DEF RunInv, RunTypeOK, Procs, RunIds
<1>6. \A r : Behind(r)' <=> Behind(r)
  BY <1>2 DEF Behind
<1>7. RowsApart' /\ ReadRows'
  BY <1>2 DEF RunInv, RowsApart, ReadRows, Holds, Doing, Prunes
<1>8. OnlyOldArePruned'
  BY <1>2, <1>6 DEF RunInv, OnlyOldArePruned, Prunes
<1>. QED BY <1>5, <1>7, <1>8 DEF RunInv

LEMMA RunStepKeeps ==
  RunInv /\ RunStep => RunInv'
<1>. SUFFICES ASSUME RunInv, RunStep PROVE RunInv'
  OBVIOUS
<1>1. ASSUME NEW p \in Processes,
             GuardRead(p) \/ RunGoesOn(p) \/ DumpCorrupt(p) \/ DumpFails(p) \/ BackupCrash(p)
      PROVE  RunInv'
  BY <1>1, GuardReadKeeps, GuardStepKeeps, CreateRunKeeps, DumpDoneKeeps, GivenUpKeeps,
     RecordSuccessKeeps, DumpFailsKeeps, CleanReadKeeps, PruneFilesKeeps, PruneMarkKeeps
     DEF RunGoesOn
<1>2. CASE (\E r \in RunIds : RowAbandoned(r)) \/ RowAges
  BY <1>2, RunClocksKeep
<1>. QED BY <1>1, <1>2 DEF RunStep

LEMMA RunStutters ==
  RunInv /\ UNCHANGED runVars => RunInv'
<1>. SUFFICES ASSUME RunInv, UNCHANGED runVars PROVE RunInv'
  OBVIOUS
<1>1. UNCHANGED <<rows, status, stored, pruned, overdue, aged, proc, backupFaults, undone>>
  BY DEF runVars, rowVars, clockVars
<1>2. RunIds' = RunIds /\ Successes' = Successes
  BY <1>1 DEF RunIds, Successes
<1>3. \A r : Behind(r)' <=> Behind(r)
  BY <1>2 DEF Behind
<1>4. RunTypeOK'
  BY <1>1 DEF RunInv, RunTypeOK, Procs, RunIds
<1>5. RowsApart' /\ ReadRows'
  BY <1>1 DEF RunInv, RowsApart, ReadRows, Holds, Doing, Prunes
<1>6. OnlyOldArePruned'
  BY <1>1, <1>2, <1>3 DEF RunInv, OnlyOldArePruned, Prunes
<1>. QED BY <1>4, <1>5, <1>6 DEF RunInv

LEMMA RunInitHolds ==
  RunInit => RunInv
<1>. SUFFICES ASSUME RunInit PROVE RunInv
  OBVIOUS
<1>1. RunTypeOK
  <2>1. 0 \in 0..MaxRuns /\ 0 \in 0..MaxBackupFaults /\ \A r \in RunIds : r > 0
    BY BackupAssumption DEF RunIds
  <2>2. undone \in BOOLEAN
    BY DEF RunInit
  <2>. QED BY <2>1, <2>2 DEF RunInit, RunTypeOK
<1>2. \A p \in Processes : proc[p] = Nobody
  BY DEF RunInit
<1>3. Successes = {} /\ pruned = {}
  BY DEF RunInit, Successes
<1>. QED BY <1>1, <1>2, <1>3 DEF RunInv, RowsApart, ReadRows, OnlyOldArePruned, Holds, Prunes, Doing

\* What the invariant says of the backups there are.
LEMMA BackupsAreKept ==
  RunInv => BackupsKept
<1>. SUFFICES ASSUME RunInv PROVE BackupsKept
  OBVIOUS
<1>. DEFINE above(r) == {q \in Successes : q > r}
<1>0. \A r : Cardinality(above(r)) \in Nat
  BY RowsAreFinite DEF NewerAreFinite, RunInv
<1>1. NewestAreStored
  <2>. SUFFICES ASSUME ~undone, NEW r \in Newest(MinRetained) PROVE r \in stored
    BY DEF NewestAreStored
  <2>1. r \in Successes /\ Cardinality(above(r)) < MinRetained
    BY DEF Newest
  <2>2. ~Behind(r)
    <3>1. Cardinality(above(r)) \in Nat
      BY <1>0
    <3>. HIDE DEF above
    <3>2. ~(Cardinality(above(r)) >= MinRetained)
      BY <2>1, <3>1, BackupAssumption
    <3>. QED BY <3>2 DEF Behind, above
  <2>. QED BY <2>1, <2>2 DEF RunInv, OnlyOldArePruned
<1>2. HealthyIsRestorable
  <2>. SUFFICES ASSUME Healthy, ~undone
                PROVE  \E r \in stored : status[r] = "SUCCEEDED" /\ r = rows
    BY DEF HealthyIsRestorable
  <2>1. rows \in Nat /\ rows <= MaxRuns /\ 1..rows \subseteq RunIds /\ MaxRuns \in Nat
    BY BackupAssumption DEF RunInv, RunTypeOK, RunIds
  <2>2. PICK r \in 1..rows : status[r] = "SUCCEEDED" /\ \A q \in (r + 1)..rows : status[q] = "none"
    BY DEF Healthy
  <2>3. r = rows
    <3>1. CASE r # rows
      <4>1. rows \in (r + 1)..rows /\ rows \in RunIds /\ ~(rows > rows)
        BY <3>1, <2>1
      <4>. QED BY <4>1, <2>2 DEF RunInv, RunTypeOK
    <3>. QED BY <3>1
  <2>4. above(rows) = {}
    <3>1. \A q \in Successes : ~(q > rows)
      BY <2>1 DEF Successes
    <3>. QED BY <3>1
  <2>5. ~Behind(rows)
    <3>1. Cardinality(above(rows)) = 0
      BY <2>4, FS_EmptySet
    <3>. HIDE DEF above
    <3>2. ~(Cardinality(above(rows)) >= MinRetained)
      BY <3>1, BackupAssumption
    <3>. QED BY <3>2 DEF Behind, above
  <2>6. rows \in Successes
    BY <2>2, <2>3, <2>5 DEF Successes, RunInv, OnlyOldArePruned
  <2>7. rows \in stored
    BY <2>5, <2>6 DEF RunInv, OnlyOldArePruned
  <2>. QED BY <2>2, <2>3, <2>7
<1>. QED BY <1>1, <1>2 DEF BackupsKept

\* Whatever backups overlap, fail or die at any statement (runDatabaseBackup,
\* cleanupOldBackups): the newest successes have their files, and a database is called
\* healthy only if its last backup is there, for any number of processes, rows and faults.
THEOREM NewestBackupsStay == RunSpec => [](RunTypeOK /\ BackupsKept)
<1>1. RunInit => RunInv
  BY RunInitHolds
<1>2. RunInv /\ [RunStep]_runVars => RunInv'
  BY RunStepKeeps, RunStutters
<1>3. RunInv => RunTypeOK /\ BackupsKept
  BY BackupsAreKept DEF RunInv
<1>. QED BY <1>1, <1>2, <1>3, PTL DEF RunSpec

(***************************************************************************)
(* Contacts, leads and purges.                                             *)
(***************************************************************************)

LEMMA PurgeShape ==
  ASSUME NEW x \in Purges, NEW o \in {"guard", "create", "contacts", "contact", "member"},
         NEW T \in SUBSET (Purgeable \cup PurgeIds)
  PROVE  /\ [x EXCEPT !.do = o, !.todo = T] = [do |-> o, run |-> x.run, todo |-> T]
         /\ [do |-> o, run |-> x.run, todo |-> T] \in Purges
<1>. DEFINE y == [x EXCEPT !.do = o, !.todo = T]
<1>1. PICK o1 \in {"guard", "create", "contacts", "contact", "member"},
           i1 \in PurgeIds \cup {NotPurging}, t1 \in SUBSET (Purgeable \cup PurgeIds) :
        x = [do |-> o1, run |-> i1, todo |-> t1]
  BY DEF Purges
<1>2. y = [i \in DOMAIN y |-> y[i]] /\ DOMAIN y = {"do", "run", "todo"}
  BY <1>1
<1>3. y.do = o /\ y.run = i1 /\ y.todo = T
  BY <1>1
<1>4. x.run = i1
  BY <1>1
<1>5. [do |-> o, run |-> x.run, todo |-> T] \in Purges
  BY <1>4 DEF Purges
<1>6. y = [do |-> o, run |-> x.run, todo |-> T]
  <2>. HIDE DEF y
  <2>. QED BY <1>2, <1>3, <1>4
<1>. QED BY <1>5, <1>6

\* A step that changes what a purge is doing, and no row.
LEMMA PurgerKeeps ==
  ASSUME PurgeInv, NEW p \in Purgers, NEW d \in Purges \cup {NotPurging},
         purger' = [purger EXCEPT ![p] = d],
         UNCHANGED <<crmVars, member, expired, audits, wronged, rejoined>>,
         running' \subseteq PurgeIds, late' \subseteq running', purgeFaults' \in 0..MaxPurgeFaults,
         d # NotPurging /\ d.do = "guard" => d.todo \subseteq PurgeIds,
         d # NotPurging /\ d.do = "contact" => d.todo \subseteq Contacts /\ \A k \in d.todo :
           LeadsOf(k) = {} /\ (k \in expired \/ contact[k] = "gone"),
         d # NotPurging /\ d.do = "member" => d.todo \subseteq Members /\ \A m \in d.todo :
           m \in expired \/ member[m] = "gone" \/ m \in rejoined
  PROVE  PurgeInv'
<1>1. /\ UNCHANGED <<contact, leadOf, leadStatus, req, overtaken, member, expired, audits, wronged, rejoined>>
      /\ Purgeable' = Purgeable /\ Purges' = Purges
  BY DEF crmVars, Purgeable, Purges
<1>2. \A q \in Purgers : purger'[q] = IF q = p THEN d ELSE purger[q]
  BY DEF PurgeInv, PurgersAreTyped
<1>3. \A r : State(r)' = State(r)
  BY <1>1 DEF State
<1>4. \A k : LeadsOf(k)' = LeadsOf(k)
  BY <1>1 DEF LeadsOf
<1>5. PurgersAreTyped'
  <2>1. purger' \in [Purgers -> Purges \cup {NotPurging}]
    BY DEF PurgeInv, PurgersAreTyped
  <2>. QED BY <1>1, <1>2, <2>1 DEF PurgeInv, PurgersAreTyped, Does
<1>6. PurgeTypeOK'
  <2>1. \A q \in Purgers : purger'[q] = NotPurging \/
          /\ purger'[q].do \in {"guard", "create", "contacts", "contact", "member"}
          /\ purger'[q].todo \subseteq Purgeable \cup PurgeIds
          /\ purger'[q].run \in PurgeIds \cup {NotPurging}
    BY <1>1, <1>5 DEF PurgersAreTyped, Purges
  <2>2. CrmTypeOK'
    BY <1>1 DEF PurgeInv, PurgeTypeOK, CrmTypeOK, Writes
  <2>. QED BY <1>1, <1>3, <2>1, <2>2 DEF PurgeInv, PurgeTypeOK
<1>7. UpdatesAreLegal' /\ ExpiredIsAlone'
  BY <1>1, <1>4 DEF PurgeInv, UpdatesAreLegal, ExpiredIsAlone
<1>8. SelectedStaysDue'
  BY <1>1, <1>2, <1>4 DEF PurgeInv, SelectedStaysDue, Does
<1>9. PurgedAuditedOnce' /\ OnlyExpiredPurged'
  BY <1>1, <1>3 DEF PurgeInv, PurgedAuditedOnce, OnlyExpiredPurged
<1>. QED BY <1>5, <1>6, <1>7, <1>8, <1>9 DEF PurgeInv

LEMMA PurgeGuardKeeps ==
  ASSUME PurgeInv, NEW p \in Purgers, PurgeGuard(p)
  PROVE  PurgeInv'
<1>. DEFINE d == [do |-> "guard", run |-> NotPurging, todo |-> running]
<1>1. d \in Purges /\ d.do = "guard" /\ d.todo \subseteq PurgeIds
  BY DEF Purges, PurgeInv, PurgeTypeOK
<1>2. /\ purger' = [purger EXCEPT ![p] = d] /\ UNCHANGED <<running, late, purgeFaults>>
      /\ UNCHANGED <<crmVars, member, expired, audits, wronged, rejoined>>
  BY DEF PurgeGuard, ThenDo
<1>3. running' \subseteq PurgeIds /\ late' \subseteq running' /\ purgeFaults' \in 0..MaxPurgeFaults
  BY <1>2 DEF PurgeInv, PurgeTypeOK
<1>. HIDE DEF d
<1>. QED BY <1>1, <1>2, <1>3, PurgerKeeps

LEMMA ReapKeeps ==
  ASSUME PurgeInv, NEW p \in Purgers, Reap(p)
  PROVE  PurgeInv'
<1>1. /\ purger[p] \in Purges
      /\ UNCHANGED <<crmVars, member, expired, audits, wronged, rejoined, purgeFaults>>
      /\ running' \subseteq PurgeIds /\ late' \subseteq running' /\ purgeFaults' \in 0..MaxPurgeFaults
      /\ OnTo(p, "create", {}) \/ ThenDo(p, NotPurging)
  BY DEF Reap, Does, PurgeInv, PurgeTypeOK, PurgersAreTyped
<1>2. CASE ThenDo(p, NotPurging)
  <2>1. purger' = [purger EXCEPT ![p] = NotPurging]
    BY <1>2 DEF ThenDo
  <2>. QED BY <1>1, <2>1, PurgerKeeps
<1>3. CASE OnTo(p, "create", {})
  <2>. DEFINE d == [do |-> "create", run |-> purger[p].run, todo |-> {}]
  <2>1. [purger[p] EXCEPT !.do = "create", !.todo = {}] = d /\ d \in Purges
    BY <1>1, PurgeShape
  <2>2. purger' = [purger EXCEPT ![p] = d] /\ d.do = "create"
    BY <1>3, <2>1 DEF OnTo, ThenDo
  <2>. HIDE DEF d
  <2>. QED BY <1>1, <2>1, <2>2, PurgerKeeps
<1>. QED BY <1>1, <1>2, <1>3

LEMMA StartPurgeKeeps ==
  ASSUME PurgeInv, NEW p \in Purgers, StartPurge(p)
  PROVE  PurgeInv'
<1>1. PICK i \in Free : /\ running' = running \cup {i}
                        /\ ThenDo(p, [do |-> "contacts", run |-> i, todo |-> {}])
  BY DEF StartPurge
<1>. DEFINE d == [do |-> "contacts", run |-> i, todo |-> {}]
<1>2. i \in PurgeIds
  BY DEF Free
<1>3. d \in Purges /\ d.do = "contacts"
  BY <1>2 DEF Purges
<1>4. /\ purger' = [purger EXCEPT ![p] = d] /\ UNCHANGED <<late, purgeFaults>>
      /\ UNCHANGED <<crmVars, member, expired, audits, wronged, rejoined>>
  BY <1>1 DEF StartPurge, ThenDo
<1>5. running' \subseteq PurgeIds /\ late' \subseteq running' /\ purgeFaults' \in 0..MaxPurgeFaults
  BY <1>1, <1>2, <1>4 DEF PurgeInv, PurgeTypeOK
<1>. HIDE DEF d
<1>. QED BY <1>3, <1>4, <1>5, PurgerKeeps

LEMMA SelectKeeps ==
  ASSUME PurgeInv, NEW p \in Purgers, SelectContacts(p) \/ SelectMembers(p)
  PROVE  PurgeInv'
<1>1. /\ purger[p] \in Purges /\ UNCHANGED <<running, late, purgeFaults>>
      /\ UNCHANGED <<crmVars, member, expired, audits, wronged, rejoined>>
      /\ OnTo(p, "contact", DueContacts) \/ OnTo(p, "member", DueMembers)
  BY DEF SelectContacts, SelectMembers, Does, PurgeInv, PurgersAreTyped
<1>2. running' \subseteq PurgeIds /\ late' \subseteq running' /\ purgeFaults' \in 0..MaxPurgeFaults
  BY <1>1 DEF PurgeInv, PurgeTypeOK
<1>3. CASE OnTo(p, "contact", DueContacts)
  <2>. DEFINE d == [do |-> "contact", run |-> purger[p].run, todo |-> DueContacts]
  <2>1. DueContacts \in SUBSET (Purgeable \cup PurgeIds)
        /\ DueContacts \subseteq Contacts /\ DueContacts \subseteq expired
        /\ \A k \in DueContacts : LeadsOf(k) = {}
    BY DEF DueContacts, Purgeable
  <2>2. [purger[p] EXCEPT !.do = "contact", !.todo = DueContacts] = d /\ d \in Purges
    BY <1>1, <2>1, PurgeShape
  <2>3. purger' = [purger EXCEPT ![p] = d] /\ d.do = "contact" /\ d.todo = DueContacts
    BY <1>3, <2>2 DEF OnTo, ThenDo
  <2>. HIDE DEF d
  <2>. QED BY <1>1, <1>2, <2>1, <2>2, <2>3, PurgerKeeps
<1>4. CASE OnTo(p, "member", DueMembers)
  <2>. DEFINE d == [do |-> "member", run |-> purger[p].run, todo |-> DueMembers]
  <2>1. DueMembers \in SUBSET (Purgeable \cup PurgeIds)
        /\ DueMembers \subseteq Members /\ DueMembers \subseteq expired
    BY DEF DueMembers, Purgeable
  <2>2. [purger[p] EXCEPT !.do = "member", !.todo = DueMembers] = d /\ d \in Purges
    BY <1>1, <2>1, PurgeShape
  <2>3. purger' = [purger EXCEPT ![p] = d] /\ d.do = "member" /\ d.todo = DueMembers
    BY <1>4, <2>2 DEF OnTo, ThenDo
  <2>. HIDE DEF d
  <2>. QED BY <1>1, <1>2, <2>1, <2>2, <2>3, PurgerKeeps
<1>. QED BY <1>1, <1>3, <1>4

LEMMA PurgeEndsKeeps ==
  ASSUME PurgeInv, NEW p \in Purgers, PurgeDone(p) \/ PurgeStops(p)
  PROVE  PurgeInv'
<1>1. /\ purger' = [purger EXCEPT ![p] = NotPurging]
      /\ UNCHANGED <<crmVars, member, expired, audits, wronged, rejoined>>
      /\ \E gone : running' = running \ gone /\ late' = late \ gone
      /\ purgeFaults' = purgeFaults \/ (purgeFaults < MaxPurgeFaults /\ purgeFaults' = purgeFaults + 1)
  BY DEF PurgeDone, PurgeStops, ThenDo
<1>2. running' \subseteq PurgeIds /\ late' \subseteq running'
  BY <1>1 DEF PurgeInv, PurgeTypeOK
<1>3. purgeFaults' \in 0..MaxPurgeFaults
  BY <1>1, PurgeAssumption DEF PurgeInv, PurgeTypeOK
<1>. QED BY <1>1, <1>2, <1>3, PurgerKeeps

\* A step of the clocks alone, or none at all.
LEMMA PurgeClocksKeep ==
  ASSUME PurgeInv, UNCHANGED <<crmVars, member, expired, audits, running, purger, purgeFaults, wronged, rejoined>>,
         late' \subseteq running
  PROVE  PurgeInv'
<1>1. /\ UNCHANGED <<contact, leadOf, leadStatus, req, overtaken, member, expired, audits, running,
                     purger, purgeFaults, wronged, rejoined>>
      /\ Purgeable' = Purgeable /\ Purges' = Purges
  BY DEF crmVars, Purgeable, Purges
<1>2. \A r : State(r)' = State(r) /\ LeadsOf(r)' = LeadsOf(r)
  BY <1>1 DEF State, LeadsOf
<1>3. CrmTypeOK'
  BY <1>1 DEF PurgeInv, PurgeTypeOK, CrmTypeOK, Writes
<1>4. PurgeTypeOK'
  BY <1>1, <1>2, <1>3 DEF PurgeInv, PurgeTypeOK
<1>5. PurgersAreTyped' /\ SelectedStaysDue'
  BY <1>1, <1>2 DEF PurgeInv, PurgersAreTyped, SelectedStaysDue, Does
<1>6. UpdatesAreLegal' /\ ExpiredIsAlone'
  BY <1>1, <1>2 DEF PurgeInv, UpdatesAreLegal, ExpiredIsAlone
<1>7. PurgedAuditedOnce' /\ OnlyExpiredPurged'
  BY <1>1, <1>2 DEF PurgeInv, PurgedAuditedOnce, OnlyExpiredPurged
<1>. QED BY <1>4, <1>5, <1>6, <1>7 DEF PurgeInv

\* A request that changes a contact which is not due, or a lead of such a contact.
LEMMA RequestKeeps ==
  ASSUME PurgeInv, UNCHANGED retentionVars, CrmTypeOK', UpdatesAreLegal',
         \A k \in Contacts : contact'[k] = "gone" <=> contact[k] = "gone",
         \A k \in Contacts \cap expired : contact'[k] = "deleted",
         \A k \in Contacts : k \in expired \/ contact[k] = "gone" => LeadsOf(k)' \subseteq LeadsOf(k),
         \A k \in Contacts \cap expired : \A q \in Requests :
           req'[q] # req[q] /\ req'[q] # NoRequest /\ req'[q].op \in {"delete", "lead"} => req'[q].on # k
  PROVE  PurgeInv'
<1>1. /\ UNCHANGED <<member, expired, audits, running, late, purger, purgeFaults, wronged, rejoined>>
      /\ Purgeable' = Purgeable /\ Purges' = Purges
  BY DEF retentionVars, Purgeable, Purges
<1>2. /\ \A r \in Purgeable : State(r)' = "gone" <=> State(r) = "gone"
      /\ \A r \in expired : State(r)' = "deleted"
  BY <1>1 DEF State, Purgeable, PurgeInv, PurgeTypeOK
<1>3. PurgeTypeOK'
  BY <1>1, <1>2 DEF PurgeInv, PurgeTypeOK
<1>4. PurgersAreTyped'
  BY <1>1 DEF PurgeInv, PurgersAreTyped, Does
<1>5. ExpiredIsAlone'
  <2>1. ASSUME NEW k \in Contacts \cap expired, NEW q \in Requests,
               req'[q] # NoRequest, req'[q].op \in {"delete", "lead"}, req'[q].on = k
        PROVE  FALSE
    BY <2>1 DEF PurgeInv, ExpiredIsAlone
  <2>2. \A k \in Contacts : contact'[k] = "gone" => LeadsOf(k)' = {}
    BY DEF PurgeInv, ExpiredIsAlone
  <2>. QED BY <1>1, <2>1, <2>2 DEF ExpiredIsAlone
<1>6. SelectedStaysDue'
  <2>1. ASSUME NEW p \in Purgers, Does(p, "contact")', NEW k \in purger'[p].todo
        PROVE  LeadsOf(k)' = {} /\ (k \in expired' \/ contact'[k] = "gone")
    <3>1. Does(p, "contact") /\ k \in purger[p].todo
      BY <2>1, <1>1 DEF Does
    <3>2. k \in Contacts /\ LeadsOf(k) = {} /\ (k \in expired \/ contact[k] = "gone")
      BY <3>1 DEF PurgeInv, PurgersAreTyped, SelectedStaysDue
    <3>. QED BY <3>2, <1>1
  <2>2. \A p \in Purgers : Does(p, "member")' => \A m \in purger'[p].todo :
          m \in expired' \/ member'[m] = "gone" \/ m \in rejoined'
    BY <1>1 DEF PurgeInv, SelectedStaysDue, Does
  <2>. QED BY <2>1, <2>2 DEF SelectedStaysDue
<1>7. PurgedAuditedOnce' /\ OnlyExpiredPurged'
  BY <1>1, <1>2 DEF PurgeInv, PurgedAuditedOnce, OnlyExpiredPurged
<1>. QED BY <1>3, <1>4, <1>5, <1>6, <1>7 DEF PurgeInv

LEMMA CreateContactKeeps ==
  ASSUME PurgeInv, UNCHANGED retentionVars, NEW k \in Contacts, CreateContact(k)
  PROVE  PurgeInv'
<1>1. /\ contact[k] = "none" /\ contact' = [contact EXCEPT ![k] = "live"]
      /\ UNCHANGED <<leadOf, leadStatus, req, overtaken>>
  BY DEF CreateContact
<1>2. /\ contact \in [Contacts -> {"none", "live", "deleted", "gone"}]
      /\ \A x \in Contacts \cap expired : contact[x] = "deleted"
  BY DEF PurgeInv, PurgeTypeOK, CrmTypeOK, State
<1>3. CrmTypeOK'
  BY <1>1 DEF PurgeInv, PurgeTypeOK, CrmTypeOK, Writes
<1>4. UpdatesAreLegal'
  BY <1>1 DEF PurgeInv, UpdatesAreLegal
<1>5. \A x \in Contacts : contact'[x] = IF x = k THEN "live" ELSE contact[x]
  BY <1>1, <1>2
<1>6. \A x : LeadsOf(x)' = LeadsOf(x)
  BY <1>1 DEF LeadsOf
<1>. QED BY <1>1, <1>2, <1>3, <1>4, <1>5, <1>6, RequestKeeps

LEMMA FindContactKeeps ==
  ASSUME PurgeInv, UNCHANGED retentionVars, NEW q \in Requests, NEW k \in Contacts,
         NEW op \in {"delete", "lead"}, FindContact(q, k, op)
  PROVE  PurgeInv'
<1>. DEFINE d == [op |-> op, on |-> k]
<1>1. /\ contact[k] = "live" /\ req' = [req EXCEPT ![q] = d]
      /\ UNCHANGED <<contact, leadOf, leadStatus, overtaken>>
  BY DEF FindContact
<1>2. /\ \A x \in Contacts \cap expired : contact[x] = "deleted"
      /\ req \in [Requests -> Writes \cup {NoRequest}]
  BY DEF PurgeInv, PurgeTypeOK, CrmTypeOK, State
<1>3. d \in Writes /\ d.op = op /\ d.on = k
  BY DEF Writes
<1>. HIDE DEF d
<1>4. \A r \in Requests : req'[r] = IF r = q THEN d ELSE req[r]
  BY <1>1, <1>2
<1>5. CrmTypeOK'
  <2>1. req' \in [Requests -> Writes \cup {NoRequest}]
    BY <1>1, <1>2, <1>3
  <2>. QED BY <1>1, <2>1 DEF PurgeInv, PurgeTypeOK, CrmTypeOK, Writes
<1>6. UpdatesAreLegal'
  BY <1>1, <1>3, <1>4 DEF PurgeInv, UpdatesAreLegal
<1>7. \A x : LeadsOf(x)' = LeadsOf(x)
  BY <1>1 DEF LeadsOf
<1>8. k \notin expired
  BY <1>1, <1>2
<1>. QED BY <1>1, <1>2, <1>3, <1>4, <1>5, <1>6, <1>7, <1>8, RequestKeeps

\* What a request under way is about to write.
LEMMA WritesAreTyped ==
  ASSUME PurgeInv, NEW q \in Requests, req[q] # NoRequest
  PROVE  /\ req[q].op \in {"delete", "lead"} => req[q].on \in Contacts
         /\ req[q].op = "update" => req[q].on \in Leads /\ req[q].to \in LeadStatuses /\ req[q].was \in LeadStatuses
<1>1. req[q] \in Writes
  BY DEF PurgeInv, PurgeTypeOK, CrmTypeOK
<1>2. CASE req[q] \in [op : {"delete", "lead"}, on : Contacts]
  BY <1>2
<1>3. CASE req[q] \in [op : {"update"}, on : Leads, was : LeadStatuses, to : LeadStatuses]
  BY <1>3
<1>. QED BY <1>1, <1>2, <1>3 DEF Writes

LEMMA DeleteContactKeeps ==
  ASSUME PurgeInv, UNCHANGED retentionVars, NEW q \in Requests, DeleteContact(q)
  PROVE  PurgeInv'
<1>. DEFINE k == req[q].on
<1>1. /\ req[q] # NoRequest /\ k \in Contacts
      /\ contact' = IF contact[k] = "gone" THEN contact ELSE [contact EXCEPT ![k] = "deleted"]
      /\ req' = [req EXCEPT ![q] = NoRequest] /\ UNCHANGED <<leadOf, leadStatus, overtaken>>
  BY WritesAreTyped DEF DeleteContact
<1>. HIDE DEF k
<1>2. /\ contact \in [Contacts -> {"none", "live", "deleted", "gone"}]
      /\ \A x \in Contacts \cap expired : contact[x] = "deleted"
      /\ req \in [Requests -> Writes \cup {NoRequest}]
  BY DEF PurgeInv, PurgeTypeOK, CrmTypeOK, State
<1>3. \A x \in Contacts : contact'[x] = IF x = k /\ contact[x] # "gone" THEN "deleted" ELSE contact[x]
  BY <1>1, <1>2
<1>4. \A r \in Requests : req'[r] = IF r = q THEN NoRequest ELSE req[r]
  BY <1>1, <1>2
<1>5. CrmTypeOK'
  <2>1. contact' \in [Contacts -> {"none", "live", "deleted", "gone"}]
    BY <1>1, <1>2
  <2>2. req' \in [Requests -> Writes \cup {NoRequest}]
    BY <1>1, <1>2
  <2>. QED BY <1>1, <2>1, <2>2 DEF PurgeInv, PurgeTypeOK, CrmTypeOK, Writes
<1>6. UpdatesAreLegal'
  BY <1>1, <1>4 DEF PurgeInv, UpdatesAreLegal
<1>7. \A x : LeadsOf(x)' = LeadsOf(x)
  BY <1>1 DEF LeadsOf
<1>. QED BY <1>1, <1>2, <1>3, <1>4, <1>5, <1>6, <1>7, RequestKeeps

LEMMA CreateLeadKeeps ==
  ASSUME PurgeInv, UNCHANGED retentionVars, NEW q \in Requests, NEW l \in Leads,
         NEW s \in LeadStatuses, CreateLead(q, l, s)
  PROVE  PurgeInv'
<1>. DEFINE k == req[q].on
<1>1. /\ req[q] # NoRequest /\ req[q].op = "lead" /\ k \in Contacts /\ leadOf[l] = NoContact
      /\ IF contact[k] = "gone" THEN UNCHANGED <<leadOf, leadStatus>>
         ELSE /\ leadOf' = [leadOf EXCEPT ![l] = k]
              /\ leadStatus' = [leadStatus EXCEPT ![l] = s]
      /\ req' = [req EXCEPT ![q] = NoRequest] /\ UNCHANGED <<contact, overtaken>>
  BY WritesAreTyped DEF CreateLead
<1>2. k \notin expired
  BY <1>1 DEF PurgeInv, ExpiredIsAlone
<1>. HIDE DEF k
<1>3. /\ leadOf \in [Leads -> Contacts \cup {NoContact}] /\ leadStatus \in [Leads -> LeadStatuses]
      /\ req \in [Requests -> Writes \cup {NoRequest}]
      /\ \A x \in Contacts \cap expired : contact[x] = "deleted"
  BY DEF PurgeInv, PurgeTypeOK, CrmTypeOK, State
<1>4. /\ \A r \in Requests : req'[r] = IF r = q THEN NoRequest ELSE req[r]
      /\ \A x \in Leads : leadOf'[x] = IF x = l /\ contact[k] # "gone" THEN k ELSE leadOf[x]
      /\ \A x \in Leads : leadStatus'[x] = IF x = l /\ contact[k] # "gone" THEN s ELSE leadStatus[x]
  BY <1>1, <1>3
<1>5. CrmTypeOK'
  <2>1. leadOf' \in [Leads -> Contacts \cup {NoContact}]
    BY <1>1, <1>3
  <2>2. leadStatus' \in [Leads -> LeadStatuses]
    BY <1>1, <1>3
  <2>3. req' \in [Requests -> Writes \cup {NoRequest}]
    BY <1>1, <1>3
  <2>. QED BY <1>1, <2>1, <2>2, <2>3 DEF PurgeInv, PurgeTypeOK, CrmTypeOK, Writes
<1>6. UpdatesAreLegal'
  <2>1. k # NoContact
    BY <1>1, CrmAssumption
  <2>2. ASSUME NEW r \in Requests, req'[r] # NoRequest, req'[r].op = "update"
        PROVE  leadOf'[req'[r].on] # NoContact /\ req'[r].to \in NextLeadStatuses(req'[r].was)
    <3>1. req'[r] = req[r] /\ req[r].on \in Leads
      BY <2>2, <1>4, WritesAreTyped
    <3>. QED BY <3>1, <2>1, <2>2, <1>4 DEF PurgeInv, UpdatesAreLegal
  <2>3. \A x \in Leads : leadOf'[x] = NoContact => leadStatus'[x] = "NEW"
    BY <2>1, <1>4 DEF PurgeInv, UpdatesAreLegal
  <2>. QED BY <2>2, <2>3 DEF UpdatesAreLegal
<1>7. \A x \in Contacts : x \in expired \/ contact[x] = "gone" => LeadsOf(x)' \subseteq LeadsOf(x)
  BY <1>2, <1>4 DEF LeadsOf
<1>. QED BY <1>1, <1>3, <1>4, <1>5, <1>6, <1>7, RequestKeeps

LEMMA ReadLeadKeeps ==
  ASSUME PurgeInv, UNCHANGED retentionVars, NEW q \in Requests, NEW l \in Leads,
         NEW s \in LeadStatuses, ReadLead(q, l, s)
  PROVE  PurgeInv'
<1>. DEFINE d == [op |-> "update", on |-> l, was |-> leadStatus[l], to |-> s]
<1>1. /\ leadOf[l] # NoContact /\ s \in NextLeadStatuses(leadStatus[l]) /\ req' = [req EXCEPT ![q] = d]
      /\ UNCHANGED <<contact, leadOf, leadStatus, overtaken>>
  BY DEF ReadLead
<1>2. /\ \A x \in Contacts \cap expired : contact[x] = "deleted"
      /\ leadStatus[l] \in LeadStatuses /\ req \in [Requests -> Writes \cup {NoRequest}]
  BY DEF PurgeInv, PurgeTypeOK, CrmTypeOK, State
<1>3. d \in Writes /\ d.op = "update" /\ d.on = l /\ d.was = leadStatus[l] /\ d.to = s
  BY <1>2 DEF Writes
<1>. HIDE DEF d
<1>4. \A r \in Requests : req'[r] = IF r = q THEN d ELSE req[r]
  BY <1>1, <1>2
<1>5. CrmTypeOK'
  <2>1. req' \in [Requests -> Writes \cup {NoRequest}]
    BY <1>1, <1>2, <1>3
  <2>. QED BY <1>1, <2>1 DEF PurgeInv, PurgeTypeOK, CrmTypeOK, Writes
<1>6. UpdatesAreLegal'
  BY <1>1, <1>3, <1>4 DEF PurgeInv, UpdatesAreLegal
<1>7. \A x : LeadsOf(x)' = LeadsOf(x)
  BY <1>1 DEF LeadsOf
<1>. QED BY <1>1, <1>2, <1>3, <1>4, <1>5, <1>6, <1>7, RequestKeeps

LEMMA UpdateLeadKeeps ==
  ASSUME PurgeInv, UNCHANGED retentionVars, NEW q \in Requests, UpdateLead(q)
  PROVE  PurgeInv'
<1>. DEFINE l == req[q].on
            s == req[q].to
<1>1. /\ l \in Leads /\ s \in LeadStatuses /\ leadOf[l] # NoContact
      /\ leadStatus' = [leadStatus EXCEPT ![l] = s]
      /\ overtaken' \subseteq overtaken \cup {l}
      /\ req' = [req EXCEPT ![q] = NoRequest] /\ UNCHANGED <<contact, leadOf>>
  BY WritesAreTyped DEF UpdateLead, PurgeInv, UpdatesAreLegal
<1>. HIDE DEF l, s
<1>2. /\ \A x \in Contacts \cap expired : contact[x] = "deleted"
      /\ leadStatus \in [Leads -> LeadStatuses] /\ req \in [Requests -> Writes \cup {NoRequest}]
  BY DEF PurgeInv, PurgeTypeOK, CrmTypeOK, State
<1>3. /\ \A r \in Requests : req'[r] = IF r = q THEN NoRequest ELSE req[r]
      /\ \A x \in Leads : leadStatus'[x] = IF x = l THEN s ELSE leadStatus[x]
  BY <1>1, <1>2
<1>4. CrmTypeOK'
  <2>1. req' \in [Requests -> Writes \cup {NoRequest}] /\ leadStatus' \in [Leads -> LeadStatuses]
    BY <1>1, <1>2
  <2>2. overtaken' \subseteq Leads
    BY <1>1 DEF PurgeInv, PurgeTypeOK, CrmTypeOK
  <2>. QED BY <1>1, <2>1, <2>2 DEF PurgeInv, PurgeTypeOK, CrmTypeOK, Writes
<1>5. UpdatesAreLegal'
  BY <1>1, <1>3 DEF PurgeInv, UpdatesAreLegal
<1>6. \A x : LeadsOf(x)' = LeadsOf(x)
  BY <1>1 DEF LeadsOf
<1>. QED BY <1>1, <1>2, <1>3, <1>4, <1>5, <1>6, RequestKeeps

\* A row of this kind is purged: what a purge has selected, and with it no lead.
LEMMA SelectedRow ==
  ASSUME PurgeInv, NEW p \in Purgers, Does(p, "contact") \/ Does(p, "member"), NEW r \in purger[p].todo
  PROVE  /\ r \in Purgeable /\ \A l \in Leads : leadOf[l] = r => r = NoContact
         /\ r \in expired \/ State(r) = "gone" \/ r \in rejoined
<1>1. CASE Does(p, "contact")
  <2>1. r \in Contacts /\ LeadsOf(r) = {} /\ (r \in expired \/ contact[r] = "gone")
    BY <1>1 DEF PurgeInv, PurgersAreTyped, SelectedStaysDue
  <2>. QED BY <2>1 DEF State, Purgeable, LeadsOf
<1>2. CASE Does(p, "member")
  <2>1. r \in Members /\ (r \in expired \/ member[r] = "gone" \/ r \in rejoined)
    BY <1>2 DEF PurgeInv, PurgersAreTyped, SelectedStaysDue
  <2>2. r \notin Contacts
    BY <2>1, PurgeAssumption
  <2>3. \A l \in Leads : leadOf[l] \in Contacts \cup {NoContact}
    BY DEF PurgeInv, PurgeTypeOK, CrmTypeOK
  <2>. QED BY <2>1, <2>2, <2>3 DEF State, Purgeable
<1>. QED BY <1>1, <1>2

LEMMA PurgeRowKeeps ==
  ASSUME PurgeInv, NEW p \in Purgers, PurgeRow(p)
  PROVE  PurgeInv' /\ leadOf' = leadOf
<1>1. PICK r \in purger[p].todo :
       /\ contact' = IF r \in Contacts THEN [contact EXCEPT ![r] = "gone"] ELSE contact
       /\ member' = IF r \in Members THEN [member EXCEPT ![r] = "gone"] ELSE member
       /\ leadOf' = [l \in Leads |-> IF leadOf[l] = r THEN NoContact ELSE leadOf[l]]
       /\ audits' = [audits EXCEPT ![r] = @ + Audited(r)]
       /\ wronged' = IF r \in expired \/ State(r) = "gone" THEN wronged ELSE wronged \cup {r}
       /\ expired' = expired \ {r}
       /\ OnTo(p, purger[p].do, purger[p].todo \ {r})
  BY DEF PurgeRow
<1>2. /\ UNCHANGED <<leadStatus, req, overtaken, running, late, purgeFaults, rejoined>>
      /\ Purgeable' = Purgeable /\ Purges' = Purges
      /\ Does(p, "contact") \/ Does(p, "member")
  BY DEF PurgeRow, otherRows, Purgeable, Purges
<1>3. /\ r \in Purgeable /\ \A l \in Leads : leadOf[l] = r => r = NoContact
      /\ r \in expired \/ State(r) = "gone" \/ r \in rejoined
  BY <1>2, SelectedRow
<1>4. /\ contact \in [Contacts -> {"none", "live", "deleted", "gone"}]
      /\ member \in [Members -> {"none", "live", "deleted", "gone"}]
      /\ leadOf \in [Leads -> Contacts \cup {NoContact}] /\ audits \in [Purgeable -> 0..1]
      /\ purger \in [Purgers -> Purges \cup {NotPurging}]
      /\ \A x \in expired : State(x) = "deleted"
  BY DEF PurgeInv, PurgeTypeOK, CrmTypeOK, PurgersAreTyped
<1>5. leadOf' = leadOf
  BY <1>1, <1>3, <1>4
<1>6. \A x : LeadsOf(x)' = LeadsOf(x)
  BY <1>5 DEF LeadsOf
<1>7. /\ \A x \in Contacts : contact'[x] = IF x = r THEN "gone" ELSE contact[x]
      /\ \A x \in Members : member'[x] = IF x = r THEN "gone" ELSE member[x]
      /\ contact' \in [Contacts -> {"none", "live", "deleted", "gone"}]
      /\ member' \in [Members -> {"none", "live", "deleted", "gone"}]
  BY <1>1, <1>4
<1>8. \A x \in Purgeable : State(x)' = IF x = r THEN "gone" ELSE State(x)
  BY <1>7 DEF State, Purgeable
<1>. DEFINE d == [do |-> purger[p].do, run |-> purger[p].run, todo |-> purger[p].todo \ {r}]
<1>9. d \in Purges /\ purger' = [purger EXCEPT ![p] = d]
  <2>1. purger[p] \in Purges
    BY <1>2, <1>4 DEF Does
  <2>2. /\ purger[p].do \in {"guard", "create", "contacts", "contact", "member"}
        /\ purger[p].todo \ {r} \in SUBSET (Purgeable \cup PurgeIds)
    BY <2>1 DEF Purges
  <2>. DEFINE y == [purger[p] EXCEPT !.do = purger[p].do, !.todo = purger[p].todo \ {r}]
  <2>3. d \in Purges
    BY <2>1, <2>2 DEF Purges
  <2>4. y = [i \in DOMAIN y |-> y[i]] /\ DOMAIN y = {"do", "run", "todo"}
    BY <2>1 DEF Purges
  <2>5. y.do = purger[p].do /\ y.run = purger[p].run /\ y.todo = purger[p].todo \ {r}
    BY <2>1 DEF Purges
  <2>6. y = d
    <3>. HIDE DEF y
    <3>. QED BY <2>4, <2>5
  <2>. QED BY <1>1, <2>3, <2>6 DEF OnTo, ThenDo
<1>10. d.do = purger[p].do /\ d.todo = purger[p].todo \ {r}
  OBVIOUS
<1>. HIDE DEF d
<1>11. \A q \in Purgers : purger'[q] = IF q = p THEN d ELSE purger[q]
  BY <1>4, <1>9
<1>12. \A q \in Purgers, o \in {"contact", "member", "guard"} :
         Does(q, o)' => Does(q, o) /\ purger'[q].todo \subseteq purger[q].todo
  BY <1>2, <1>10, <1>11 DEF Does
<1>13. audits' \in [Purgeable -> 0..1] /\ PurgedAuditedOnce'
  <2>1. \A x \in Purgeable : audits[x] = IF State(x) = "gone" THEN 1 ELSE 0
    BY DEF PurgeInv, PurgedAuditedOnce
  <2>2. audits' = [audits EXCEPT ![r] = audits[r] + Audited(r)]
    BY <1>1
  <2>3. audits[r] + Audited(r) = 1
    BY <2>1, <1>3 DEF Audited
  <2>4. \A x \in Purgeable : audits'[x] = IF x = r THEN 1 ELSE audits[x]
    BY <2>2, <2>3, <1>4
  <2>5. audits' \in [Purgeable -> 0..1]
    <3>1. audits' = [audits EXCEPT ![r] = 1]
      BY <2>2, <2>3
    <3>2. 1 \in 0..1
      OBVIOUS
    <3>. QED BY <3>1, <3>2, <1>4
  <2>. QED BY <2>1, <2>4, <2>5, <1>2, <1>8 DEF PurgedAuditedOnce
<1>14. PurgersAreTyped'
  <2>1. purger' \in [Purgers -> Purges \cup {NotPurging}]
    BY <1>4, <1>9
  <2>2. expired' \subseteq Purgeable
    BY <1>1 DEF PurgeInv, PurgersAreTyped
  <2>. QED BY <2>1, <2>2, <1>2, <1>12 DEF PurgeInv, PurgersAreTyped
<1>15. PurgeTypeOK'
  <2>1. CrmTypeOK'
    BY <1>2, <1>4, <1>5, <1>7 DEF PurgeInv, PurgeTypeOK, CrmTypeOK, Writes
  <2>2. \A x \in expired' : State(x)' = "deleted"
    <3>1. \A x \in expired' : x \in expired /\ x # r
      BY <1>1
    <3>2. \A x \in expired : x # r => State(x)' = State(x)
      BY <1>8 DEF PurgeInv, PurgersAreTyped
    <3>. QED BY <3>1, <3>2, <1>4
  <2>3. \A q \in Purgers : purger'[q] = NotPurging \/
          /\ purger'[q].do \in {"guard", "create", "contacts", "contact", "member"}
          /\ purger'[q].todo \subseteq Purgeable \cup PurgeIds
          /\ purger'[q].run \in PurgeIds \cup {NotPurging}
    BY <1>2, <1>14 DEF PurgersAreTyped, Purges
  <2>. QED BY <1>2, <1>7, <1>13, <2>1, <2>2, <2>3 DEF PurgeInv, PurgeTypeOK
<1>16. UpdatesAreLegal'
  BY <1>2, <1>5 DEF PurgeInv, UpdatesAreLegal
<1>17. ExpiredIsAlone'
  <2>1. \A x \in Contacts : contact'[x] = "gone" => LeadsOf(x) = {}
    <3>1. r \in Contacts => LeadsOf(r) = {}
      BY <1>3, CrmAssumption DEF LeadsOf
    <3>. QED BY <3>1, <1>7 DEF PurgeInv, ExpiredIsAlone
  <2>. QED BY <2>1, <1>1, <1>2, <1>6 DEF PurgeInv, ExpiredIsAlone
<1>18. SelectedStaysDue'
  <2>1. ASSUME NEW q \in Purgers, Does(q, "contact")', NEW k \in purger'[q].todo
        PROVE  LeadsOf(k)' = {} /\ (k \in expired' \/ contact'[k] = "gone")
    <3>1. Does(q, "contact") /\ k \in purger[q].todo
      BY <2>1, <1>12
    <3>2. k \in Contacts /\ LeadsOf(k) = {} /\ (k \in expired \/ contact[k] = "gone")
      BY <3>1 DEF PurgeInv, PurgersAreTyped, SelectedStaysDue
    <3>. QED BY <3>2, <1>1, <1>6, <1>7
  <2>2. ASSUME NEW q \in Purgers, Does(q, "member")', NEW m \in purger'[q].todo
        PROVE  m \in expired' \/ member'[m] = "gone" \/ m \in rejoined'
    <3>1. Does(q, "member") /\ m \in purger[q].todo
      BY <2>2, <1>12
    <3>2. m \in Members /\ (m \in expired \/ member[m] = "gone" \/ m \in rejoined)
      BY <3>1 DEF PurgeInv, PurgersAreTyped, SelectedStaysDue
    <3>. QED BY <3>2, <1>1, <1>2, <1>7
  <2>. QED BY <2>1, <2>2 DEF SelectedStaysDue
<1>19. OnlyExpiredPurged'
  BY <1>1, <1>2, <1>3 DEF PurgeInv, OnlyExpiredPurged
<1>. QED BY <1>5, <1>13, <1>14, <1>15, <1>16, <1>17, <1>18, <1>19 DEF PurgeInv

LEMMA RowExpiresKeeps ==
  ASSUME PurgeInv, NEW r \in Purgeable, RowExpires(r)
  PROVE  PurgeInv'
<1>1. /\ State(r) = "deleted" /\ expired' = expired \cup {r}
      /\ ~\E q \in Requests : req[q] # NoRequest /\ req[q].on = r
      /\ UNCHANGED <<contact, leadOf, leadStatus, req, overtaken, member, audits, running, late,
                     purger, purgeFaults, wronged, rejoined>>
      /\ Purgeable' = Purgeable /\ Purges' = Purges
  BY DEF RowExpires, crmVars, Purgeable, Purges
<1>2. \A x : State(x)' = State(x) /\ LeadsOf(x)' = LeadsOf(x)
  BY <1>1 DEF State, LeadsOf
<1>3. CrmTypeOK'
  BY <1>1 DEF PurgeInv, PurgeTypeOK, CrmTypeOK, Writes
<1>4. PurgeTypeOK'
  BY <1>1, <1>2, <1>3 DEF PurgeInv, PurgeTypeOK
<1>5. PurgersAreTyped' /\ SelectedStaysDue'
  BY <1>1, <1>2 DEF PurgeInv, PurgersAreTyped, SelectedStaysDue, Does
<1>6. UpdatesAreLegal' /\ ExpiredIsAlone'
  BY <1>1, <1>2 DEF PurgeInv, UpdatesAreLegal, ExpiredIsAlone
<1>7. PurgedAuditedOnce' /\ OnlyExpiredPurged'
  BY <1>1, <1>2 DEF PurgeInv, PurgedAuditedOnce, OnlyExpiredPurged
<1>. QED BY <1>4, <1>5, <1>6, <1>7 DEF PurgeInv

LEMMA MembershipKeeps ==
  ASSUME PurgeInv, NEW m \in Members, Join(m) \/ Leave(m)
  PROVE  PurgeInv'
<1>1. /\ UNCHANGED <<contact, leadOf, leadStatus, req, overtaken, audits, running, late,
                     purger, purgeFaults, wronged>>
      /\ Purgeable' = Purgeable /\ Purges' = Purges
      /\ member[m] # "gone"
      /\ \E s \in {"live", "deleted"} : member' = [member EXCEPT ![m] = s]
      /\ expired' \subseteq expired /\ expired \subseteq expired' \cup {m} /\ rejoined \subseteq rejoined'
  BY DEF Join, Leave, crmVars, Purgeable, Purges
<1>2. /\ member \in [Members -> {"none", "live", "deleted", "gone"}] /\ m \notin Contacts
      /\ \A x \in expired : State(x) = "deleted"
  BY PurgeAssumption DEF PurgeInv, PurgeTypeOK
<1>3. m \notin expired'
  <2>1. CASE Join(m)
    BY <2>1 DEF Join
  <2>2. CASE Leave(m)
    <3>1. State(m) # "deleted" /\ expired' = expired
      BY <2>2, <1>2 DEF Leave, State
    <3>. QED BY <3>1, <1>2
  <2>. QED BY <2>1, <2>2
<1>4. /\ member' \in [Members -> {"none", "live", "deleted", "gone"}]
      /\ \A x \in Members : x # m => member'[x] = member[x]
      /\ member'[m] # "gone"
  BY <1>1, <1>2
<1>5. /\ \A x \in Purgeable : State(x)' = "gone" <=> State(x) = "gone"
      /\ \A x \in expired' : State(x)' = "deleted"
      /\ \A x : LeadsOf(x)' = LeadsOf(x)
  <2>1. \A x \in Purgeable : x # m => State(x)' = State(x)
    BY <1>1, <1>4 DEF State, Purgeable
  <2>2. State(m)' # "gone" /\ State(m) # "gone"
    BY <1>1, <1>2, <1>4 DEF State
  <2>3. \A x \in expired' : x \in expired /\ x # m
    BY <1>1, <1>3
  <2>4. \A x : x # m => State(x)' = State(x)
    BY <1>1, <1>2 DEF State
  <2>5. \A x : LeadsOf(x)' = LeadsOf(x)
    BY <1>1 DEF LeadsOf
  <2>. QED BY <2>1, <2>2, <2>3, <2>4, <2>5, <1>2
<1>6. CrmTypeOK'
  BY <1>1 DEF PurgeInv, PurgeTypeOK, CrmTypeOK, Writes
<1>7. PurgeTypeOK'
  BY <1>1, <1>4, <1>5, <1>6 DEF PurgeInv, PurgeTypeOK
<1>8. PurgersAreTyped' /\ UpdatesAreLegal' /\ ExpiredIsAlone'
  BY <1>1, <1>5 DEF PurgeInv, PurgersAreTyped, UpdatesAreLegal, ExpiredIsAlone, Does
<1>9. SelectedStaysDue'
  <2>1. ASSUME NEW p \in Purgers, Does(p, "contact")', NEW k \in purger'[p].todo
        PROVE  LeadsOf(k)' = {} /\ (k \in expired' \/ contact'[k] = "gone")
    <3>1. Does(p, "contact") /\ k \in purger[p].todo
      BY <2>1, <1>1 DEF Does
    <3>2. k \in Contacts /\ LeadsOf(k) = {} /\ (k \in expired \/ contact[k] = "gone")
      BY <3>1 DEF PurgeInv, PurgersAreTyped, SelectedStaysDue
    <3>. QED BY <3>2, <1>1, <1>2, <1>5
  <2>2. ASSUME NEW p \in Purgers, Does(p, "member")', NEW x \in purger'[p].todo
        PROVE  x \in expired' \/ member'[x] = "gone" \/ x \in rejoined'
    <3>1. Does(p, "member") /\ purger[p] # NotPurging /\ x \in purger[p].todo
      BY <2>2, <1>1 DEF Does
    <3>2. x \in Members /\ (x \in expired \/ member[x] = "gone" \/ x \in rejoined)
      BY <3>1 DEF PurgeInv, PurgersAreTyped, SelectedStaysDue
    <3>3. CASE x # m
      BY <3>2, <3>3, <1>1, <1>4
    <3>4. CASE x = m /\ Join(m)
      BY <3>1, <3>4 DEF Join
    <3>5. CASE x = m /\ Leave(m)
      <4>1. m \notin expired /\ rejoined' = rejoined
        BY <3>5, <1>3 DEF Leave
      <4>. QED BY <4>1, <3>2, <3>5, <1>1
    <3>. QED BY <3>3, <3>4, <3>5
  <2>. QED BY <2>1, <2>2 DEF SelectedStaysDue
<1>10. PurgedAuditedOnce' /\ OnlyExpiredPurged'
  BY <1>1, <1>5 DEF PurgeInv, PurgedAuditedOnce, OnlyExpiredPurged
<1>. QED BY <1>7, <1>8, <1>9, <1>10 DEF PurgeInv

LEMMA PurgeInitHolds ==
  PurgeInit => PurgeInv
<1>. SUFFICES ASSUME PurgeInit PROVE PurgeInv
  OBVIOUS
<1>1. /\ contact = [k \in Contacts |-> "none"] /\ leadOf = [l \in Leads |-> NoContact]
      /\ leadStatus = [l \in Leads |-> "NEW"] /\ req = [q \in Requests |-> NoRequest]
      /\ overtaken = {} /\ member = [m \in Members |-> "none"] /\ expired = {}
      /\ audits = [r \in Purgeable |-> 0] /\ running = {} /\ late = {}
      /\ purger = [p \in Purgers |-> NotPurging] /\ purgeFaults = 0 /\ wronged = {}
  BY DEF PurgeInit, CrmInit
<1>2. CrmTypeOK
  BY <1>1 DEF CrmTypeOK, LeadStatuses
<1>3. PurgeTypeOK
  <2>1. 0 \in 0..MaxPurgeFaults /\ 0 \in 0..1
    BY PurgeAssumption
  <2>. QED BY <1>1, <1>2, <2>1 DEF PurgeTypeOK
<1>4. PurgersAreTyped /\ UpdatesAreLegal /\ ExpiredIsAlone /\ SelectedStaysDue
  BY <1>1 DEF PurgersAreTyped, UpdatesAreLegal, ExpiredIsAlone, SelectedStaysDue, Does
<1>5. PurgedAuditedOnce /\ OnlyExpiredPurged
  BY <1>1 DEF PurgedAuditedOnce, OnlyExpiredPurged, State, Purgeable
<1>. QED BY <1>3, <1>4, <1>5 DEF PurgeInv

LEMMA ContactsKeep ==
  ASSUME PurgeInv, UNCHANGED retentionVars, NEW statuses \in SUBSET LeadStatuses,
         ContactStep(statuses)
  PROVE  PurgeInv'
<1>1. CASE \E k \in Contacts : CreateContact(k)
  BY <1>1, CreateContactKeeps
<1>2. CASE \E q \in Requests, k \in Contacts, op \in {"delete", "lead"} : FindContact(q, k, op)
  BY <1>2, FindContactKeeps
<1>3. CASE \E q \in Requests : DeleteContact(q)
  BY <1>3, DeleteContactKeeps
<1>4. CASE \E q \in Requests, l \in Leads, s \in statuses : CreateLead(q, l, s)
  BY <1>4, CreateLeadKeeps
<1>. QED BY <1>1, <1>2, <1>3, <1>4 DEF ContactStep

\* A step of the purges and the requests, or of the requests alone.
RowStep == PurgeStep \/ (CrmStep /\ UNCHANGED retentionVars)

LEMMA RowStepKeeps ==
  PurgeInv /\ RowStep => PurgeInv'
<1>. SUFFICES ASSUME PurgeInv, RowStep PROVE PurgeInv'
  OBVIOUS
<1>1. ASSUME NEW p \in Purgers, PurgeGoesOn(p) \/ PurgeStops(p)
      PROVE  PurgeInv'
  BY <1>1, PurgeGuardKeeps, ReapKeeps, StartPurgeKeeps, SelectKeeps, PurgeRowKeeps, PurgeEndsKeeps
     DEF PurgeGoesOn
<1>2. ASSUME NEW i \in PurgeIds, RunAges(i)
      PROVE  PurgeInv'
  <2>1. late' \subseteq running
    BY <1>2 DEF RunAges, PurgeInv, PurgeTypeOK
  <2>. QED BY <1>2, <2>1, PurgeClocksKeep DEF RunAges
<1>3. CASE \/ \E r \in Purgeable : RowExpires(r)
           \/ \E m \in Members : Join(m) \/ Leave(m)
  BY <1>3, RowExpiresKeeps, MembershipKeeps
<1>4. CASE \E statuses \in SUBSET LeadStatuses : ContactStep(statuses) /\ UNCHANGED retentionVars
  BY <1>4, ContactsKeep
<1>5. CASE LeadStep /\ UNCHANGED retentionVars
  BY <1>5, ReadLeadKeeps, UpdateLeadKeeps DEF LeadStep
<1>6. {"NEW"} \in SUBSET LeadStatuses /\ LeadStatuses \in SUBSET LeadStatuses
  BY DEF LeadStatuses
<1>. QED BY <1>1, <1>2, <1>3, <1>4, <1>5, <1>6 DEF RowStep, PurgeStep, CrmStep

LEMMA RowsStutter ==
  PurgeInv /\ UNCHANGED purgeVars => PurgeInv'
<1>. SUFFICES ASSUME PurgeInv, UNCHANGED purgeVars PROVE PurgeInv'
  OBVIOUS
<1>1. /\ UNCHANGED <<crmVars, member, expired, audits, running, purger, purgeFaults, wronged, rejoined>>
      /\ late' = late
  BY DEF purgeVars, retentionVars
<1>2. late' \subseteq running
  BY <1>1 DEF PurgeInv, PurgeTypeOK
<1>. QED BY <1>1, <1>2, PurgeClocksKeep

\* What no step does: take a lead from its contact, or a deal that is won from "WON",
\* unless an update overtook the one that won it.
LeadsKept == \A l \in Leads : leadOf[l] # NoContact => leadOf'[l] = leadOf[l]
DealsKept == \A l \in Leads : leadStatus[l] = "WON" => leadStatus'[l] = "WON" \/ l \in overtaken'

LEMMA RequestKeepsLeads ==
  ASSUME PurgeInv, NEW q \in Requests
  PROVE  /\ DeleteContact(q) => LeadsKept /\ DealsKept
         /\ \A l \in Leads, s \in LeadStatuses :
              CreateLead(q, l, s) \/ ReadLead(q, l, s) => LeadsKept /\ DealsKept
         /\ UpdateLead(q) => LeadsKept /\ DealsKept
<1>1. leadOf \in [Leads -> Contacts \cup {NoContact}] /\ leadStatus \in [Leads -> LeadStatuses]
  BY DEF PurgeInv, PurgeTypeOK, CrmTypeOK
<1>2. ASSUME UNCHANGED <<leadOf, leadStatus>> PROVE LeadsKept /\ DealsKept
  BY <1>2 DEF LeadsKept, DealsKept
<1>3. DeleteContact(q) => LeadsKept /\ DealsKept
  BY <1>2 DEF DeleteContact
<1>4. ASSUME NEW l \in Leads, NEW s \in LeadStatuses, CreateLead(q, l, s)
      PROVE  LeadsKept /\ DealsKept
  <2>1. leadOf[l] = NoContact /\ leadStatus[l] = "NEW"
    BY <1>4 DEF CreateLead, PurgeInv, UpdatesAreLegal
  <2>2. \A x \in Leads : x # l => leadOf'[x] = leadOf[x] /\ leadStatus'[x] = leadStatus[x]
    BY <1>4, <1>1 DEF CreateLead
  <2>. QED BY <2>1, <2>2 DEF LeadsKept, DealsKept
<1>5. ASSUME NEW l \in Leads, NEW s \in LeadStatuses, ReadLead(q, l, s)
      PROVE  LeadsKept /\ DealsKept
  BY <1>5, <1>2 DEF ReadLead
<1>6. ASSUME UpdateLead(q) PROVE LeadsKept /\ DealsKept
  <2>. DEFINE l == req[q].on
  <2>1. l \in Leads /\ req[q].to \in NextLeadStatuses(req[q].was)
    BY <1>6, WritesAreTyped DEF UpdateLead, PurgeInv, UpdatesAreLegal
  <2>2. /\ leadOf' = leadOf /\ \A x \in Leads : x # l => leadStatus'[x] = leadStatus[x]
        /\ req[q].was = leadStatus[l] \/ l \in overtaken'
    BY <1>6, <1>1 DEF UpdateLead
  <2>3. req[q].was # "WON"
    BY <2>1 DEF NextLeadStatuses
  <2>. HIDE DEF l
  <2>. QED BY <2>1, <2>2, <2>3 DEF LeadsKept, DealsKept
<1>. QED BY <1>3, <1>4, <1>5, <1>6

LEMMA RowStepKeepsLeads ==
  PurgeInv /\ (RowStep \/ UNCHANGED purgeVars) => LeadsKept /\ DealsKept
<1>. SUFFICES ASSUME PurgeInv, RowStep \/ UNCHANGED purgeVars PROVE LeadsKept /\ DealsKept
  OBVIOUS
<1>1. ASSUME UNCHANGED <<leadOf, leadStatus>> PROVE LeadsKept /\ DealsKept
  BY <1>1 DEF LeadsKept, DealsKept
<1>2. CASE UNCHANGED crmVars
  BY <1>1, <1>2 DEF crmVars
<1>3. ASSUME NEW p \in Purgers, PurgeRow(p) PROVE LeadsKept /\ DealsKept
  <2>1. leadOf' = leadOf /\ leadStatus' = leadStatus
    BY <1>3, PurgeRowKeeps DEF PurgeRow, otherRows
  <2>. QED BY <1>1, <2>1
<1>4. CASE PurgeStep /\ ~ContactStep({"NEW"}) /\ ~\E p \in Purgers : PurgeRow(p)
  <2>1. UNCHANGED crmVars
    BY <1>4 DEF PurgeStep, PurgeGoesOn, PurgeGuard, Reap, StartPurge, SelectContacts,
       SelectMembers, PurgeDone, PurgeStops, RunAges, RowExpires, Join, Leave
  <2>. QED BY <2>1, <1>2
<1>5. ASSUME NEW statuses \in SUBSET LeadStatuses, ContactStep(statuses)
      PROVE  LeadsKept /\ DealsKept
  <2>1. CASE \/ \E k \in Contacts : CreateContact(k)
             \/ \E q \in Requests, k \in Contacts, op \in {"delete", "lead"} : FindContact(q, k, op)
    BY <2>1, <1>1 DEF CreateContact, FindContact
  <2>2. CASE \E q \in Requests : DeleteContact(q) \/ \E l \in Leads, s \in statuses : CreateLead(q, l, s)
    BY <2>2, RequestKeepsLeads
  <2>. QED BY <2>1, <2>2, <1>5 DEF ContactStep
<1>6. CASE LeadStep
  BY <1>6, RequestKeepsLeads DEF LeadStep
<1>7. {"NEW"} \in SUBSET LeadStatuses /\ LeadStatuses \in SUBSET LeadStatuses
  BY DEF LeadStatuses
<1>8. UNCHANGED purgeVars => UNCHANGED crmVars
  BY DEF purgeVars
<1>. QED BY <1>2, <1>3, <1>4, <1>5, <1>6, <1>7, <1>8 DEF RowStep, CrmStep

(***************************************************************************)
(* The order of the tables.                                                *)
(***************************************************************************)

LEMMA NumberOfTables ==
  Number \in Nat /\ Number >= 1 /\ ExistsBijection(1..Number, Tables)
<1>1. IsFiniteSet(Tables) /\ Tables # {}
  BY DumpAssumption
<1>2. Number \in Nat /\ ExistsBijection(1..Number, Tables)
  BY <1>1, FS_CardinalityType DEF Number
<1>3. Number # 0
  BY <1>1, FS_EmptySet DEF Number
<1>. QED BY <1>2, <1>3

\* What a round sorts once T is sorted; the first k rounds.
NextRound(E, T) == {t \in Tables : DependsOn(t, E) \subseteq T}
Rounds(E, k, f) == f = [m \in 0..k |-> IF m = 0 THEN {} ELSE NextRound(E, f[m - 1])]

LEMMA RoundsExist ==
  ASSUME NEW E, NEW n \in Nat
  PROVE  \E f : Rounds(E, n, f)
<1>. DEFINE T == {k \in Nat : ~\E f : Rounds(E, k, f)}
<1>1. ASSUME T # {} PROVE FALSE
  <2>1. PICK k \in T : \A j \in T : k <= j
    BY <1>1, Least
  <2>2. k # 0
    <3>. DEFINE g == [m \in 0..0 |-> {}]
    <3>1. g = [m \in 0..0 |-> IF m = 0 THEN {} ELSE NextRound(E, g[m - 1])]
      OBVIOUS
    <3>2. Rounds(E, 0, g)
      BY <3>1 DEF Rounds
    <3>. QED BY <3>2, <2>1
  <2>3. k - 1 \in Nat /\ k - 1 \notin T
    BY <2>1, <2>2
  <2>4. PICK f : Rounds(E, k - 1, f)
    BY <2>3
  <2>. DEFINE g == [m \in 0..k |-> IF m = k THEN NextRound(E, f[k - 1]) ELSE f[m]]
  <2>5. \A m \in 0..(k - 1) : f[m] = IF m = 0 THEN {} ELSE NextRound(E, f[m - 1])
    BY <2>4 DEF Rounds
  <2>6. \A m \in 0..k : g[m] = IF m = 0 THEN {} ELSE NextRound(E, g[m - 1])
    <3>1. ASSUME NEW m \in 0..k PROVE g[m] = IF m = 0 THEN {} ELSE NextRound(E, g[m - 1])
      <4>1. CASE m = 0
        BY <4>1, <2>2, <2>3, <2>5
      <4>2. CASE m = k
        <5>1. g[m - 1] = f[k - 1]
          BY <4>2, <2>3
        <5>2. g[m] = NextRound(E, f[k - 1])
          BY <4>2
        <5>. QED BY <4>2, <5>1, <5>2, <2>2
      <4>3. CASE m # 0 /\ m # k
        <5>1. m \in 0..(k - 1) /\ m - 1 \in 0..k /\ m - 1 # k
          BY <4>3, <2>3
        <5>2. g[m] = f[m] /\ g[m - 1] = f[m - 1]
          BY <5>1, <4>3
        <5>. QED BY <5>1, <5>2, <4>3, <2>5
      <4>. QED BY <4>1, <4>2, <4>3
    <3>. QED BY <3>1
  <2>7. g = [m \in 0..k |-> g[m]]
    OBVIOUS
  <2>8. Rounds(E, k, g)
    <3>. HIDE DEF g
    <3>. QED BY <2>6, <2>7 DEF Rounds
  <2>. QED BY <2>1, <2>8
<1>. QED BY <1>1

LEMMA SortedIs ==
  ASSUME NEW E
  PROVE  Rounds(E, Number, Sorted(E))
<1>1. PICK f : Rounds(E, Number, f)
  BY RoundsExist, NumberOfTables
<1>2. f = [k \in 0..Cardinality(Tables) |->
             IF k = 0 THEN {} ELSE {t \in Tables : DependsOn(t, E) \subseteq f[k - 1]}]
  BY <1>1 DEF Rounds, NextRound, Number
<1>3. Sorted(E) = [k \in 0..Cardinality(Tables) |->
             IF k = 0 THEN {} ELSE {t \in Tables : DependsOn(t, E) \subseteq Sorted(E)[k - 1]}]
  BY <1>2 DEF Sorted
<1>. QED BY <1>3 DEF Rounds, NextRound, Number

\* A table sorted stays sorted.
LEMMA SortedGrows ==
  ASSUME NEW E
  PROVE  /\ Sorted(E)[0] = {}
         /\ \A k \in 1..Number : Sorted(E)[k] = NextRound(E, Sorted(E)[k - 1])
         /\ \A k \in 0..Number : \A j \in 0..k : Sorted(E)[j] \subseteq Sorted(E)[k]
<1>. DEFINE S == Sorted(E)
<1>1. S = [m \in 0..Number |-> IF m = 0 THEN {} ELSE NextRound(E, S[m - 1])]
  BY SortedIs DEF Rounds
<1>. HIDE DEF S
<1>2. \A m \in 0..Number : S[m] = IF m = 0 THEN {} ELSE NextRound(E, S[m - 1])
  BY <1>1
<1>3. Number \in Nat
  BY NumberOfTables
<1>4. S[0] = {} /\ \A k \in 1..Number : S[k] = NextRound(E, S[k - 1])
  BY <1>2, <1>3
<1>. DEFINE T == {k \in Nat : k < Number /\ ~(S[k] \subseteq S[k + 1])}
<1>5. ASSUME T # {} PROVE FALSE
  <2>1. PICK k \in T : \A j \in T : k <= j
    BY <1>5, Least
  <2>2. k # 0
    BY <2>1, <1>4
  <2>3. S[k - 1] \subseteq S[k]
    <3>1. k - 1 \in Nat /\ k - 1 \notin T /\ k - 1 < Number /\ (k - 1) + 1 = k
      BY <2>1, <2>2, <1>3
    <3>. QED BY <3>1
  <2>4. S[k] = NextRound(E, S[k - 1]) /\ S[k + 1] = NextRound(E, S[k])
    <3>1. k \in 1..Number /\ k + 1 \in 1..Number /\ (k + 1) - 1 = k
      BY <2>1, <2>2, <1>3
    <3>. QED BY <3>1, <1>4
  <2>5. S[k] \subseteq S[k + 1]
    BY <2>3, <2>4 DEF NextRound
  <2>. QED BY <2>1, <2>5
<1>6. \A k \in 0..(Number - 1) : S[k] \subseteq S[k + 1]
  BY <1>5, <1>3
<1>7. ASSUME NEW j \in 0..Number
      PROVE  \A k \in 0..Number : j <= k => S[j] \subseteq S[k]
  <2>. DEFINE U == {k \in Nat : j <= k /\ k <= Number /\ ~(S[j] \subseteq S[k])}
  <2>1. ASSUME U # {} PROVE FALSE
    <3>1. PICK k \in U : \A i \in U : k <= i
      BY <2>1, Least
    <3>2. k # j
      BY <3>1
    <3>3. k - 1 \in 0..(Number - 1) /\ j <= k - 1 /\ k - 1 \notin U /\ (k - 1) + 1 = k
      BY <3>1, <3>2, <1>3
    <3>4. S[j] \subseteq S[k - 1]
      BY <3>3, <1>3
    <3>5. S[k - 1] \subseteq S[k]
      BY <3>3, <1>6
    <3>. QED BY <3>1, <3>4, <3>5
  <2>. QED BY <2>1, <1>3
<1>8. \A k \in 0..Number : \A j \in 0..k : S[j] \subseteq S[k]
  BY <1>7, <1>3
<1>. QED BY <1>4, <1>8 DEF S

\* The round in which a table is sorted; its dependencies are sorted before.
SortedIn(E, t, k) == t \in Sorted(E)[k] \ Sorted(E)[k - 1]

LEMMA EveryTableHasARound ==
  ASSUME NEW E, Stuck(E) = {}, NEW t \in Tables
  PROVE  \E k \in 1..Number : SortedIn(E, t, k)
<1>. DEFINE S == Sorted(E)
<1>1. S[0] = {} /\ t \in S[Number] /\ Number \in Nat
  BY SortedGrows, NumberOfTables DEF Stuck, Number
<1>. HIDE DEF S
<1>. DEFINE T == {k \in Nat : k <= Number /\ t \in S[k]}
<1>2. PICK k \in T : \A j \in T : k <= j
  <2>1. Number \in T
    BY <1>1
  <2>. QED BY <2>1, Least
<1>3. k # 0
  BY <1>1, <1>2
<1>4. k \in 1..Number /\ k - 1 \notin T /\ k - 1 \in Nat /\ k - 1 <= Number
  BY <1>1, <1>2, <1>3
<1>5. t \in S[k] \ S[k - 1]
  BY <1>2, <1>4
<1>. QED BY <1>4, <1>5 DEF SortedIn, S

LEMMA DependenciesComeFirst ==
  ASSUME NEW E, NEW e \in E, e.on \in Tables,
         NEW k \in 1..Number, SortedIn(E, e.table, k), NEW j \in 1..Number, SortedIn(E, e.on, j)
  PROVE  j < k
<1>1. Number \in Nat
  BY NumberOfTables
<1>2. e.on \in DependsOn(e.table, E)
  BY DEF DependsOn
<1>3. e.table \in NextRound(E, Sorted(E)[k - 1])
  BY SortedGrows DEF SortedIn
<1>4. e.on \in Sorted(E)[k - 1]
  BY <1>2, <1>3 DEF NextRound
<1>5. CASE k <= j
  <2>1. j - 1 \in 0..Number /\ k - 1 \in 0..(j - 1)
    BY <1>1, <1>5
  <2>2. Sorted(E)[k - 1] \subseteq Sorted(E)[j - 1]
    BY <2>1, SortedGrows
  <2>. QED BY <2>2, <1>4 DEF SortedIn
<1>. QED BY <1>1, <1>5

LEMMA OrdersAreTopological ==
  ASSUME NEW E, Stuck(E) = {}, NEW s \in Orders(E),
         NEW i \in 1..Number, NEW j \in 1..Number, NEW e \in E, s[i] = e.table, s[j] = e.on
  PROVE  j < i
<1>. DEFINE Round(t) == CHOOSE k \in 1..Number : t \in Sorted(E)[k] \ Sorted(E)[k - 1]
<1>1. /\ s \in [1..Number -> Tables]
      /\ \A x, y \in 1..Number : x < y => Round(s[x]) <= Round(s[y])
  BY DEF Orders, AnyOrder, Number
<1>2. \A t \in Tables : Round(t) \in 1..Number /\ SortedIn(E, t, Round(t))
  <2>1. ASSUME NEW t \in Tables PROVE Round(t) \in 1..Number /\ SortedIn(E, t, Round(t))
    <3>1. \E k \in 1..Number : t \in Sorted(E)[k] \ Sorted(E)[k - 1]
      BY EveryTableHasARound DEF SortedIn
    <3>. QED BY <3>1 DEF SortedIn
  <2>. QED BY <2>1
<1>. HIDE DEF Round
<1>3. s[i] \in Tables /\ s[j] \in Tables
  BY <1>1
<1>4. Round(s[j]) < Round(s[i])
  BY <1>2, <1>3, DependenciesComeFirst
<1>5. Number \in Nat /\ Round(s[i]) \in Nat /\ Round(s[j]) \in Nat
  BY <1>2, <1>3, NumberOfTables
<1>. QED BY <1>1, <1>4, <1>5

\* An order names every table, once, and is a sequence.
LEMMA OrdersAreComplete ==
  ASSUME NEW E, NEW s \in Orders(E)
  PROVE  /\ s \in [1..Number -> Tables] /\ s \in Seq(Tables) /\ Len(s) = Number
         /\ \A i, j \in 1..Number : s[i] = s[j] => i = j
         /\ \A t \in Tables : \E i \in 1..Number : s[i] = t
<1>1. /\ s \in [1..Number -> Tables]
      /\ \A i, j \in 1..Number : s[i] = s[j] => i = j
  BY DEF Orders, AnyOrder, Number
<1>2. Number \in Nat
  BY NumberOfTables
<1>3. s \in Seq(Tables)
  BY <1>1, <1>2, SeqDef
<1>4. Len(s) = Number
  <2>1. Len(s) \in Nat /\ DOMAIN s = 1..Len(s) /\ DOMAIN s = 1..Number
    BY <1>1, <1>3, LenProperties
  <2>2. \A m, n \in Nat : 1..m = 1..n => m = n
    <3>1. ASSUME NEW m \in Nat, NEW n \in Nat, 1..m = 1..n PROVE m = n
      <4>1. m \in 1..m => m \in 1..n
        BY <3>1
      <4>2. n \in 1..n => n \in 1..m
        BY <3>1
      <4>. QED BY <4>1, <4>2
    <3>. QED BY <3>1
  <2>. QED BY <2>1, <2>2, <1>2
<1>5. s \in Surjection(1..Number, Tables)
  <2>1. s \in Injection(1..Number, Tables)
    BY <1>1 DEF Injection, IsInjective
  <2>2. Cardinality(1..Number) = Number
    BY <1>2, FS_Interval
  <2>3. IsFiniteSet(Tables) /\ Cardinality(Tables) = Number
    BY DumpAssumption DEF Number
  <2>. QED BY <2>1, <2>2, <2>3, FS_Injection
<1>6. \A t \in Tables : \E i \in 1..Number : s[i] = t
  BY <1>5 DEF Surjection
<1>. QED BY <1>1, <1>3, <1>4, <1>6

(***************************************************************************)
(* Dump and restore.                                                       *)
(***************************************************************************)

LEMMA TabledIsTyped ==
  ASSUME NEW db, Tabled(db), NEW t \in Tables
  PROVE  DOMAIN db[t] \in SUBSET Ids /\ db[t] \in [DOMAIN db[t] -> Row(t)]
BY DEF Tabled

LEMMA DumpTyped ==
  DumpInv => DumpTypeOK
<1>. SUFFICES ASSUME DumpInv PROVE DumpTypeOK
  OBVIOUS
<1>1. \A db \in {live, file, fresh} : \A t \in Tables :
        DOMAIN db[t] \subseteq Ids /\ \A i \in DOMAIN db[t] : db[t][i] \in [KeysOf(t) -> Ids \cup {0}]
  <2>1. ASSUME NEW db \in {live, file, fresh}, NEW t \in Tables
        PROVE  DOMAIN db[t] \subseteq Ids /\ \A i \in DOMAIN db[t] : db[t][i] \in Row(t)
    <3>1. Tabled(db)
      BY <2>1 DEF DumpInv
    <3>. QED BY <3>1, TabledIsTyped
  <2>. QED BY <2>1 DEF Row
<1>. QED BY <1>1 DEF DumpInv, DumpIsTyped, DumpTypeOK

\* A database is given by its tables.
LEMMA SameTables ==
  ASSUME NEW db, NEW other, Tabled(db), Tabled(other), \A t \in Tables : db[t] = other[t]
  PROVE  db = other
<1>1. db = [t \in Tables |-> db[t]] /\ other = [t \in Tables |-> other[t]]
  BY DEF Tabled
<1>. QED BY <1>1

\* Rows a table may hold, and a table replaced by such rows.
AreRows(t, rs) == \E D \in SUBSET Ids : rs \in [D -> Row(t)]
Replaces(after, db, t, rs) == after = [db EXCEPT ![t] = rs]

LEMMA TableReplaced ==
  ASSUME NEW db, Tabled(db), NEW t \in Tables, NEW rs, AreRows(t, rs),
         NEW after, Replaces(after, db, t, rs)
  PROVE  Tabled(after) /\ \A u \in Tables : after[u] = IF u = t THEN rs ELSE db[u]
<1>1. DOMAIN db = Tables
  BY DEF Tabled
<1>2. after = [u \in Tables |-> after[u]]
  BY <1>1 DEF Replaces
<1>3. \A u \in Tables : after[u] = IF u = t THEN rs ELSE db[u]
  BY <1>1 DEF Replaces
<1>4. \A u \in Tables : \E S \in SUBSET Ids : after[u] \in [S -> Row(u)]
  BY <1>3 DEF Tabled, AreRows
<1>5. Tabled(after)
  BY <1>2, <1>4 DEF Tabled
<1>. QED BY <1>3, <1>5

LEMMA EmptyIsTabled == Tabled(Empty)
<1>1. \A t \in Tables : Empty[t] \in [{} -> Row(t)]
  BY DEF Empty
<1>2. Empty = [t \in Tables |-> Empty[t]]
  BY DEF Empty
<1>3. {} \in SUBSET Ids
  OBVIOUS
<1>. QED BY <1>1, <1>2, <1>3 DEF Tabled

\* A consistent database refers to rows there are.
LEMMA RefersToRows ==
  ASSUME NEW db, Consistent(db), NEW e \in Schema, NEW i \in DOMAIN db[e.table]
  PROVE  db[e.table][i][e] \in DOMAIN db[e.on] \cup {0}
BY DEF Consistent

LEMMA KeysAreOfTables ==
  ASSUME DumpInv, NEW e \in Schema
  PROVE  e.table \in Tables /\ e.on \in Tables /\ e \in KeysOf(e.table)
<1>1. Schema \subseteq [table : Tables, on : Tables, nullable : BOOLEAN]
  BY DumpAssumption DEF DumpInv, DumpIsTyped
<1>. QED BY <1>1 DEF KeysOf

\* The first of the tables that are left.
LEMMA TodoIsTheRest ==
  ASSUME DumpInv, step \in {"dump", "insert"}
  PROVE  /\ Head(todo) \in Tables /\ Len(todo) \in 1..Number
         /\ Len(todo) > 1 => /\ Tail(todo) \in Seq(Tables) /\ Len(Tail(todo)) \in 1..Number
                             /\ \A i \in 1..Len(Tail(todo)) :
                                  Tail(todo)[i] = order[Number - Len(Tail(todo)) + i]
                             /\ {order[i] : i \in 1..(Number - Len(Tail(todo)))}
                                  = Handled \cup {Head(todo)}
         /\ ~(Len(todo) > 1) => Tables \subseteq Handled \cup {Head(todo)}
         /\ \A e \in edges : e.table = Head(todo) => e.on \in Handled /\ e.on # Head(todo)
<1>. DEFINE n == Len(todo)
            h == Number - n + 1
<1>1. /\ todo \in Seq(Tables) /\ n \in 1..Number /\ Number \in Nat
      /\ \A i \in 1..n : todo[i] = order[Number - n + i]
      /\ Stuck(edges) = {} /\ order \in Orders(edges)
  BY NumberOfTables DEF DumpInv, OrderIsKept
<1>2. h \in 1..Number /\ h - 1 = Number - n
  BY <1>1
<1>3. todo # << >>
  BY <1>1, EmptySeq
<1>4. Head(todo) \in Tables /\ Head(todo) = order[h]
  <2>1. Head(todo) = todo[1]
    OBVIOUS
  <2>2. todo[1] = order[h] /\ 1 \in 1..n
    BY <1>1
  <2>. QED BY <2>1, <2>2, <1>1, ElementOfSeq
<1>5. /\ Tail(todo) \in Seq(Tables) /\ Len(Tail(todo)) = n - 1
      /\ \A i \in 1..(n - 1) : Tail(todo)[i] = todo[i + 1]
  BY <1>1, <1>3, HeadTailProperties
<1>6. ASSUME n > 1
      PROVE  /\ Len(Tail(todo)) \in 1..Number
             /\ \A i \in 1..(n - 1) : Tail(todo)[i] = order[Number - (n - 1) + i]
             /\ {order[i] : i \in 1..(Number - (n - 1))} = Handled \cup {Head(todo)}
  <2>1. n - 1 \in 1..Number
    BY <1>1, <1>6
  <2>2. ASSUME NEW i \in 1..(n - 1) PROVE Tail(todo)[i] = order[Number - (n - 1) + i]
    <3>1. i + 1 \in 1..n /\ Number - n + (i + 1) = Number - (n - 1) + i
      BY <1>1
    <3>. QED BY <3>1, <1>1, <1>5
  <2>3. 1..(Number - (n - 1)) = (1..(Number - n)) \cup {h}
    BY <1>1
  <2>4. Len(Tail(todo)) \in 1..Number
    BY <2>1, <1>5
  <2>5. Handled = {order[i] : i \in 1..(Number - n)}
    BY DEF Handled
  <2>6. {order[i] : i \in 1..(Number - (n - 1))} = Handled \cup {Head(todo)}
    <3>. HIDE DEF n, h
    <3>. QED BY <2>3, <2>5, <1>4
  <2>. QED BY <2>2, <2>4, <2>6
<1>9. \A t \in Tables : \E i \in 1..Number : order[i] = t
  BY <1>1, OrdersAreComplete
<1>7. ASSUME ~(n > 1), NEW t \in Tables
      PROVE  t \in Handled \cup {Head(todo)}
  <2>1. n = 1 /\ h = Number
    <3>1. n \in Nat /\ n >= 1 /\ n <= 1
      BY <1>1, <1>7
    <3>. HIDE DEF n
    <3>. QED BY <3>1, <1>1 DEF h
  <2>2. PICK i \in 1..Number : order[i] = t
    BY <1>9
  <2>3. i = h \/ i \in 1..(Number - n)
    BY <2>1, <2>2, <1>1
  <2>. QED BY <2>2, <2>3, <1>4 DEF Handled
<1>8. ASSUME NEW e \in edges, e.table = Head(todo)
      PROVE  e.on \in Handled /\ e.on # Head(todo)
  <2>1. e.on \in Tables
    BY KeysAreOfTables DEF Schema
  <2>2. PICK j \in 1..Number : order[j] = e.on
    BY <2>1, <1>9
  <2>3. j < h
    BY <1>1, <1>2, <1>4, <1>8, <2>2, OrdersAreTopological
  <2>4. e.on # Head(todo)
    BY <2>2, <2>3, <1>1, <1>2, <1>4, OrdersAreComplete
  <2>5. j \in 1..(Number - n)
    BY <1>1, <2>2, <2>3
  <2>. QED BY <2>2, <2>4, <2>5 DEF Handled
<1>. HIDE DEF h
<1>. QED BY <1>1, <1>4, <1>5, <1>6, <1>7, <1>8

\* The row a dumped row becomes, and the rows after the fix-up.
LEMMA InsertedRows ==
  ASSUME DumpInv, NEW t \in Tables
  PROVE  /\ Inserted(t) \in [DOMAIN file[t] -> Row(t)] /\ DOMAIN Inserted(t) = DOMAIN file[t]
         /\ \A i \in DOMAIN file[t] : \A e \in KeysOf(t) :
              Inserted(t)[i][e] = IF e \in broken THEN 0 ELSE file[t][i][e]
<1>1. file[t] \in [DOMAIN file[t] -> Row(t)]
  BY TabledIsTyped DEF DumpInv
<1>2. \A i \in DOMAIN file[t] : \A e \in KeysOf(t) : file[t][i][e] \in Ids \cup {0}
  BY <1>1 DEF Row
<1>3. \A i \in DOMAIN file[t] :
        [e \in KeysOf(t) |-> IF e \in broken THEN 0 ELSE file[t][i][e]] \in Row(t)
  BY <1>2 DEF Row
<1>. QED BY <1>3 DEF Inserted

LEMMA FixedUpRows ==
  ASSUME DumpInv, step = "fix", NEW t \in Tables
  PROVE  FixedUp(t) = file[t]
<1>1. fresh[t] = Inserted(t)
  BY DEF DumpInv, InsertedSoFar
<1>2. file[t] \in [DOMAIN file[t] -> Row(t)]
  BY TabledIsTyped DEF DumpInv
<1>3. FixedUp(t) = [i \in DOMAIN file[t] |->
         [e \in KeysOf(t) |-> IF e \in broken THEN file[t][i][e] ELSE Inserted(t)[i][e]]]
  BY <1>1, InsertedRows DEF FixedUp
<1>4. \A i \in DOMAIN file[t] :
        [e \in KeysOf(t) |-> IF e \in broken THEN file[t][i][e] ELSE Inserted(t)[i][e]] = file[t][i]
  <2>1. ASSUME NEW i \in DOMAIN file[t]
        PROVE  [e \in KeysOf(t) |-> IF e \in broken THEN file[t][i][e] ELSE Inserted(t)[i][e]]
                 = file[t][i]
    <3>1. file[t][i] = [e \in KeysOf(t) |-> file[t][i][e]]
      BY <1>2 DEF Row
    <3>2. \A e \in KeysOf(t) :
            (IF e \in broken THEN file[t][i][e] ELSE Inserted(t)[i][e]) = file[t][i][e]
      BY InsertedRows
    <3>. QED BY <3>1, <3>2
  <2>. QED BY <2>1
<1>5. file[t] = [i \in DOMAIN file[t] |-> file[t][i]]
  BY <1>2
<1>. QED BY <1>3, <1>4, <1>5

\* What does not change while the foreign keys stay what and where they are.
LEMMA SamePlan ==
  ASSUME UNCHANGED <<edges, broken>>
  PROVE  /\ Schema' = Schema /\ Stuck(edges)' = Stuck(edges) /\ Orders(edges)' = Orders(edges)
         /\ Number' = Number /\ Empty' = Empty
         /\ \A t : KeysOf(t)' = KeysOf(t) /\ Row(t)' = Row(t)
         /\ UNCHANGED file => \A t : Inserted(t)' = Inserted(t)
         /\ UNCHANGED live => (Tabled(live)' <=> Tabled(live)) /\ (Consistent(live)' <=> Consistent(live))
         /\ UNCHANGED file => (Tabled(file)' <=> Tabled(file))
         /\ UNCHANGED fresh => (Tabled(fresh)' <=> Tabled(fresh))
<1>1. Schema' = Schema
  BY DEF Schema
<1>2. \A t : KeysOf(t)' = KeysOf(t) /\ Row(t)' = Row(t)
  BY <1>1 DEF KeysOf, Row
<1>3. Stuck(edges)' = Stuck(edges) /\ Orders(edges)' = Orders(edges)
  BY DEF Stuck, Orders
<1>4. Number' = Number /\ Empty' = Empty
  BY DEF Number, Empty
<1>5. UNCHANGED file => \A t : Inserted(t)' = Inserted(t)
  BY <1>2 DEF Inserted
<1>6. ASSUME UNCHANGED live
      PROVE  (Tabled(live)' <=> Tabled(live)) /\ (Consistent(live)' <=> Consistent(live))
  <2>1. Tabled(live)' <=> Tabled(live)
    BY <1>2, <1>6 DEF Tabled
  <2>2. Consistent(live)' <=> Consistent(live)
    BY <1>1, <1>6 DEF Consistent
  <2>. QED BY <2>1, <2>2
<1>7. UNCHANGED file => (Tabled(file)' <=> Tabled(file))
  BY <1>2 DEF Tabled
<1>8. UNCHANGED fresh => (Tabled(fresh)' <=> Tabled(fresh))
  BY <1>2 DEF Tabled
<1>. QED BY <1>1, <1>2, <1>3, <1>4, <1>5, <1>6, <1>7, <1>8

LEMMA BreakKeyKeeps ==
  ASSUME DumpInv, BreakKey
  PROVE  DumpInv'
<1>1. PICK e \in Breakable(edges) : edges' = edges \ {e} /\ broken' = broken \cup {e}
  BY DEF BreakKey
<1>2. /\ step = "break" /\ UNCHANGED <<live, order, file, damaged, fresh, todo, step, writes, torn>>
      /\ e \in edges /\ e.nullable
  BY <1>1 DEF BreakKey, Breakable
<1>3. Schema' = Schema
  BY <1>1, <1>2 DEF Schema
<1>4. \A t : KeysOf(t)' = KeysOf(t) /\ Row(t)' = Row(t)
  BY <1>3 DEF KeysOf, Row
<1>5. Tabled(live)' /\ Tabled(file)' /\ Tabled(fresh)'
  BY <1>2, <1>4 DEF DumpInv, Tabled
<1>6. DumpIsTyped'
  <2>1. Consistent(live)'
    BY <1>2, <1>3 DEF DumpInv, DumpIsTyped, Consistent
  <2>2. edges' \cap broken' = {} /\ \A f \in broken' : f.nullable
    BY <1>1, <1>2 DEF DumpInv, DumpIsTyped
  <2>. QED BY <1>2, <1>3, <2>1, <2>2 DEF DumpInv, DumpIsTyped
<1>7. OrderIsKept' /\ DumpedIsLive' /\ InsertedSoFar' /\ RestoreIsFaithful'
  BY <1>2 DEF DumpInv, OrderIsKept, DumpedIsLive, InsertedSoFar, RestoreIsFaithful, Empty
<1>. QED BY <1>5, <1>6, <1>7 DEF DumpInv

LEMMA SortKeeps ==
  ASSUME DumpInv, Sort
  PROVE  DumpInv'
<1>1. /\ step = "break" /\ Stuck(edges) = {} /\ order' \in Orders(edges)
      /\ todo' = order' /\ step' = "dump"
      /\ UNCHANGED <<edges, broken, live, file, damaged, fresh, writes, torn>>
  BY DEF Sort
<1>2. /\ order' \in [1..Number -> Tables] /\ order' \in Seq(Tables) /\ Len(order') = Number
      /\ \A i, j \in 1..Number : order'[i] = order'[j] => i = j
  BY <1>1, OrdersAreComplete
<1>3. Number \in Nat /\ Number >= 1
  BY NumberOfTables
<1>4. Tabled(live)' /\ Tabled(file)' /\ Tabled(fresh)'
  BY <1>1, SamePlan DEF DumpInv
<1>5. DumpIsTyped'
  <2>1. Consistent(live)' /\ Schema' = Schema
    BY <1>1, SamePlan DEF DumpInv, DumpIsTyped
  <2>2. \A i, j \in DOMAIN order' : order'[i] = order'[j] => i = j
    BY <1>2
  <2>. QED BY <1>1, <2>1, <2>2 DEF DumpInv, DumpIsTyped
<1>6. OrderIsKept'
  <2>1. Stuck(edges)' = {} /\ order' \in Orders(edges)' /\ Number' = Number
    BY <1>1, SamePlan
  <2>2. todo' \in Seq(Tables) /\ Len(todo') = Number /\ Number \in 1..Number
    BY <1>1, <1>2, <1>3
  <2>3. \A i \in 1..Number : todo'[i] = order'[Number - Number + i]
    BY <1>1, <1>3
  <2>. QED BY <1>1, <2>1, <2>2, <2>3 DEF OrderIsKept
<1>7. DumpedIsLive'
  <2>1. Handled' = {}
    <3>1. Number' - Len(todo') = 0
      BY <1>1, <1>2, <1>3, SamePlan
    <3>. QED BY <3>1 DEF Handled
  <2>. QED BY <1>1, <2>1 DEF DumpInv, OrderIsKept, DumpedIsLive
<1>8. InsertedSoFar' /\ RestoreIsFaithful'
  BY <1>1, SamePlan DEF DumpInv, OrderIsKept, InsertedSoFar, RestoreIsFaithful
<1>. QED BY <1>4, <1>5, <1>6, <1>7, <1>8 DEF DumpInv

LEMMA DumpTableKeeps ==
  ASSUME DumpInv, DumpTable
  PROVE  DumpInv'
<1>. DEFINE h == Head(todo)
<1>1. /\ step = "dump" /\ file' = [file EXCEPT ![h] = live[h]]
      /\ todo' = IF Len(todo) > 1 THEN Tail(todo) ELSE order
      /\ step' = IF Len(todo) > 1 THEN "dump" ELSE "verify"
      /\ UNCHANGED <<edges, broken, order, live, damaged, fresh, writes, torn>>
  BY DEF DumpTable, planVars
<1>2. /\ h \in Tables /\ Len(todo) \in 1..Number
      /\ Len(todo) > 1 => /\ Tail(todo) \in Seq(Tables) /\ Len(Tail(todo)) \in 1..Number
                          /\ \A i \in 1..Len(Tail(todo)) :
                               Tail(todo)[i] = order[Number - Len(Tail(todo)) + i]
                          /\ {order[i] : i \in 1..(Number - Len(Tail(todo)))} = Handled \cup {h}
      /\ ~(Len(todo) > 1) => Tables \subseteq Handled \cup {h}
  BY <1>1, TodoIsTheRest
<1>. HIDE DEF h
<1>3. Tabled(live) /\ Tabled(file)
  BY DEF DumpInv
<1>4. Tabled(file') /\ \A t \in Tables : file'[t] = IF t = h THEN live[h] ELSE file[t]
  <2>1. DOMAIN live[h] \in SUBSET Ids /\ live[h] \in [DOMAIN live[h] -> Row(h)]
    BY <1>2, <1>3, TabledIsTyped
  <2>2. AreRows(h, live[h]) /\ Replaces(file', file, h, live[h])
    BY <1>1, <2>1 DEF AreRows, Replaces
  <2>. QED BY <1>2, <1>3, <2>2, TableReplaced
<1>5. Tabled(live)' /\ Tabled(file)' /\ Tabled(fresh)'
  <2>1. Tabled(file)'
    BY <1>1, <1>4, SamePlan DEF Tabled
  <2>. QED BY <1>1, <2>1, SamePlan DEF DumpInv
<1>6. DumpIsTyped'
  <2>1. Consistent(live)' /\ Schema' = Schema
    BY <1>1, SamePlan DEF DumpInv, DumpIsTyped
  <2>. QED BY <1>1, <2>1 DEF DumpInv, DumpIsTyped
<1>7. OrderIsKept'
  <2>1. /\ Stuck(edges)' = {} /\ order' \in Orders(edges)' /\ Number' = Number
        /\ Stuck(edges) = {} /\ order \in Orders(edges)
    BY <1>1, SamePlan DEF DumpInv, OrderIsKept
  <2>2. CASE Len(todo) > 1
    <3>1. todo' = Tail(todo) /\ step' = "dump"
      BY <1>1, <2>2
    <3>. QED BY <3>1, <2>1, <2>2, <1>1, <1>2 DEF OrderIsKept
  <2>3. CASE ~(Len(todo) > 1)
    <3>1. todo' = order /\ step' = "verify" /\ order' = order
      BY <1>1, <2>3
    <3>2. order \in Seq(Tables) /\ Len(order) = Number /\ Number \in 1..Number
      BY <2>1, OrdersAreComplete, NumberOfTables
    <3>3. \A i \in 1..Number : order[i] = order[Number - Number + i]
      BY NumberOfTables
    <3>. QED BY <3>1, <3>2, <3>3, <2>1 DEF OrderIsKept
  <2>. QED BY <2>2, <2>3
<1>8. DumpedIsLive'
  <2>1. ~damaged' /\ (torn' \/ \A t \in Handled \cup {h} : t \in Tables => file'[t] = live[t])
    BY <1>1, <1>4 DEF DumpInv, DumpedIsLive
  <2>2. CASE Len(todo) > 1
    <3>1. step' = "dump" /\ Handled' = Handled \cup {h}
      BY <1>1, <1>2, <2>2, SamePlan DEF Handled
    <3>2. Handled' \subseteq Tables
      <4>1. \A i \in 1..Number : order[i] \in Tables
        BY <1>1, OrdersAreComplete DEF DumpInv, OrderIsKept
      <4>2. Number - Len(todo) <= Number /\ Number - Len(todo) \in Int /\ Number \in Nat
        BY <1>2, NumberOfTables
      <4>3. Handled \subseteq Tables
        BY <4>1, <4>2 DEF Handled
      <4>. QED BY <3>1, <4>3, <1>2
    <3>. QED BY <3>1, <3>2, <2>1, <1>1 DEF DumpedIsLive
  <2>3. CASE ~(Len(todo) > 1)
    <3>1. step' = "verify" /\ \A t \in Tables : t \in Handled \cup {h}
      BY <1>1, <1>2, <2>3
    <3>2. torn' \/ file' = live
      BY <3>1, <2>1, <1>3, <1>4, SameTables
    <3>. QED BY <3>1, <3>2, <1>1 DEF DumpedIsLive
  <2>. QED BY <2>2, <2>3
<1>9. InsertedSoFar' /\ RestoreIsFaithful'
  BY <1>1, SamePlan DEF DumpInv, InsertedSoFar, RestoreIsFaithful
<1>. QED BY <1>5, <1>6, <1>7, <1>8, <1>9 DEF DumpInv

\* Steps that change no table.
LEMMA VerdictKeeps ==
  ASSUME DumpInv, Refuse \/ Damage \/ Verify
  PROVE  DumpInv'
<1>1. UNCHANGED <<edges, broken, order, live, file, fresh, todo, writes, torn>>
  BY DEF Refuse, Damage, Verify, planVars
<1>2. /\ \/ step = "break" /\ step' = "refused" /\ damaged' = damaged
         \/ step = "verify" /\ step' = "verify" /\ damaged' = TRUE
         \/ step = "verify" /\ step' = "insert" /\ damaged' = damaged /\ ~damaged
         \/ step = "verify" /\ step' = "corrupt" /\ damaged' = damaged
      /\ damaged' \in BOOLEAN
  BY DEF Refuse, Damage, Verify, Intact, DumpInv, DumpIsTyped
<1>3. Tabled(live)' /\ Tabled(file)' /\ Tabled(fresh)'
  BY <1>1, SamePlan DEF DumpInv
<1>4. DumpIsTyped'
  <2>1. Consistent(live)' /\ Schema' = Schema
    BY <1>1, SamePlan DEF DumpInv, DumpIsTyped
  <2>. QED BY <1>1, <1>2, <2>1 DEF DumpInv, DumpIsTyped
<1>5. OrderIsKept'
  BY <1>1, <1>2, SamePlan DEF DumpInv, OrderIsKept
<1>6. DumpedIsLive'
  BY <1>1, <1>2 DEF DumpInv, DumpedIsLive
<1>7. InsertedSoFar'
  <2>1. CASE step' = "insert"
    <3>1. todo = order /\ order \in Orders(edges)
      BY <1>2, <2>1 DEF DumpInv, OrderIsKept
    <3>2. Len(todo) = Number /\ Number \in Nat
      BY <3>1, OrdersAreComplete, NumberOfTables
    <3>3. Number' - Len(todo') = 0
      BY <3>2, <1>1, SamePlan
    <3>4. Handled' = {}
      BY <3>3 DEF Handled
    <3>. QED BY <2>1, <3>4 DEF InsertedSoFar
  <2>2. CASE step' # "insert"
    BY <2>2, <1>1, <1>2, SamePlan DEF DumpInv, InsertedSoFar
  <2>. QED BY <2>1, <2>2
<1>8. RestoreIsFaithful'
  BY <1>2 DEF RestoreIsFaithful
<1>. QED BY <1>3, <1>4, <1>5, <1>6, <1>7, <1>8 DEF DumpInv

LEMMA InsertTableKeeps ==
  ASSUME DumpInv, InsertTable
  PROVE  DumpInv'
<1>. DEFINE h == Head(todo)
            rs == Inserted(h)
            after == [fresh EXCEPT ![h] = rs]
            ok == \A e \in KeysOf(h) \cap edges : \A i \in DOMAIN after[h] :
                    after[h][i][e] \in DOMAIN after[e.on] \cup {0}
<1>1. /\ step = "insert" /\ todo' = Tail(todo)
      /\ fresh' = IF ok THEN after ELSE fresh
      /\ step' = IF ~ok THEN "failed" ELSE IF Len(todo) > 1 THEN "insert" ELSE "fix"
      /\ UNCHANGED <<edges, broken, order, live, file, damaged, writes, torn>>
  BY DEF InsertTable, planVars
<1>2. /\ h \in Tables /\ Len(todo) \in 1..Number
      /\ Len(todo) > 1 => /\ Tail(todo) \in Seq(Tables) /\ Len(Tail(todo)) \in 1..Number
                          /\ \A i \in 1..Len(Tail(todo)) :
                               Tail(todo)[i] = order[Number - Len(Tail(todo)) + i]
                          /\ {order[i] : i \in 1..(Number - Len(Tail(todo)))} = Handled \cup {h}
      /\ ~(Len(todo) > 1) => Tables \subseteq Handled \cup {h}
      /\ \A e \in edges : e.table = h => e.on \in Handled /\ e.on # h
  BY <1>1, TodoIsTheRest
<1>3. /\ Tabled(file) /\ Tabled(fresh) /\ ~damaged /\ (torn \/ file = live)
      /\ \A t \in Handled : fresh[t] = Inserted(t)
      /\ Stuck(edges) = {} /\ order \in Orders(edges)
  BY <1>1 DEF DumpInv, DumpedIsLive, InsertedSoFar, OrderIsKept
<1>4. /\ rs \in [DOMAIN file[h] -> Row(h)] /\ DOMAIN rs = DOMAIN file[h]
      /\ DOMAIN file[h] \in SUBSET Ids
      /\ \A i \in DOMAIN file[h] : \A e \in KeysOf(h) :
           rs[i][e] = IF e \in broken THEN 0 ELSE file[h][i][e]
  BY <1>2, <1>3, InsertedRows, TabledIsTyped
<1>. HIDE DEF h
<1>5. Tabled(after) /\ \A t \in Tables : after[t] = IF t = h THEN rs ELSE fresh[t]
  <2>1. AreRows(h, rs) /\ Replaces(after, fresh, h, rs)
    BY <1>4 DEF AreRows, Replaces
  <2>. HIDE DEF rs, after
  <2>. QED BY <1>2, <1>3, <2>1, TableReplaced
<1>. HIDE DEF after
<1>6. Handled \subseteq Tables
  <2>1. \A i \in 1..Number : order[i] \in Tables
    BY <1>3, OrdersAreComplete
  <2>2. Number - Len(todo) <= Number /\ Number - Len(todo) \in Int /\ Number \in Nat
    BY <1>2, NumberOfTables
  <2>. QED BY <2>1, <2>2 DEF Handled
<1>7. \A t \in Handled \cup {h} : after[t] = Inserted(t)
  BY <1>2, <1>3, <1>5, <1>6
<1>8. torn \/ ok
  <2>. SUFFICES ASSUME ~torn, NEW e \in KeysOf(h) \cap edges, NEW i \in DOMAIN after[h]
                PROVE  after[h][i][e] \in DOMAIN after[e.on] \cup {0}
    OBVIOUS
  <2>1. e \in Schema /\ e.table = h /\ e \notin broken /\ e.on \in Tables
    BY KeysAreOfTables DEF KeysOf, DumpInv, DumpIsTyped, Schema
  <2>2. after[h] = rs /\ i \in DOMAIN file[h]
    BY <1>2, <1>4, <1>5
  <2>3. after[h][i][e] = file[h][i][e]
    BY <1>4, <2>1, <2>2
  <2>4. DOMAIN after[e.on] = DOMAIN file[e.on]
    <3>1. after[e.on] = Inserted(e.on)
      BY <1>2, <1>7, <2>1
    <3>. QED BY <3>1, <2>1, InsertedRows
  <2>5. Consistent(file)
    BY <1>3 DEF DumpInv, DumpIsTyped
  <2>6. file[h][i][e] \in DOMAIN file[e.on] \cup {0}
    BY <2>1, <2>2, <2>5, RefersToRows
  <2>. QED BY <2>3, <2>4, <2>6
<1>. HIDE DEF ok
<1>9. Tabled(live)' /\ Tabled(file)' /\ Tabled(fresh)'
  <2>1. Tabled(fresh')
    BY <1>1, <1>3, <1>5
  <2>2. Tabled(fresh)'
    BY <1>1, <2>1, SamePlan DEF Tabled
  <2>. QED BY <1>1, <2>2, SamePlan DEF DumpInv
<1>10. DumpIsTyped'
  <2>1. Consistent(live)' /\ Schema' = Schema
    BY <1>1, SamePlan DEF DumpInv, DumpIsTyped
  <2>2. step' \in {"insert", "fix", "failed"}
    BY <1>1
  <2>. QED BY <1>1, <2>1, <2>2 DEF DumpInv, DumpIsTyped
<1>11. OrderIsKept'
  <2>1. Stuck(edges)' = {} /\ order' \in Orders(edges)' /\ Number' = Number
    BY <1>1, <1>3, SamePlan
  <2>2. step' \in {"insert", "fix", "failed"} /\ (step' = "insert" => Len(todo) > 1)
    BY <1>1
  <2>. QED BY <2>1, <2>2, <1>1, <1>2 DEF OrderIsKept
<1>12. DumpedIsLive'
  BY <1>1, <1>3 DEF DumpedIsLive
<1>13. InsertedSoFar'
  <2>1. \A t : Inserted(t)' = Inserted(t)
    BY <1>1, SamePlan
  <2>2. CASE step' = "insert"
    <3>1. ok /\ Len(todo) > 1 /\ fresh' = after
      BY <2>2, <1>1
    <3>2. Handled' = Handled \cup {h}
      BY <3>1, <1>1, <1>2, SamePlan DEF Handled
    <3>. QED BY <2>1, <2>2, <3>1, <3>2, <1>7 DEF InsertedSoFar
  <2>3. CASE step' = "fix"
    <3>1. ok /\ ~(Len(todo) > 1) /\ fresh' = after
      BY <2>3, <1>1
    <3>. QED BY <2>1, <2>3, <3>1, <1>2, <1>7 DEF InsertedSoFar
  <2>4. CASE step' = "failed"
    BY <2>4 DEF InsertedSoFar
  <2>. QED BY <2>2, <2>3, <2>4, <1>1
<1>14. RestoreIsFaithful'
  BY <1>1, <1>8 DEF RestoreIsFaithful
<1>. QED BY <1>9, <1>10, <1>11, <1>12, <1>13, <1>14 DEF DumpInv

LEMMA FixUpKeeps ==
  ASSUME DumpInv, FixUp
  PROVE  DumpInv'
<1>. DEFINE after == [t \in Tables |-> FixedUp(t)]
            ok == \A e \in broken : \A i \in DOMAIN after[e.table] :
                    after[e.table][i][e] \in DOMAIN after[e.on] \cup {0}
<1>1. /\ step = "fix" /\ fresh' = IF ok THEN after ELSE fresh
      /\ step' = IF ok THEN "restored" ELSE "failed"
      /\ UNCHANGED <<edges, broken, order, live, file, damaged, todo, writes, torn>>
  BY DEF FixUp, planVars
<1>2. /\ Tabled(file) /\ Tabled(fresh) /\ ~damaged /\ (torn \/ file = live)
      /\ Stuck(edges) = {} /\ order \in Orders(edges)
  BY <1>1 DEF DumpInv, DumpedIsLive, OrderIsKept
<1>3. after = file
  <2>1. file = [t \in Tables |-> file[t]]
    BY <1>2 DEF Tabled
  <2>2. \A t \in Tables : FixedUp(t) = file[t]
    BY <1>1, FixedUpRows
  <2>. QED BY <2>1, <2>2
<1>. HIDE DEF after
<1>4. torn \/ ok
  <2>. SUFFICES ASSUME ~torn, NEW e \in broken, NEW i \in DOMAIN after[e.table]
                PROVE  after[e.table][i][e] \in DOMAIN after[e.on] \cup {0}
    OBVIOUS
  <2>1. e \in Schema /\ Consistent(file)
    BY <1>2 DEF Schema, DumpInv, DumpIsTyped
  <2>. QED BY <2>1, <1>3, RefersToRows
<1>. HIDE DEF ok
<1>5. Tabled(live)' /\ Tabled(file)' /\ Tabled(fresh)'
  <2>1. Tabled(fresh')
    BY <1>1, <1>2, <1>3
  <2>2. Tabled(fresh)'
    BY <1>1, <2>1, SamePlan DEF Tabled
  <2>. QED BY <1>1, <2>2, SamePlan DEF DumpInv
<1>6. DumpIsTyped'
  <2>1. Consistent(live)' /\ Schema' = Schema
    BY <1>1, SamePlan DEF DumpInv, DumpIsTyped
  <2>2. step' \in {"restored", "failed"}
    BY <1>1
  <2>. QED BY <1>1, <2>1, <2>2 DEF DumpInv, DumpIsTyped
<1>7. OrderIsKept'
  BY <1>1, <1>2, SamePlan DEF OrderIsKept
<1>8. DumpedIsLive' /\ InsertedSoFar'
  BY <1>1, <1>2 DEF DumpedIsLive, InsertedSoFar
<1>9. RestoreIsFaithful'
  BY <1>1, <1>2, <1>3, <1>4 DEF RestoreIsFaithful
<1>. QED BY <1>5, <1>6, <1>7, <1>8, <1>9 DEF DumpInv

LEMMA AppWriteKeeps ==
  ASSUME DumpInv, NEW t \in Tables, NEW i \in Ids, AppWrite(t, i)
  PROVE  DumpInv'
<1>1. /\ step = "dump" /\ writes < MaxWrites /\ writes' = writes + 1
      /\ torn' = (torn \/ todo # order) /\ Consistent(live')
      /\ UNCHANGED <<edges, broken, order, file, damaged, fresh, todo, step>>
  BY DEF AppWrite, planVars
<1>2. Tabled(live) /\ live[t] \in [DOMAIN live[t] -> Row(t)] /\ DOMAIN live[t] \in SUBSET Ids
  BY TabledIsTyped DEF DumpInv
<1>3. \E rs : AreRows(t, rs) /\ Replaces(live', live, t, rs)
  <2>1. CASE \E r \in [KeysOf(t) -> Ids \cup {0}] :
               live' = [live EXCEPT ![t] = [j \in DOMAIN @ \cup {i} |-> IF j = i THEN r ELSE @[j]]]
    <3>1. PICK r \in Row(t) :
            live' = [live EXCEPT ![t] = [j \in DOMAIN live[t] \cup {i} |-> IF j = i THEN r ELSE live[t][j]]]
      BY <2>1 DEF Row
    <3>. DEFINE rs == [j \in DOMAIN live[t] \cup {i} |-> IF j = i THEN r ELSE live[t][j]]
    <3>2. rs \in [DOMAIN live[t] \cup {i} -> Row(t)] /\ DOMAIN live[t] \cup {i} \in SUBSET Ids
      BY <1>2
    <3>3. AreRows(t, rs)
      BY <3>2 DEF AreRows
    <3>. QED BY <3>1, <3>3 DEF Replaces
  <2>2. CASE live' = [live EXCEPT ![t] = [j \in DOMAIN @ \ {i} |-> @[j]]]
    <3>. DEFINE rs == [j \in DOMAIN live[t] \ {i} |-> live[t][j]]
    <3>1. rs \in [DOMAIN live[t] \ {i} -> Row(t)] /\ DOMAIN live[t] \ {i} \in SUBSET Ids
      BY <1>2
    <3>2. AreRows(t, rs)
      BY <3>1 DEF AreRows
    <3>. QED BY <2>2, <3>2 DEF Replaces
  <2>. QED BY <2>1, <2>2 DEF AppWrite
<1>4. Tabled(live')
  <2>1. PICK rs : AreRows(t, rs) /\ Replaces(live', live, t, rs)
    BY <1>3
  <2>. QED BY <2>1, <1>2, TableReplaced
<1>5. Tabled(live)' /\ Tabled(file)' /\ Tabled(fresh)'
  <2>1. Tabled(live)'
    BY <1>1, <1>4, SamePlan DEF Tabled
  <2>. QED BY <1>1, <2>1, SamePlan DEF DumpInv
<1>6. DumpIsTyped'
  <2>1. Schema' = Schema
    BY <1>1, SamePlan
  <2>2. Consistent(live)'
    BY <2>1, <1>1 DEF Consistent
  <2>3. writes' \in 0..MaxWrites
    BY <1>1, DumpAssumption DEF DumpInv, DumpIsTyped
  <2>4. torn' \in BOOLEAN
    BY <1>1
  <2>. QED BY <1>1, <2>1, <2>2, <2>3, <2>4 DEF DumpInv, DumpIsTyped
<1>7. OrderIsKept'
  BY <1>1, SamePlan DEF DumpInv, OrderIsKept
<1>8. DumpedIsLive'
  <2>1. CASE torn'
    BY <2>1, <1>1 DEF DumpInv, DumpedIsLive
  <2>2. CASE ~torn'
    <3>1. todo = order /\ order \in Orders(edges)
      BY <2>2, <1>1 DEF DumpInv, OrderIsKept
    <3>2. Len(todo) = Number /\ Number \in Nat
      BY <3>1, OrdersAreComplete, NumberOfTables
    <3>3. Number' - Len(todo') = 0
      BY <3>2, <1>1, SamePlan
    <3>4. Handled' = {}
      BY <3>3 DEF Handled
    <3>. QED BY <3>4, <1>1 DEF DumpInv, DumpedIsLive
  <2>. QED BY <2>1, <2>2
<1>9. InsertedSoFar' /\ RestoreIsFaithful'
  BY <1>1, SamePlan DEF DumpInv, InsertedSoFar, RestoreIsFaithful
<1>. QED BY <1>5, <1>6, <1>7, <1>8, <1>9 DEF DumpInv

LEMMA DumpStutters ==
  DumpInv /\ UNCHANGED dumpVars => DumpInv'
<1>. SUFFICES ASSUME DumpInv, UNCHANGED dumpVars PROVE DumpInv'
  OBVIOUS
<1>1. UNCHANGED <<edges, broken, order, live, file, damaged, fresh, todo, step, writes, torn>>
  BY DEF dumpVars, planVars
<1>2. Tabled(live)' /\ Tabled(file)' /\ Tabled(fresh)'
  BY <1>1, SamePlan DEF DumpInv
<1>3. DumpIsTyped'
  <2>1. Consistent(live)' /\ Schema' = Schema
    BY <1>1, SamePlan DEF DumpInv, DumpIsTyped
  <2>. QED BY <1>1, <2>1 DEF DumpInv, DumpIsTyped
<1>4. OrderIsKept'
  BY <1>1, SamePlan DEF DumpInv, OrderIsKept
<1>5. Handled' = Handled
  BY <1>1, SamePlan DEF Handled
<1>6. DumpedIsLive' /\ InsertedSoFar' /\ RestoreIsFaithful'
  BY <1>1, <1>5, SamePlan DEF DumpInv, DumpedIsLive, InsertedSoFar, RestoreIsFaithful
<1>. QED BY <1>2, <1>3, <1>4, <1>6 DEF DumpInv

LEMMA DumpInitHolds ==
  DumpInit => DumpInv
<1>. SUFFICES ASSUME DumpInit PROVE DumpInv
  OBVIOUS
<1>1. /\ edges \in Schemas /\ broken = {} /\ order = << >>
      /\ live = Empty /\ file = Empty /\ fresh = Empty
      /\ damaged = FALSE /\ todo = << >> /\ step = "break" /\ writes = 0 /\ torn = FALSE
  BY DEF DumpInit
<1>2. Tabled(live) /\ Tabled(file) /\ Tabled(fresh)
  BY <1>1, EmptyIsTabled
<1>3. DumpIsTyped
  <2>1. Schema \in Schemas
    BY <1>1 DEF Schema
  <2>2. Consistent(live)
    <3>1. \A e \in Schema : e.table \in Tables
      BY <2>1, DumpAssumption
    <3>2. \A t \in Tables : DOMAIN live[t] = {}
      BY <1>1 DEF Empty
    <3>. QED BY <3>1, <3>2 DEF Consistent
  <2>3. 0 \in 0..MaxWrites
    BY DumpAssumption
  <2>4. DOMAIN order = {}
    BY <1>1
  <2>5. edges \cap broken = {} /\ (\A e \in broken : e.nullable) /\ torn \in BOOLEAN /\ damaged \in BOOLEAN
    BY <1>1
  <2>. QED BY <1>1, <2>1, <2>2, <2>3, <2>4, <2>5 DEF DumpIsTyped
<1>4. OrderIsKept /\ DumpedIsLive /\ InsertedSoFar /\ RestoreIsFaithful
  BY <1>1 DEF OrderIsKept, DumpedIsLive, InsertedSoFar, RestoreIsFaithful
<1>. QED BY <1>2, <1>3, <1>4 DEF DumpInv

LEMMA DumpStepKeeps ==
  DumpInv /\ DumpStep => DumpInv'
BY BreakKeyKeeps, VerdictKeeps, SortKeeps, DumpTableKeeps, InsertTableKeeps, FixUpKeeps,
   AppWriteKeeps DEF DumpStep

(***************************************************************************)
(* The upkeep as a whole.                                                  *)
(***************************************************************************)

UpkeepInv == DumpInv /\ RunInv /\ PurgeInv

LEMMA UpkeepStarts ==
  UpkeepInit => UpkeepInv
BY DumpInitHolds, RunInitHolds, PurgeInitHolds DEF UpkeepInit, UpkeepInv

LEMMA UpkeepStepKeeps ==
  UpkeepInv /\ [UpkeepNext]_upkeepVars => UpkeepInv'
<1>1. [UpkeepNext]_upkeepVars =>
        /\ DumpStep \/ UNCHANGED dumpVars
        /\ RunStep \/ UNCHANGED runVars
        /\ RowStep \/ UNCHANGED purgeVars
  BY DEF UpkeepNext, upkeepVars, RowStep, purgeVars, retentionVars
<1>. QED BY <1>1, DumpStepKeeps, DumpStutters, RunStepKeeps, RunStutters, RowStepKeeps, RowsStutter
     DEF UpkeepInv

LEMMA UpkeepKeepsLeads ==
  UpkeepInv /\ [UpkeepNext]_upkeepVars => LeadsKept /\ DealsKept
<1>1. [UpkeepNext]_upkeepVars => RowStep \/ UNCHANGED purgeVars
  BY DEF UpkeepNext, upkeepVars, RowStep, purgeVars, retentionVars
<1>. QED BY <1>1, RowStepKeepsLeads DEF UpkeepInv

LEMMA UpkeepAlways == UpkeepSpec => []UpkeepInv
BY UpkeepStarts, UpkeepStepKeeps, PTL DEF UpkeepSpec

\* Every variable of the dump, the backup runs, the CRM and the purges has its type: the
\* live database stays consistent, a lead has a contact that was not purged, and what is
\* expired is deleted.
THEOREM UpkeepIsTyped == UpkeepSpec => []UpkeepTypeOK
<1>1. UpkeepInv => UpkeepTypeOK
  BY DumpTyped DEF UpkeepInv, RunInv, PurgeInv, UpkeepTypeOK
<1>. QED BY <1>1, UpkeepAlways, PTL

\* Whatever the schema, its cycles and the size of its tables: a dump no write fell into
\* restores to exactly the live rows, and a damaged one is seen (backup-core.ts); pruning
\* leaves the newest backups whatever runs overlap, fail or die, unless a late result
\* overwrote a success (backup.service.ts).
THEOREM BackupsAlwaysHold == UpkeepSpec => []BackupsHold
<1>1. UpkeepInv => BackupsHold
  BY BackupsAreKept DEF UpkeepInv, DumpInv, BackupsHold, RunInv
<1>. QED BY <1>1, UpkeepAlways, PTL

\* However many purges and requests overlap, fail or crash: each purged row has one audit
\* entry; only expired rows go, but for a member who came back after the purge's select; no
\* purge takes a lead; and a deal that is won stays won, but for an update that read the
\* lead before (data-retention.service.ts, crm.service.ts).
THEOREM RowsAlwaysKept == UpkeepSpec => RowsAreKept
<1>1. UpkeepInv => PurgedAuditedOnce /\ OnlyExpiredPurged
  BY DEF UpkeepInv, PurgeInv
<1>2. UpkeepInv /\ [UpkeepNext]_upkeepVars =>
        [\A l \in Leads : leadOf[l] # NoContact => leadOf'[l] = leadOf[l]]_purgeVars
  BY UpkeepKeepsLeads DEF LeadsKept
<1>3. UpkeepInv /\ [UpkeepNext]_upkeepVars =>
        [\A l \in Leads : leadStatus[l] = "WON" => leadStatus'[l] = "WON" \/ l \in overtaken']_crmVars
  BY UpkeepKeepsLeads DEF DealsKept
<1>4. UpkeepSpec => [](PurgedAuditedOnce /\ OnlyExpiredPurged)
  BY <1>1, UpkeepAlways, PTL
<1>5. UpkeepSpec => NoLeadIsPurged
  BY <1>2, UpkeepAlways, PTL DEF UpkeepSpec, NoLeadIsPurged
<1>6. UpkeepSpec => WonStaysWon
  BY <1>3, UpkeepAlways, PTL DEF UpkeepSpec, WonStaysWon
<1>. QED BY <1>4, <1>5, <1>6, PTL DEF RowsAreKept
===============================================================================
