----------------------------- MODULE SchedulerTick -----------------------------
(***************************************************************************)
(* The scheduler tick and the operations on schedules it races with          *)
(* (src/backend/src/modules/scheduler/scheduler-tick.service.ts and           *)
(* scheduled-workflow.service.ts). Several processes run tickScheduler at      *)
(* once; each database statement of it is an action.                         *)
(*                                                                         *)
(* Instants are natural numbers. Jobs are the rows that enqueueJob creates,   *)
(* one per dedupe key; what the queue does with them is in JobQueue.          *)
(***************************************************************************)
EXTENDS Integers, FiniteSets

CONSTANTS
  Schedules, Tickers, Editors,  \* ScheduledWorkflow rows, scheduler processes, requests
  Anchored,     \* schedules at wall-clock slots (DAY, WEEK, MONTH); the others count
                \* their interval from the previous occurrence (MINUTE, HOUR)
  Period,       \* the interval
  None,         \* nothing in hand
  MaxTime,      \* bound: the last instant
  MaxEdits,     \* bound: enable and disable requests
  MaxCrashes    \* bound: crashes of scheduler processes

ASSUME SchedulerAssumption ==
  /\ Anchored \subseteq Schedules
  /\ Period \in Nat \ {0} /\ MaxTime \in Nat /\ MaxEdits \in Nat /\ MaxCrashes \in Nat

VARIABLES
  now,
  enabled, nextRun,     \* the ScheduledWorkflow table; nextRun = -1: not created
  jobs,                 \* the jobs enqueued
  claimed,              \* history: the occurrences whose claim succeeded
  due, at, cur,         \* each tick: rows left to claim, its `now`, claim to enqueue
  edit,                 \* each request: the update it is about to write
  edits, crashes        \* spent from the bounds

table == <<enabled, nextRun>>
tickVars == <<due, at, cur>>
vars == <<now, table, jobs, claimed, tickVars, edit, edits, crashes>>

Instants == 0..(MaxTime + Period)
Runs == [schedule : Schedules, occurrence : Instants, at : 0..MaxTime]
Edits == [schedule : Schedules, enabled : BOOLEAN, nextRun : Instants]

ASSUME NoneAssumption == None \notin Runs

\* Type invariant: the tables, each tick and each request under way.
TypeOK ==
  /\ now \in 0..MaxTime
  /\ enabled \in [Schedules -> BOOLEAN]
  /\ nextRun \in [Schedules -> Instants \cup {-1}]
  /\ jobs \subseteq Runs /\ claimed \subseteq Runs
  /\ due \in [Tickers -> SUBSET (Schedules \X Instants)]
  /\ at \in [Tickers -> 0..MaxTime]
  /\ cur \in [Tickers -> Runs \cup {None}]
  /\ edit \in [Editors -> Edits \cup {None}]
  /\ edits \in 0..MaxEdits /\ crashes \in 0..MaxCrashes

Init ==
  /\ now = 0
  /\ enabled = [s \in Schedules |-> FALSE]
  /\ nextRun = [s \in Schedules |-> -1]
  /\ jobs = {} /\ claimed = {}
  /\ due = [p \in Tickers |-> {}]
  /\ at = [p \in Tickers |-> 0]
  /\ cur = [p \in Tickers |-> None]
  /\ edit = [e \in Editors |-> None]
  /\ edits = 0 /\ crashes = 0

-------------------------------------------------------------------------------
NextSlot(t) == ((t \div Period) + 1) * Period

\* computeNextRunAt: the next occurrence strictly after t.
NextRunAt(s, t) == IF s \in Anchored THEN NextSlot(t) ELSE t + Period

\* Faulty variants: no catching up, or a slot too far; a claim that hits every
\* row, or none; a key without the schedule, or a fresh one for every claim.
NoCatchUp(s, o, t) == NextRunAt(s, o)
OneSlotTooFar(s, o, t) == o + Period * (((t - o) \div Period) + 2)
ClaimAnyRow(s, o) == TRUE
ClaimNoRow(s, o) == nextRun[s] > o
KeyWithoutSchedule(r, q) == r.occurrence = q.occurrence
KeyPerClaim(r, q) == r = q

\* tickScheduler's loop: from occurrence o, the first one after the tick's now.
CatchUp(s, o, t) ==
  IF s \in Anchored THEN NextSlot(t) ELSE o + Period * (((t - o) \div Period) + 1)

\* The WHERE clause of the claim: nextRunAt is still the one that was read.
ClaimHits(s, o) == nextRun[s] = o

\* Equal (jobKey, dedupeKey): the schedule and the occurrence.
SameKey(r, q) == r.schedule = q.schedule /\ r.occurrence = q.occurrence

-------------------------------------------------------------------------------
\* createScheduledWorkflow.
Create(s) ==
  /\ nextRun[s] = -1
  /\ nextRun' = [nextRun EXCEPT ![s] = NextRunAt(s, now)]
  /\ enabled' = [enabled EXCEPT ![s] = TRUE]
  /\ UNCHANGED <<now, jobs, claimed, tickVars, edit, edits, crashes>>

\* setScheduledWorkflowEnabled: read the row; enabling re-anchors to the
\* present, disabling keeps the nextRunAt just read ...
EditRead(e) ==
  /\ edit[e] = None /\ edits < MaxEdits
  /\ edits' = edits + 1
  /\ \E s \in Schedules, on \in BOOLEAN :
       /\ nextRun[s] # -1
       /\ edit' = [edit EXCEPT ![e] = [schedule |-> s, enabled |-> on,
            nextRun |-> IF on THEN NextRunAt(s, now) ELSE nextRun[s]]]
  /\ UNCHANGED <<now, table, jobs, claimed, tickVars, crashes>>

\* ... and write both columns, whatever happened in between.
EditWrite(e) ==
  /\ edit[e] # None
  /\ enabled' = [enabled EXCEPT ![edit[e].schedule] = edit[e].enabled]
  /\ nextRun' = [nextRun EXCEPT ![edit[e].schedule] = edit[e].nextRun]
  /\ edit' = [edit EXCEPT ![e] = None]
  /\ UNCHANGED <<now, jobs, claimed, tickVars, edits, crashes>>

\* tickScheduler: capture `now`, read the enabled rows due.
TickRead(p) ==
  /\ due[p] = {} /\ cur[p] = None
  /\ \E s \in Schedules : enabled[s] /\ nextRun[s] <= now
  /\ due' = [due EXCEPT ![p] =
       {<<s, nextRun[s]>> : s \in {r \in Schedules : enabled[r] /\ nextRun[r] <= now}}]
  /\ at' = [at EXCEPT ![p] = now]
  /\ UNCHANGED <<now, table, jobs, claimed, cur, edit, edits, crashes>>

\* The next row by nextRunAt: claim its occurrence by moving nextRunAt on. A
\* lost claim skips the row. The row's `enabled` is not looked at again.
TickClaim(p) ==
  /\ cur[p] = None
  /\ \E d \in due[p] :
       LET s == d[1]
           o == d[2]
           run == [schedule |-> s, occurrence |-> o, at |-> at[p]] IN
       /\ \A q \in due[p] : o <= q[2]
       /\ due' = [due EXCEPT ![p] = @ \ {d}]
       /\ IF ClaimHits(s, o)
          THEN /\ nextRun' = [nextRun EXCEPT ![s] = CatchUp(s, o, at[p])]
               /\ claimed' = claimed \cup {run}
               /\ cur' = [cur EXCEPT ![p] = run]
          ELSE UNCHANGED <<nextRun, claimed, cur>>
  /\ UNCHANGED <<now, enabled, jobs, at, edit, edits, crashes>>

\* enqueueJob for the claimed occurrence; a key already taken creates nothing.
TickEnqueue(p) ==
  /\ cur[p] # None
  /\ jobs' = IF \E r \in jobs : SameKey(r, cur[p]) THEN jobs ELSE jobs \cup {cur[p]}
  /\ cur' = [cur EXCEPT ![p] = None]
  /\ UNCHANGED <<now, table, claimed, due, at, edit, edits, crashes>>

\* The process dies, or a statement of its tick rejects; it ticks again later.
Crash(p) ==
  /\ due[p] # {} \/ cur[p] # None
  /\ crashes < MaxCrashes
  /\ crashes' = crashes + 1
  /\ due' = [due EXCEPT ![p] = {}]
  /\ cur' = [cur EXCEPT ![p] = None]
  /\ UNCHANGED <<now, table, jobs, claimed, at, edit, edits>>

Tick ==
  /\ now < MaxTime
  /\ now' = now + 1
  /\ UNCHANGED <<table, jobs, claimed, tickVars, edit, edits, crashes>>

TickStep(p) == TickRead(p) \/ TickClaim(p) \/ TickEnqueue(p)

Next ==
  \/ \E s \in Schedules : Create(s)
  \/ \E e \in Editors : EditRead(e) \/ EditWrite(e)
  \/ \E p \in Tickers : TickStep(p) \/ Crash(p)
  \/ Tick

Spec == Init /\ [][Next]_vars

\* Scheduler processes keep ticking; nothing else is owed.
FairSpec == Spec /\ \A p \in Tickers : WF_vars(TickStep(p))

-------------------------------------------------------------------------------
\* The second of the two layers of the header (scheduler-tick.service.ts,
\* lines 18-26): an occurrence gives at most one job, even when a stale disable
\* puts an old nextRunAt back under a tick that has already read it.
NoDuplicateRun == \A r, q \in jobs :
  (r.schedule = q.schedule /\ r.occurrence = q.occurrence) => r = q

\* The first layer alone: as long as nobody edits schedules, no occurrence is
\* claimed twice by contending scheduler processes.
NoDuplicateClaim == edits = 0 => \A r, q \in claimed :
  (r.schedule = q.schedule /\ r.occurrence = q.occurrence) => r.at = q.at

\* Claimed occurrences without a job that no tick is about to enqueue.
Lost == {r \in claimed :
  /\ ~ \E q \in jobs : q.schedule = r.schedule /\ q.occurrence = r.occurrence
  /\ \A p \in Tickers : cur[p] # r}

\* Only a crash between claim and enqueueJob loses an occurrence, and a crash
\* loses no more than one, although a tick claims many (tickScheduler's loop
\* enqueues each before it claims the next).
LostOnlyToCrashes == Cardinality(Lost) <= crashes

\* "Turns each due occurrence into exactly one real Job" (lines 9-10): every
\* claimed occurrence has its job, or its tick is about to enqueue it.
ClaimsBecomeJobs == Lost = {}

\* After downtime a schedule fires once for its whole backlog (lines 90-95):
\* no later occurrence fires that was already due when an earlier one was
\* claimed, whichever process claims them.
OneRunPerBacklog == edits = 0 => \A r, q \in claimed :
  (r.schedule = q.schedule /\ r.occurrence < q.occurrence) => q.occurrence > r.at

\* An occurrence fires once or, if a crash takes it, not at all, and a backlog counts as
\* one, however many scheduler processes contend for it.
FiredOnce == NoDuplicateRun /\ NoDuplicateClaim /\ LostOnlyToCrashes /\ OneRunPerBacklog

\* A test says that a tick never picks up a disabled schedule
\* (scheduler-tick.integration.test.ts, line 164): no claim hits a disabled row.
DisabledNeverFires ==
  [][\A r \in claimed' \ claimed : enabled[r.schedule]]_vars

\* A due schedule fires, or is disabled, or is moved on by a request.
DueFires == \A s \in Schedules :
  (enabled[s] /\ nextRun[s] <= now) ~> (~enabled[s] \/ nextRun[s] > now)
===============================================================================
