------------------------------ MODULE Maintenance ------------------------------
(***************************************************************************)
(* The scheduler processes and one maintenance schedule, the daily backup  *)
(* or the weekly purge (src/backend/src/scripts/run-scheduler.ts, modules/ *)
(* backup/backup-scheduler.service.ts, and data-retention/data-retention-  *)
(* scheduler.service.ts). Each process makes the schedule if there is      *)
(* none, then for ever claims what is due, enqueues it under the date, and *)
(* drains the queue. What a job does is in BackupRuns and DataRetention.   *)
(***************************************************************************)
EXTENDS Integers, FiniteSets

CONSTANTS
  Machines,    \* processes of run-scheduler
  DayLength,   \* instants in a day
  HourOfDay,   \* BACKUP_SCHEDULE_TIME, DATA_RETENTION_SCHEDULE_TIME
  Interval,    \* days between runs: 1 or 7
  MaxDrain,    \* jobs of the key drained in a round: 5
  MaxInstant,  \* bound: the last instant
  MaxDeaths    \* bound: processes that die

ASSUME MaintenanceAssumption ==
  /\ DayLength \in Nat \ {0} /\ HourOfDay \in 0..(DayLength - 1)
  /\ Interval \in Nat \ {0} /\ MaxDrain \in Nat \ {0} /\ MaxInstant \in Nat /\ MaxDeaths \in Nat

VARIABLES
  clock,
  nextDue,    \* nextRunAt of the schedule, NoRow before it is created
  job,        \* each date: "none", or its job is "queued", "held" or "done"
  machine,    \* each process: what it does next, the occurrence or date it is at, the
              \* instant its tick began, and how many jobs it drained in this round
  deaths,
  fired       \* history: claims that hit, [occ, at]

maintenanceVars == <<clock, nextDue, job, machine, deaths, fired>>

NoRow == -1
LastSlot == MaxInstant + Interval * DayLength + DayLength
Slots == 0..LastSlot
Dates == 0..(LastSlot \div DayLength)
DateOf(t) == t \div DayLength
Down == [do |-> "down", occ |-> 0, at |-> 0, drained |-> 0]

\* Type invariant; a job is held by one process that runs it.
MaintenanceTypeOK ==
  /\ clock \in 0..MaxInstant
  /\ nextDue \in Slots \cup {NoRow}
  /\ job \in [Dates -> {"none", "queued", "held", "done"}]
  /\ machine \in [Machines -> [do : {"down", "create", "tick", "claim", "enqueue", "drain", "run"},
                               occ : Slots, at : 0..MaxInstant, drained : 0..MaxDrain]]
  /\ \A d \in Dates : job[d] = "held" =>
       Cardinality({p \in Machines : machine[p].do = "run" /\ machine[p].occ = d}) = 1
  /\ deaths \in 0..MaxDeaths /\ fired \subseteq [occ : Slots, at : 0..MaxInstant]

MaintenanceInit ==
  /\ clock = 0 /\ nextDue = NoRow
  /\ job = [d \in Dates |-> "none"]
  /\ machine = [p \in Machines |-> Down]
  /\ deaths = 0 /\ fired = {}

-------------------------------------------------------------------------------
\* Faulty variants: the claim not compared with what was read; no catching up; a key of the
\* instant of the claim; a drain that stops at the first job.
HitsAnyRow(o) == TRUE
NoCatchingUp(o, t) == o + Interval * DayLength
DatedByClaim(o, t) == DateOf(t)

\* ensureDefault: today at the hour, or tomorrow.
FirstDue(t) ==
  LET today == DateOf(t) * DayLength + HourOfDay IN
  IF today <= t THEN today + DayLength ELSE today

\* The tick's loop: from the occurrence on by whole intervals, until after the tick's now.
NextDue(o, t) == o + Interval * DayLength * (((t - o) \div (Interval * DayLength)) + 1)

\* updateMany where nextRunAt is still the one read.
ClaimsRow(o) == nextDue = o

\* The date of the dedupeKey: of the occurrence, whatever the time is.
KeyDate(o, t) == DateOf(o)

At(p, do) == machine[p].do = do
Moves(p, do) == machine' = [machine EXCEPT ![p].do = do]
Drains(p) == machine' = [machine EXCEPT ![p].do = "drain", ![p].drained = 0]

-------------------------------------------------------------------------------
\* main: the schedule is looked for ...
Boot(p) ==
  /\ At(p, "down")
  /\ machine' = [machine EXCEPT ![p] =
       [Down EXCEPT !.do = IF nextDue = NoRow THEN "create" ELSE "tick", !.at = clock]]
  /\ UNCHANGED <<clock, nextDue, job, deaths, fired>>

\* ... and created. The name is unique: a process that finds another has created it
\* meanwhile rejects, and main's catch exits.
CreateSchedule(p) ==
  /\ At(p, "create")
  /\ IF nextDue = NoRow THEN nextDue' = FirstDue(machine[p].at) /\ Moves(p, "tick")
     ELSE UNCHANGED nextDue /\ Moves(p, "down")
  /\ UNCHANGED <<clock, job, deaths, fired>>

\* runOnce: tickBackupScheduler or tickRetentionScheduler reads what is due ...
ReadDue(p) ==
  /\ At(p, "tick")
  /\ IF nextDue <= clock
     THEN machine' = [machine EXCEPT ![p] =
            [do |-> "claim", occ |-> nextDue, at |-> clock, drained |-> 0]]
     ELSE Drains(p)
  /\ UNCHANGED <<clock, nextDue, job, deaths, fired>>

\* ... claims it by moving nextRunAt on ...
ClaimDue(p) ==
  /\ At(p, "claim")
  /\ LET o == machine[p].occ t == machine[p].at IN
     IF ClaimsRow(o)
     THEN /\ nextDue' = NextDue(o, t) /\ fired' = fired \cup {[occ |-> o, at |-> t]}
          /\ Moves(p, "enqueue")
     ELSE UNCHANGED <<nextDue, fired>> /\ Drains(p)
  /\ UNCHANGED <<clock, job, deaths>>

\* ... and enqueues one job a date.
EnqueueDue(p) ==
  /\ At(p, "enqueue")
  /\ LET d == KeyDate(machine[p].occ, machine[p].at) IN
     job' = IF job[d] = "none" THEN [job EXCEPT ![d] = "queued"] ELSE job
  /\ Drains(p)
  /\ UNCHANGED <<clock, nextDue, deaths, fired>>

\* The drain: at most MaxDrain jobs, one after the other; then the next tick.
TakeDue(p) ==
  /\ At(p, "drain") /\ machine[p].drained < MaxDrain
  /\ \E d \in Dates :
       /\ job[d] = "queued"
       /\ job' = [job EXCEPT ![d] = "held"]
       /\ machine' = [machine EXCEPT ![p].do = "run", ![p].occ = d]
  /\ UNCHANGED <<clock, nextDue, deaths, fired>>

RunDue(p) ==
  /\ At(p, "run")
  /\ job' = [job EXCEPT ![machine[p].occ] = "done"]
  /\ machine' = [machine EXCEPT ![p].do = "drain", ![p].drained = @ + 1]
  /\ UNCHANGED <<clock, nextDue, deaths, fired>>

DrainEnds(p) ==
  /\ At(p, "drain")
  /\ machine[p].drained = MaxDrain \/ \A d \in Dates : job[d] # "queued"
  /\ Moves(p, "tick")
  /\ UNCHANGED <<clock, nextDue, job, deaths, fired>>

\* The process is killed, or a statement rejects and main's catch exits; the lease of the
\* job it holds runs out.
Die(p) ==
  /\ ~At(p, "down") /\ deaths < MaxDeaths
  /\ deaths' = deaths + 1
  /\ job' = IF At(p, "run") THEN [job EXCEPT ![machine[p].occ] = "queued"] ELSE job
  /\ machine' = [machine EXCEPT ![p] = Down]
  /\ UNCHANGED <<clock, nextDue, fired>>

TimePasses ==
  /\ clock < MaxInstant
  /\ clock' = clock + 1
  /\ UNCHANGED <<nextDue, job, machine, deaths, fired>>

MachineGoesOn(p) ==
  CreateSchedule(p) \/ ReadDue(p) \/ ClaimDue(p) \/ EnqueueDue(p)
  \/ TakeDue(p) \/ RunDue(p) \/ DrainEnds(p)

MaintenanceNext ==
  \/ \E p \in Machines : Boot(p) \/ MachineGoesOn(p) \/ Die(p)
  \/ TimePasses

MaintenanceSpec == MaintenanceInit /\ [][MaintenanceNext]_maintenanceVars

\* A process that is up goes on; nothing in the code starts one that went down.
MaintenanceFairness == \A p \in Machines : WF_maintenanceVars(MachineGoesOn(p))

MaintenanceFairSpec == MaintenanceSpec /\ MaintenanceFairness

-------------------------------------------------------------------------------
\* "At most one backup per day", "exactly ONE catch-up backup, not one per missed day"
\* (backup-scheduler.service.ts, lines 7-17 and 96-100), whatever processes contend for
\* the schedule, start together and die: a job is of a day the schedule fired for, every
\* later occurrence lies after the whole backlog of an earlier one, and only a death
\* between claim and enqueueJob loses a day.
OneRunADay ==
  /\ \A f, g \in fired : f.occ < g.occ => g.occ > f.at
  /\ \A d \in Dates : job[d] # "none" => \E f \in fired : DateOf(f.occ) = d
  /\ Cardinality({f \in fired : /\ job[DateOf(f.occ)] = "none"
                                /\ \A p \in Machines : At(p, "enqueue") => machine[p].occ # f.occ})
       <= deaths

\* A due schedule is claimed and a queued job is run, as long as a process is up.
MaintenanceGoesOn ==
  LET AllDown == \A p \in Machines : At(p, "down") IN
  /\ (nextDue # NoRow /\ nextDue <= clock) ~> (nextDue > clock \/ AllDown)
  /\ \A d \in Dates : (job[d] = "queued") ~> (job[d] = "done" \/ AllDown)
===============================================================================
