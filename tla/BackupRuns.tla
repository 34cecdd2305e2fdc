------------------------------ MODULE BackupRuns ------------------------------
(***************************************************************************)
(* BackupRun rows and the processes that work on them (src/backend/src/    *)
(* modules/backup/backup.service.ts): the guard against a second backup,   *)
(* the run itself, and the cleanup after it. What a dump contains is       *)
(* BackupDump's; here it succeeds, fails or is found corrupt.              *)
(***************************************************************************)
EXTENDS Integers, FiniteSets

CONSTANTS
  Processes,     \* job workers and admin requests
  MinRetained,   \* BACKUP_MIN_RETAINED
  Nobody,        \* no run under way in this process
  MaxRuns,       \* bound: BackupRun rows
  MaxAged,       \* bound: rows that outlive BACKUP_RETENTION_DAYS
  MaxBackupFaults \* bound: failures and crashes

ASSUME BackupAssumption ==
  /\ MinRetained \in Nat \ {0}
  /\ MaxRuns \in Nat /\ MaxAged \in Nat /\ MaxBackupFaults \in Nat

VARIABLES
  rows,      \* rows made so far, 1..rows, oldest first
  status,    \* of each row
  stored,    \* rows whose files are complete on disk
  pruned,    \* rows with prunedAt
  overdue,   \* RUNNING for more than BACKUP_STALE_RUNNING_MINUTES
  aged,      \* started more than BACKUP_RETENTION_DAYS ago
  proc,      \* each process: what it does next, to which row, and what it has read
  backupFaults,
  undone     \* history: a success was overwritten by somebody who saw it RUNNING

rowVars == <<rows, status, stored, pruned>>
clockVars == <<overdue, aged>>
runVars == <<rowVars, clockVars, proc, backupFaults, undone>>

RunIds == 1..MaxRuns
Procs == [do : {"guard", "create", "dump", "succeed", "catch", "copy", "clean", "prune", "mark"},
          row : 0..MaxRuns, seen : SUBSET RunIds, stale : SUBSET RunIds]

\* Type invariant; only rows that succeeded are pruned.
RunTypeOK ==
  /\ rows \in 0..MaxRuns
  /\ status \in [RunIds -> {"none", "RUNNING", "SUCCEEDED", "FAILED", "CORRUPT"}]
  /\ \A r \in RunIds : status[r] = "none" <=> r > rows
  /\ stored \cup overdue \cup aged \subseteq 1..rows
  /\ pruned \subseteq {r \in RunIds : status[r] = "SUCCEEDED" \/ undone}
  /\ proc \in [Processes -> Procs \cup {Nobody}]
  /\ backupFaults \in 0..MaxBackupFaults /\ undone \in BOOLEAN

RunInit ==
  /\ rows = 0 /\ status = [r \in RunIds |-> "none"]
  /\ stored = {} /\ pruned = {}
  /\ overdue = {} /\ aged = {}
  /\ proc = [p \in Processes |-> Nobody]
  /\ backupFaults = 0 /\ undone = FALSE

-------------------------------------------------------------------------------
\* Faulty variants: failed runs count as backups; the oldest are kept; nothing is abandoned;
\* healthy since any success.
Ended == {r \in 1..rows : status[r] # "RUNNING" /\ r \notin pruned}
AllAged == aged \cap {r \in 1..rows : status[r] = "SUCCEEDED"}
NoneStale == {}
OnceHealthy == \E r \in 1..rows : status[r] = "SUCCEEDED"

Running == {r \in 1..rows : status[r] = "RUNNING"}
Successes == {r \in 1..rows : status[r] = "SUCCEEDED" /\ r \notin pruned}
Newest(n) == {r \in Successes : Cardinality({q \in Successes : q > r}) < n}
Worked == {proc[p].row : p \in {q \in Processes : proc[q] # Nobody /\ proc[q].do # "guard"}}

Doing(p, do) == proc[p] # Nobody /\ proc[p].do = do
Set(p, d) == proc' = [proc EXCEPT ![p] = d]
Goes(p, do) == Set(p, [proc[p] EXCEPT !.do = do])
Mark(r, s) == status' = [status EXCEPT ![r] = s]

\* cleanupOldBackups: all but the newest, if old enough.
Prunable == (Successes \ Newest(MinRetained)) \cap aged

\* guardAgainstConcurrentBackup: abandoned rows.
Stale == Running \cap overdue

\* getBackupObservability: the last run that ended is a success.
Healthy ==
  /\ Running = {}
  /\ \E r \in 1..rows : status[r] = "SUCCEEDED" /\ r \notin aged
       /\ \A q \in (r + 1)..rows : status[q] = "none"

-------------------------------------------------------------------------------
\* runDatabaseBackup: the RUNNING rows ...
GuardRead(p) ==
  /\ proc[p] = Nobody
  /\ Set(p, [do |-> IF Running = {} THEN "create" ELSE "guard", row |-> 0,
             seen |-> Running, stale |-> Stale])
  /\ UNCHANGED <<rowVars, clockVars, backupFaults, undone>>

\* ... in the order the database gives them: an abandoned one is marked FAILED by id, a
\* live one makes the guard throw.
GuardStep(p) ==
  /\ Doing(p, "guard")
  /\ \E r \in proc[p].seen :
       IF r \in proc[p].stale
       THEN /\ Mark(r, "FAILED")
            /\ undone' = (undone \/ status[r] = "SUCCEEDED")
            /\ Set(p, [proc[p] EXCEPT !.seen = @ \ {r},
                         !.do = IF proc[p].seen = {r} THEN "create" ELSE "guard"])
       ELSE Set(p, Nobody) /\ UNCHANGED <<status, undone>>
  /\ UNCHANGED <<rows, stored, pruned, clockVars, backupFaults>>

CreateRun(p) ==
  /\ Doing(p, "create")
  /\ IF rows < MaxRuns
     THEN /\ rows' = rows + 1
          /\ Mark(rows + 1, "RUNNING")
          /\ Set(p, [proc[p] EXCEPT !.do = "dump", !.row = rows + 1, !.seen = {}, !.stale = {}])
     ELSE Set(p, Nobody) /\ UNCHANGED <<rows, status>>
  /\ UNCHANGED <<stored, pruned, clockVars, backupFaults, undone>>

\* Dump and self-check went well.
DumpDone(p) ==
  /\ Doing(p, "dump")
  /\ stored' = stored \cup {proc[p].row}
  /\ Goes(p, "succeed")
  /\ UNCHANGED <<rows, status, pruned, clockVars, backupFaults, undone>>

\* The self-check found damage: CORRUPT, and the throw finds nothing RUNNING.
DumpCorrupt(p) ==
  /\ Doing(p, "dump") /\ backupFaults < MaxBackupFaults
  /\ backupFaults' = backupFaults + 1
  /\ Mark(proc[p].row, "CORRUPT")
  /\ Set(p, Nobody)
  /\ UNCHANGED <<rows, stored, pruned, clockVars, undone>>

\* Anything else throws before the success is recorded ...
DumpFails(p) ==
  /\ Doing(p, "dump") \/ Doing(p, "succeed")
  /\ backupFaults < MaxBackupFaults
  /\ backupFaults' = backupFaults + 1
  /\ IF status[proc[p].row] = "RUNNING" THEN Goes(p, "catch") ELSE Set(p, Nobody)
  /\ UNCHANGED <<rowVars, clockVars, undone>>

\* ... and the catch block, having read RUNNING, writes FAILED by id.
CatchWrite(p) ==
  /\ Doing(p, "catch")
  /\ Mark(proc[p].row, "FAILED")
  /\ Set(p, Nobody)
  /\ UNCHANGED <<rows, stored, pruned, clockVars, backupFaults, undone>>

\* SUCCEEDED by id, even for a run reaped meanwhile.
RecordSuccess(p) ==
  /\ Doing(p, "succeed")
  /\ Mark(proc[p].row, "SUCCEEDED")
  /\ Goes(p, "copy")
  /\ UNCHANGED <<rows, stored, pruned, clockVars, backupFaults, undone>>

\* The off-site copy, and the restore into a schema of its own: how they went is recorded
\* in columns of their own and changes nothing else.
CopyAndProve(p) ==
  /\ Doing(p, "copy")
  /\ Goes(p, "clean")
  /\ UNCHANGED <<rowVars, clockVars, backupFaults, undone>>

\* cleanupOldBackups: list what to prune ...
CleanRead(p) ==
  /\ Doing(p, "clean")
  /\ Set(p, IF Prunable = {} THEN Nobody
            ELSE [proc[p] EXCEPT !.do = "prune", !.seen = Prunable])
  /\ UNCHANGED <<rowVars, clockVars, backupFaults, undone>>

\* ... newest first: delete the files (the off-site objects too, if that works) ...
PruneFiles(p) ==
  /\ Doing(p, "prune")
  /\ LET r == CHOOSE q \in proc[p].seen : \A o \in proc[p].seen : o <= q IN
     /\ stored' = stored \ {r}
     /\ Set(p, [proc[p] EXCEPT !.do = "mark", !.row = r])
  /\ UNCHANGED <<rows, status, pruned, clockVars, backupFaults, undone>>

\* ... then record it.
PruneMark(p) ==
  /\ Doing(p, "mark")
  /\ LET rest == proc[p].seen \ {proc[p].row} IN
     /\ pruned' = pruned \cup {proc[p].row}
     /\ Set(p, IF rest = {} THEN Nobody ELSE [proc[p] EXCEPT !.do = "prune", !.seen = rest])
  /\ UNCHANGED <<rows, status, stored, clockVars, backupFaults, undone>>

\* The process dies, or a statement outside the guarded part rejects.
BackupCrash(p) ==
  /\ proc[p] # Nobody /\ backupFaults < MaxBackupFaults
  /\ backupFaults' = backupFaults + 1
  /\ Set(p, Nobody)
  /\ UNCHANGED <<rowVars, clockVars, undone>>

\* A RUNNING row passes the limit.
RowAbandoned(r) ==
  /\ r \in Running \ overdue
  /\ overdue' = overdue \cup {r}
  /\ UNCHANGED <<rowVars, aged, proc, backupFaults, undone>>

\* Rows grow old, oldest first.
RowAges ==
  /\ Cardinality(aged) < MaxAged /\ Cardinality(aged) < rows
  /\ aged' = aged \cup {Cardinality(aged) + 1}
  /\ UNCHANGED <<rowVars, overdue, proc, backupFaults, undone>>

-------------------------------------------------------------------------------
RunGoesOn(p) ==
  \/ GuardStep(p) \/ CreateRun(p) \/ DumpDone(p) \/ CatchWrite(p)
  \/ RecordSuccess(p) \/ CopyAndProve(p) \/ CleanRead(p)
  \/ PruneFiles(p) \/ PruneMark(p)

RunStep ==
  \/ \E p \in Processes :
       \/ GuardRead(p) \/ RunGoesOn(p) \/ DumpCorrupt(p) \/ DumpFails(p) \/ BackupCrash(p)
  \/ \E r \in RunIds : RowAbandoned(r)
  \/ RowAges

RunSpec == RunInit /\ [][RunStep]_runVars

\* Backups are attempted again and again (the daily job, its retries) and what is
\* running goes on; time passes.
RunFairness ==
  /\ \A p \in Processes :
       WF_runVars(RunGoesOn(p)) /\ WF_runVars(GuardRead(p))
  /\ \A r \in RunIds : WF_runVars(RowAbandoned(r))

RunFairSpec == RunSpec /\ RunFairness

-------------------------------------------------------------------------------
\* "Always keeps at least BACKUP_MIN_RETAINED of the most recent successful runs" (lines
\* 274-282): whatever cleanups overlap or are cut between the deletion and its record,
\* the newest successes have their files, unless a success was reaped as abandoned.
NewestAreStored == ~undone => Newest(MinRetained) \subseteq stored

\* getBackupObservability says HEALTHY only of a database whose last backup is there.
HealthyIsRestorable == Healthy /\ ~undone => \E r \in stored : status[r] = "SUCCEEDED" /\ r = rows

\* What the runs left by overlapping, failing and dying backups are good for.
BackupsKept == NewestAreStored /\ HealthyIsRestorable

\* "A permanently stuck row can never block backups forever" (lines 57-64): a row whose
\* process is gone stops being RUNNING.
StuckRowsAreReaped == \A r \in RunIds :
  (r \in Running /\ r \notin Worked) ~> r \notin Running
===============================================================================
