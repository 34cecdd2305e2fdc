-------------------------------- MODULE MCUpkeep --------------------------------
(***************************************************************************)
(* The upkeep of the database, for TLC: a behaviour belongs to one dump    *)
(* and its restore, to the backup runs, to requests on the CRM alone, or   *)
(* to them and the purges; the others share no state.                      *)
(***************************************************************************)
EXTENDS BackupDump, BackupRuns, DataRetention, TLC

CONSTANTS k1, k2, k3, q1, q2

VARIABLE upkeep   \* the component this behaviour belongs to

\* Every schema on three tables is planned; a chain and a cycle are dumped.
Keys == {k \in [table : Tables, on : Tables, nullable : BOOLEAN] : k.table # k.on}
AllSchemas == {S \in SUBSET Keys : \A k, l \in S : k.table = l.table /\ k.on = l.on => k = l}
Key(t, o, n) == [table |-> t, on |-> o, nullable |-> n]
Dumped == { {Key(k1, k2, FALSE), Key(k2, k3, TRUE)},
            {Key(k1, k2, FALSE), Key(k2, k1, TRUE)} }
PlanOnly == upkeep = "dump" => step \in {"break", "refused"} \/ Schema \in Dumped

upkeepVars == <<upkeep, dumpVars, runVars, purgeVars>>

UpkeepInit ==
  /\ upkeep \in {"dump", "backups", "crm", "purges"}
  /\ DumpInit /\ RunInit /\ PurgeInit
  /\ upkeep # "dump" => Schema = {}

UpkeepNext ==
  /\ UNCHANGED upkeep
  /\ \/ upkeep = "dump" /\ DumpStep /\ UNCHANGED <<runVars, purgeVars>>
     \/ upkeep = "backups" /\ RunStep /\ UNCHANGED <<dumpVars, purgeVars>>
     \/ upkeep = "crm" /\ CrmStep /\ UNCHANGED <<dumpVars, runVars, retentionVars>>
     \/ upkeep = "purges" /\ PurgeStep /\ req'[q2] = NoRequest /\ UNCHANGED <<dumpVars, runVars>>

\* The fairness of each component, for the behaviours that belong to it.
UpkeepFairness ==
  /\ \A p \in Processes : /\ WF_runVars(upkeep = "backups" /\ RunGoesOn(p))
                          /\ WF_runVars(upkeep = "backups" /\ GuardRead(p))
  /\ \A r \in RunIds : WF_runVars(upkeep = "backups" /\ RowAbandoned(r))
  /\ \A p \in Purgers : WF_purgeVars(upkeep = "purges" /\ PurgeGoesOn(p))
  /\ \A i \in PurgeIds : WF_purgeVars(upkeep = "purges" /\ RunAges(i))

UpkeepSpec == UpkeepInit /\ [][UpkeepNext]_upkeepVars /\ UpkeepFairness

-------------------------------------------------------------------------------
\* The type invariants of the three components.
UpkeepTypeOK == DumpTypeOK /\ RunTypeOK /\ PurgeTypeOK

\* The backups there are can be restored: what a dump holds, and which dumps are kept.
BackupsHold == RestoreIsFaithful /\ BackupsKept

\* Nothing blocks the upkeep for ever: no abandoned backup, no failed or abandoned purge.
UpkeepSettles == StuckRowsAreReaped /\ ExpiredIsPurged
===============================================================================
