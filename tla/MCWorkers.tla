------------------------------- MODULE MCWorkers -------------------------------
(***************************************************************************)
(* The processes that work off the queue, for TLC: a behaviour belongs to  *)
(* the queue, where no handler outlives its lease, or to the scheduler     *)
(* processes and one maintenance schedule; the two share no state.         *)
(***************************************************************************)
EXTENDS JobQueue, Maintenance

CONSTANTS w1, w2, j1, j2

VARIABLE part   \* the component this behaviour belongs to

workersVars == <<part, vars, maintenanceVars>>

WorkersInit ==
  /\ part \in {"queue", "maintenance"}
  /\ Init /\ MaintenanceInit

WorkersNext ==
  /\ UNCHANGED part
  /\ \/ part = "queue" /\ Next /\ UNCHANGED maintenanceVars
     \/ part = "maintenance" /\ MaintenanceNext /\ UNCHANGED vars


WorkersSpec ==
  /\ WorkersInit /\ [][WorkersNext]_workersVars
  /\ \A w \in Workers : WF_vars(part = "queue" /\ WorkerStep(w))
  /\ WF_vars(part = "queue" /\ Tick)
  /\ \A p \in Machines : WF_maintenanceVars(part = "maintenance" /\ MachineGoesOn(p))

\* Whatever is enqueued, or due, is worked off.
WorkGoesOn == EnqueuedSettles /\ MaintenanceGoesOn
===============================================================================
