----------------------------- MODULE JobLifecycle -----------------------------
(***************************************************************************)
(* What the job queue promises to those who enqueue: the lifecycle of one    *)
(* job per (jobKey, dedupeKey), without workers, leases or time. A job is    *)
(* tried until it succeeds or has failed MaxAttempts times; only then an     *)
(* administrator may revive it, with a fresh budget, or give it up.          *)
(* JobQueue implements it.                                                 *)
(***************************************************************************)
EXTENDS Naturals

CONSTANTS Jobs, MaxAttempts

VARIABLES phase, failures

jobVars == <<phase, failures>>

Phases == {"absent", "ready", "inflight", "done", "dead", "cancelled"}

Init ==
  /\ phase = [j \in Jobs |-> "absent"]
  /\ failures = [j \in Jobs |-> 0]

Move(j, from, to) ==
  /\ phase[j] = from
  /\ phase' = [phase EXCEPT ![j] = to]

Submit(j) == Move(j, "absent", "ready") /\ UNCHANGED failures
Begin(j) == Move(j, "ready", "inflight") /\ UNCHANGED failures
Succeed(j) == Move(j, "inflight", "done") /\ UNCHANGED failures

Fail(j) ==
  /\ failures' = [failures EXCEPT ![j] = @ + 1]
  /\ \/ failures[j] + 1 < MaxAttempts /\ Move(j, "inflight", "ready")
     \/ failures[j] + 1 = MaxAttempts /\ Move(j, "inflight", "dead")

Revive(j) == Move(j, "dead", "ready") /\ failures' = [failures EXCEPT ![j] = 0]
GiveUp(j) == Move(j, "dead", "cancelled") /\ UNCHANGED failures

Next == \E j \in Jobs :
  Submit(j) \/ Begin(j) \/ Succeed(j) \/ Fail(j) \/ Revive(j) \/ GiveUp(j)

Spec == Init /\ [][Next]_jobVars
===============================================================================
