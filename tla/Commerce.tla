-------------------------------- MODULE Commerce --------------------------------
(***************************************************************************)
(* The commercial state of a workspace as a whole: the calls of users, the *)
(* monthly grant job and the provider's events, interleaved on the same    *)
(* subscription rows.                                                      *)
(***************************************************************************)
EXTENDS MonthlyGrant, Webhook

commerceVars == <<subVars, grantVars, hookVars>>

CommerceInit == SubscriptionInit /\ GrantInit /\ WebhookInit

\* c is at work on neither a job nor an event.
Free(c) == job[c] = None /\ handling[c] = None

UserStep(c) ==
  /\ Free(c)
  /\ UserCall(c) \/ CallStep(c) \/ CrashCall(c)
  /\ UNCHANGED <<grantVars, hookVars>>

GrantStep(c) ==
  /\ handling[c] = None
  /\ BatchStart(c) \/ JobStep(c) \/ CrashJob(c)
  /\ UNCHANGED hookVars

WebhookStep(c) ==
  /\ job[c] = None
  /\ (\E e \in Events : Deliver(c, e)) \/ HookStep(c) \/ CrashHandling(c)
  /\ UNCHANGED grantVars

TimeStep == TrialRunsOut /\ UNCHANGED <<grantVars, hookVars>>

CommerceNext ==
  \/ \E c \in Callers : UserStep(c) \/ GrantStep(c) \/ WebhookStep(c)
  \/ TimeStep

CommerceSpec == CommerceInit /\ [][CommerceNext]_commerceVars

\* A grant job that has begun goes on. Nothing runs the batch but an operator by hand
\* (run-monthly-credit-grants.ts), so that no job need ever begin.
JobGoesOn(c) == JobStep(c) /\ UNCHANGED hookVars

-------------------------------------------------------------------------------
\* The type invariants of the components.
CommerceTypeOK == SubscriptionTypeOK /\ GrantTypeOK /\ WebhookTypeOK
===============================================================================
