------------------------------- MODULE MCCommerce -------------------------------
(***************************************************************************)
(* What happens to a workspace's money and what its owner is told, for     *)
(* TLC: a behaviour belongs to the subscription, grants and payment        *)
(* events, or to the notifications; the two share no state.                *)
(***************************************************************************)
EXTENDS Commerce, Notifications, TLC

CONSTANTS w1, c1, c2, e1, v1, v2, n1, n2, n3

VARIABLE part   \* the component this behaviour belongs to

Renewals == e1 :> "failed"
ForFirst == e1 :> w1
Perms == Permutations({v1, v2}) \cup Permutations({n1, n2, n3})

billingVars == <<part, commerceVars, notificationVars>>

BillingInit == part \in {"commerce", "notices"} /\ CommerceInit /\ NotificationInit

BillingNext ==
  /\ UNCHANGED part
  /\ \/ part = "commerce" /\ CommerceNext /\ UNCHANGED notificationVars
     \/ part = "notices" /\ NotificationStep /\ UNCHANGED commerceVars

BillingSpec == BillingInit /\ [][BillingNext]_billingVars

-------------------------------------------------------------------------------
\* The type invariants of the two parts.
BillingTypeOK == CommerceTypeOK /\ NotificationTypeOK

\* What the owner pays for and gets: a subscription and trials as promised, a period's
\* credits once, each payment event applied once.
BillingHolds == SubscriptionsHold /\ JobGrantsOnce /\ EventsOnce
===============================================================================
