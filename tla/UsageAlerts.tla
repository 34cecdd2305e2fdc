------------------------------ MODULE UsageAlerts ------------------------------
(***************************************************************************)
(* Credit-usage alerts of one workspace in one billing period              *)
(* (src/backend/src/modules/billing/usage-alert.service.ts): after every   *)
(* charge the usage is read and compared with three thresholds; each alert *)
(* is a notification, unique in the period, and an audit entry. Nothing    *)
(* checks when an administrator takes credits away or the plan changes.    *)
(***************************************************************************)
EXTENDS Integers, FiniteSets

CONSTANTS
  Checkers,      \* workflow steps that may charge and check at once
  Asleep, Unread,
  FirstPlan, BiggerPlan,  \* monthly allowances of the plans
  Costs,         \* credits an AI action costs
  Adjustments,   \* credits an administrator grants, or takes away
  MaxAdjustments, \* bound: adjustments
  MaxAlertFaults \* bound: checks cut short

Thresholds == {80, 90, 100}
Checks ==
  [do : {"read", "notify", "audit"}, plan : {Unread, FirstPlan, BiggerPlan}, left : Int \cup {Unread},
   todo : SUBSET Thresholds, now : Thresholds \cup {0}]

ASSUME AlertAssumption ==
  /\ FirstPlan \in Nat \ {0} /\ BiggerPlan \in Nat \ {0}
  /\ Costs \subseteq Nat \ {0} /\ Adjustments \subseteq Int \ {0}
  /\ MaxAdjustments \in Nat /\ MaxAlertFaults \in Nat
  /\ Asleep \notin Checks /\ Unread \notin Int

VARIABLES
  allowance,   \* aiCreditsPerMonth of the current plan
  credits,     \* balance
  charged,       \* credits charged in the period
  checker,     \* each step: what it does next, and what it has read
  alerts,      \* thresholds with a notification
  audited,     \* audit entries of each
  adjustments, alertFaults,
  unseen       \* history: credits were taken away, or the plan changed, and no step
               \* has charged since

alertVars == <<allowance, credits, charged, checker, alerts, audited, adjustments, alertFaults, unseen>>

\* Type invariant; an audit entry follows its notification.
AlertTypeOK ==
  /\ allowance \in {FirstPlan, BiggerPlan} /\ credits \in Int /\ charged \in Nat
  /\ checker \in [Checkers -> Checks \cup {Asleep}]
  /\ alerts \subseteq Thresholds
  /\ audited \in [Thresholds -> 0..1] /\ \A t \in Thresholds \ alerts : audited[t] = 0
  /\ adjustments \in 0..MaxAdjustments /\ alertFaults \in 0..MaxAlertFaults /\ unseen \in BOOLEAN

AlertInit ==
  /\ allowance = FirstPlan /\ credits = FirstPlan /\ charged = 0
  /\ checker = [c \in Checkers |-> Asleep]
  /\ alerts = {} /\ audited = [t \in Thresholds |-> 0] /\ adjustments = 0 /\ alertFaults = 0 /\ unseen = FALSE

-------------------------------------------------------------------------------
\* Faulty variants: past the threshold only; the highest first; every check that meets an
\* alert writes its audit entry.
Exceeded(percent) == {t \in Thresholds : percent > t}
Highest(T) == CHOOSE t \in T : \A u \in T : u <= t
NeverLost(t) == TRUE

\* Math.round(used / allowance * 100), which rounds halves up.
Percent(used, of) == (200 * used + of) \div (2 * of)

\* The thresholds a usage has reached, and the first of them.
Reached(percent) == {t \in Thresholds : percent >= t}
NextOf(T) == CHOOSE t \in T : \A u \in T : t <= u

\* createNotification: the unique index lets the first one win.
Created(t) == t \notin alerts

Doing(c, do) == checker[c] # Asleep /\ checker[c].do = do
Becomes(c, d) == checker' = [checker EXCEPT ![c] = d]
GoesTo(c, todo) ==
  Becomes(c, IF todo = {} THEN Asleep ELSE [checker[c] EXCEPT !.do = "notify", !.todo = todo])

-------------------------------------------------------------------------------
\* A step has charged; checkAndTriggerUsageAlerts follows, and reads what there is.
ChargeStep(c, k) ==
  /\ checker[c] = Asleep /\ credits >= k
  /\ credits' = credits - k /\ charged' = charged + k
  /\ Becomes(c, [do |-> "read", plan |-> Unread, left |-> Unread, todo |-> {}, now |-> 0])
  /\ unseen' = FALSE
  /\ UNCHANGED <<allowance, alerts, audited, adjustments, alertFaults>>

\* The plan and the balance are read in either order ...
ReadUsage(c) ==
  /\ Doing(c, "read")
  /\ \/ checker[c].plan = Unread /\ Becomes(c, [checker[c] EXCEPT !.plan = allowance])
     \/ checker[c].left = Unread /\ Becomes(c, [checker[c] EXCEPT !.left = credits])
  /\ UNCHANGED <<allowance, credits, charged, alerts, audited, adjustments, alertFaults, unseen>>

\* ... and compared ...
Compare(c) ==
  /\ Doing(c, "read") /\ checker[c].plan # Unread /\ checker[c].left # Unread
  /\ GoesTo(c, Reached(Percent(checker[c].plan - checker[c].left, checker[c].plan)))
  /\ UNCHANGED <<allowance, credits, charged, alerts, audited, adjustments, alertFaults, unseen>>

\* ... and threshold by threshold the owner is notified ...
NotifyOwner(c) ==
  /\ Doing(c, "notify")
  /\ LET t == NextOf(checker[c].todo) IN
     /\ alerts' = alerts \cup {t}
     /\ IF Created(t) THEN Becomes(c, [checker[c] EXCEPT !.do = "audit", !.now = t])
        ELSE GoesTo(c, checker[c].todo \ {t})
  /\ UNCHANGED <<allowance, credits, charged, audited, adjustments, alertFaults, unseen>>

\* ... and, by the check that made the notification, the audit entry written.
AuditAlert(c) ==
  /\ Doing(c, "audit")
  /\ audited' = [audited EXCEPT ![checker[c].now] = @ + 1]
  /\ GoesTo(c, checker[c].todo \ {checker[c].now})
  /\ UNCHANGED <<allowance, credits, charged, alerts, adjustments, alertFaults, unseen>>

\* A statement fails or the process dies.
CheckFails(c) ==
  /\ checker[c] # Asleep /\ alertFaults < MaxAlertFaults
  /\ alertFaults' = alertFaults + 1
  /\ Becomes(c, Asleep)
  /\ UNCHANGED <<allowance, credits, charged, alerts, audited, adjustments, unseen>>

\* adjustWorkspaceCredits: an administrator grants credits, or takes some away, below
\* zero if need be; no check follows.
Adjust(k) ==
  /\ adjustments < MaxAdjustments
  /\ adjustments' = adjustments + 1 /\ credits' = credits + k
  /\ unseen' = (unseen \/ k < 0)
  /\ UNCHANGED <<allowance, charged, checker, alerts, audited, alertFaults>>

\* changePlan to the bigger plan: at once, without credits, and without a check.
Upgrade ==
  /\ allowance = FirstPlan
  /\ allowance' = BiggerPlan /\ unseen' = TRUE
  /\ UNCHANGED <<credits, charged, checker, alerts, audited, adjustments, alertFaults>>

-------------------------------------------------------------------------------
AlertStep ==
  \/ \E c \in Checkers :
       \/ \E k \in Costs : ChargeStep(c, k)
       \/ ReadUsage(c) \/ Compare(c) \/ NotifyOwner(c) \/ AuditAlert(c) \/ CheckFails(c)
  \/ \E k \in Adjustments : Adjust(k)
  \/ Upgrade

AlertSpec == AlertInit /\ [][AlertStep]_alertVars

-------------------------------------------------------------------------------
\* "No duplicate notifications for the same threshold/period" (lines 6-14), nor any lost:
\* with no check under way, a usage that has reached a threshold has its alert, and each
\* alert its audit entry, whatever charges, checks and grants overlapped. What an
\* adjustment or a new plan adds to the usage is announced with the next charge, and not
\* before. Alerts come in ascending order.
AlertsMatchUsage ==
  /\ \A t, u \in Thresholds : t < u /\ u \in alerts => t \in alerts
  /\ alertFaults = 0 /\ (\A c \in Checkers : checker[c] = Asleep) =>
       \A t \in Thresholds :
         /\ audited[t] = 1 <=> t \in alerts
         /\ ~unseen /\ Percent(allowance - credits, allowance) >= t => t \in alerts

\* "...% of this period's ...-credit allowance has been used" (line 48): an alert is not
\* raised before so much of an allowance was used.
AlertMeansUsed == \A t \in alerts : Percent(charged, FirstPlan) >= t
===============================================================================
