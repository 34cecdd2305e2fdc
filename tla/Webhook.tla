-------------------------------- MODULE Webhook --------------------------------
(***************************************************************************)
(* Payment events of the billing provider                                  *)
(* (src/backend/src/modules/billing/webhook.service.ts, webhook.routes.ts  *)
(* and stripe-billing-provider.ts). The provider delivers an event any     *)
(* number of times, in any order, also twice at once; an answer of 5xx, or *)
(* none, makes it deliver again.                                           *)
(***************************************************************************)
EXTENDS Subscription

CONSTANTS
  Events,       \* signed provider events
  EventType,    \* their types, and the workspaces they resolve to:
  EventFor,     \* None for an unknown customer
  MaxDeliveries \* bound: deliveries of one event

ASSUME WebhookAssumption ==
  /\ EventType \in [Events -> {"succeeded", "failed", "deleted", "other"}]
  /\ EventFor \in [Events -> Workspaces \cup {None}]
  /\ MaxDeliveries \in Nat

VARIABLES
  event,        \* WebhookEvent.status; "none" before the row exists
  handling,     \* each caller: the event it is processing, and how far
  delivered,    \* deliveries of each event so far
  applied,      \* history: transitions committed for each event
  refused       \* history: events turned away as duplicates while FAILED

hookVars == <<event, handling, delivered, applied, refused>>

EventStatuses == {"none", "RECEIVED", "PROCESSED", "FAILED"}
Handlings == [event : Events, stage : {"apply", "write", "notify", "mark"}]

\* Type invariant: the events and their processing.
WebhookTypeOK ==
  /\ event \in [Events -> EventStatuses]
  /\ handling \in [Callers -> Handlings \cup {None}]
  /\ delivered \in [Events -> 0..MaxDeliveries]
  /\ applied \in [Events -> Nat]
  /\ refused \subseteq Events
  /\ \A c \in Callers : handling[c] # None =>
       (call[c] # None <=> handling[c].stage = "write")

WebhookInit ==
  /\ event = [e \in Events |-> "none"]
  /\ handling = [c \in Callers |-> None]
  /\ delivered = [e \in Events |-> 0]
  /\ applied = [e \in Events |-> 0]
  /\ refused = {}

-------------------------------------------------------------------------------
\* Faulty variants: no unique constraint; the row marked before the event is applied.
AnyDelivery(e) == TRUE
MarkFirst(e) == "mark"

\* The unique (provider, externalEventId), looked up and enforced by the insert.
FirstDelivery(e) == event[e] = "none"

\* EXTERNAL_STATUS_MAP.
MappedStatus(e) ==
  CASE EventType[e] = "succeeded" -> "ACTIVE"
    [] EventType[e] = "failed" -> "PAST_DUE"
    [] EventType[e] = "deleted" -> "CANCELED"

\* applyEvent: an unmapped type is ignored, hence PROCESSED.
FirstStage(e) == IF EventType[e] = "other" THEN "mark" ELSE "apply"

HandleTo(c, stage) == handling' = [handling EXCEPT ![c].stage = stage]
Answer(c) == handling' = [handling EXCEPT ![c] = None]

\* processWebhook up to its insert: record the event, or report a duplicate,
\* whatever became of the first delivery.
Deliver(c, e) ==
  /\ handling[c] = None /\ call[c] = None
  /\ delivered[e] < MaxDeliveries
  /\ delivered' = [delivered EXCEPT ![e] = @ + 1]
  /\ IF FirstDelivery(e)
     THEN /\ event' = [event EXCEPT ![e] = "RECEIVED"]
          /\ handling' = [handling EXCEPT ![c] = [event |-> e, stage |-> FirstStage(e)]]
          /\ UNCHANGED refused
     ELSE /\ refused' = IF event[e] = "FAILED" THEN refused \cup {e} ELSE refused
          /\ UNCHANGED <<event, handling>>
  /\ UNCHANGED <<subVars, applied>>

\* applyEvent: resolve the workspace, read its subscription, check the transition.
Apply(c) ==
  /\ handling[c] # None /\ handling[c].stage = "apply"
  /\ LET e == handling[c].event IN ReadForStatus(c, EventFor[e], MappedStatus(e))
  /\ HandleTo(c, "write")
  /\ UNCHANGED <<event, delivered, applied, refused>>

\* The transition commits.
ApplyWrite(c) ==
  /\ handling[c] # None /\ handling[c].stage = "write"
  /\ CommitWrite(c)
  /\ LET e == handling[c].event IN
     /\ applied' = [applied EXCEPT ![e] = @ + 1]
     /\ HandleTo(c, IF EventType[e] = "failed" THEN "notify" ELSE "mark")
  /\ UNCHANGED <<event, delivered, refused>>

\* The customer is told of a failed payment.
NotifyPayment(c) ==
  /\ handling[c] # None /\ handling[c].stage = "notify"
  /\ HandleTo(c, "mark")
  /\ UNCHANGED <<subVars, event, delivered, applied, refused>>

MarkProcessed(c) ==
  /\ handling[c] # None /\ handling[c].stage = "mark"
  /\ event' = [event EXCEPT ![handling[c].event] = "PROCESSED"]
  /\ Answer(c)
  /\ UNCHANGED <<subVars, delivered, applied, refused>>

\* No workspace, no subscription, an illegal transition: FAILED and a 500; or any
\* statement rejects, after the transition has committed too.
MarkFailed(c) ==
  /\ handling[c] # None
  /\ LET e == handling[c].event IN
     /\ \/ /\ handling[c].stage = "apply" /\ UNCHANGED crashes
           /\ MappedStatus(e) \notin LegalTargets(EventFor[e])
        \/ crashes < MaxCrashes /\ crashes' = crashes + 1
     /\ event' = [event EXCEPT ![e] = "FAILED"]
  /\ Decide(c, None)
  /\ Answer(c)
  /\ UNCHANGED <<subs, trials, created, changes, delivered, applied, refused>>

\* The process dies with the event RECEIVED.
CrashHandling(c) ==
  /\ handling[c] # None
  /\ crashes < MaxCrashes /\ crashes' = crashes + 1
  /\ Decide(c, None)
  /\ Answer(c)
  /\ UNCHANGED <<subs, trials, created, changes, event, delivered, applied, refused>>

HookStep(c) == Apply(c) \/ ApplyWrite(c) \/ NotifyPayment(c) \/ MarkProcessed(c) \/ MarkFailed(c)

-------------------------------------------------------------------------------
\* "Must never apply the same subscription transition twice" (lines 8-15), however
\* often and however concurrently an event is delivered.
AppliedOnce == \A e \in Events : applied[e] <= 1

\* An event is PROCESSED only when its transition has committed or it calls for
\* none (lines 69-75 tell of the opposite, found in the past).
ProcessedMeansApplied == \A e \in Events :
  event[e] = "PROCESSED" => (applied[e] = 1 <=> EventType[e] # "other")

\* What the record of an event says of the subscription.
EventsOnce == AppliedOnce /\ ProcessedMeansApplied

\* A retry after a 5xx is "treated as a fresh attempt" because the row is FAILED
\* (lines 75-80): no delivery of a FAILED event is turned away.
FailedIsRetried == refused = {}
===============================================================================
