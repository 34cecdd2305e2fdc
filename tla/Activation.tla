------------------------------ MODULE Activation ------------------------------
(***************************************************************************)
(* What a workspace's activation is measured by: onboarding progress       *)
(* (src/backend/src/modules/onboarding/onboarding.service.ts), the review  *)
(* of content assets (content-assets/content-asset.service.ts), and the    *)
(* notification and product events they leave. Every request reads,        *)
(* decides, and writes by id in a statement of its own.                    *)
(***************************************************************************)
EXTENDS Integers, FiniteSets

CONSTANTS
  Clients,      \* requests that may be under way at once
  Assets,       \* content assets
  NoCall,
  MaxApprovals, \* bound: approvals recorded
  MaxCallFaults \* bound: requests cut short, and inserts lost

LastStep == 5   \* 'completed'
AssetStatuses == {"DRAFT", "IN_REVIEW", "APPROVED"}
ClientCalls ==
  [do : {"advance"}, was : 0..LastStep, to : 0..LastStep] \cup
  [do : {"skip"}, was : {"IN_PROGRESS", "COMPLETED"}] \cup
  [do : {"notify", "completed"}] \cup
  [do : {"review"}, on : Assets, was : AssetStatuses, to : AssetStatuses] \cup
  [do : {"look"}] \cup [do : {"record"}, first : BOOLEAN] \cup [do : {"first"}]

ASSUME ActivationAssumption ==
  MaxApprovals \in Nat /\ MaxCallFaults \in Nat /\ NoCall \notin ClientCalls

VARIABLES
  onboardingStep,    \* index into ONBOARDING_STEPS
  onboardingStatus,
  asset,             \* each content asset: its status
  clientCall,        \* each request: what it does next, and what it has read
  notices,           \* "onboarding complete" notifications
  completed,         \* is there an ONBOARDING_COMPLETED event
  approvals, firsts, \* CONTENT_APPROVED and FIRST_CONTENT_APPROVED events
  callFaults,
  overwritten,             \* history: something was written over a newer value
  raced              \* history: two requests found no first approval yet at once

onboardingVars == <<onboardingStep, onboardingStatus, notices, completed>>
assetVars == <<asset, approvals, firsts, raced>>
activationVars == <<onboardingVars, assetVars, clientCall, callFaults, overwritten>>

\* Type invariant; a first approval is tracked behind an approval, or behind one that was lost.
ActivationTypeOK ==
  /\ onboardingStep \in 0..LastStep
  /\ onboardingStatus \in {"IN_PROGRESS", "COMPLETED", "SKIPPED"}
  /\ asset \in [Assets -> AssetStatuses]
  /\ clientCall \in [Clients -> ClientCalls \cup {NoCall}]
  /\ notices \in 0..1 /\ completed \in BOOLEAN
  /\ approvals \in 0..MaxApprovals /\ firsts \in 0..approvals + callFaults
  /\ callFaults \in 0..MaxCallFaults /\ overwritten \in BOOLEAN /\ raced \in BOOLEAN

ActivationInit ==
  /\ onboardingStep = 0 /\ onboardingStatus = "IN_PROGRESS"
  /\ asset = [a \in Assets |-> "DRAFT"]
  /\ clientCall = [c \in Clients |-> NoCall]
  /\ notices = 0 /\ completed = FALSE /\ approvals = 0 /\ firsts = 0
  /\ callFaults = 0 /\ overwritten = FALSE /\ raced = FALSE

-------------------------------------------------------------------------------
\* Faulty variants: no unique index; any step may be set; a completed onboarding may be
\* skipped; an approved asset goes anywhere; every approval is a first one.
CountedAgain == notices + 1
AnyStep(to) == to # onboardingStep
AnyStatus == onboardingStatus # "SKIPPED"
AnyReview(s) == AssetStatuses \ {s}
EachIsFirst == TRUE

\* createNotification: the unique index admits one of this type and workspace.
Announced == IF notices = 0 THEN 1 ELSE notices

\* advanceOnboardingStep's forward-only guard, and skipOnboarding's.
Forward(to) == to > onboardingStep
MaySkip == onboardingStatus = "IN_PROGRESS"

\* VALID_TRANSITIONS.
NextReviews(s) ==
  CASE s = "DRAFT" -> {"IN_REVIEW", "APPROVED"}
    [] s = "IN_REVIEW" -> {"DRAFT", "APPROVED"}
    [] s = "APPROVED" -> {"IN_REVIEW"}

\* hasWorkspaceEvent.
NoneYet == firsts = 0

Calling(c, do) == clientCall[c] # NoCall /\ clientCall[c].do = do
Then(c, d) == clientCall' = [clientCall EXCEPT ![c] = d]

\* Something fails: a request is cut short, or an insert lost.
Fault == callFaults < MaxCallFaults /\ callFaults' = callFaults + 1

\* What c is about to write over is no longer what it has read.
Outdated(c) ==
  \/ Calling(c, "advance") /\ clientCall[c].was # onboardingStep
  \/ Calling(c, "skip") /\ clientCall[c].was # onboardingStatus
  \/ Calling(c, "review") /\ clientCall[c].was # asset[clientCall[c].on]

-------------------------------------------------------------------------------
\* advanceOnboardingStep reads the settings; a step at or before the current one changes
\* nothing ...
ReadStep(c, to) ==
  /\ clientCall[c] = NoCall /\ Forward(to)
  /\ Then(c, [do |-> "advance", was |-> onboardingStep, to |-> to])
  /\ UNCHANGED <<onboardingVars, assetVars, callFaults, overwritten>>

\* ... then sets the step, and with the last one the status ...
WriteStep(c) ==
  /\ Calling(c, "advance")
  /\ onboardingStep' = clientCall[c].to
  /\ onboardingStatus' = IF clientCall[c].to = LastStep THEN "COMPLETED" ELSE onboardingStatus
  /\ overwritten' = (overwritten \/ Outdated(c))
  /\ Then(c, IF clientCall[c].to = LastStep THEN [do |-> "notify"] ELSE NoCall)
  /\ UNCHANGED <<notices, completed, assetVars, callFaults>>

\* ... and announces the completion ...
Notify(c) ==
  /\ Calling(c, "notify")
  /\ notices' = Announced
  /\ Then(c, [do |-> "completed"])
  /\ UNCHANGED <<onboardingStep, onboardingStatus, completed, assetVars, callFaults, overwritten>>

\* ... once per call; trackEvent may lose the event.
TrackCompletion(c) ==
  /\ Calling(c, "completed")
  /\ completed' \in {completed, TRUE}
  /\ Then(c, NoCall)
  /\ UNCHANGED <<onboardingStep, onboardingStatus, notices, assetVars, callFaults, overwritten>>

\* skipOnboarding: refused when completed, nothing to do when skipped.
ReadStatus(c) ==
  /\ clientCall[c] = NoCall /\ MaySkip
  /\ Then(c, [do |-> "skip", was |-> onboardingStatus])
  /\ UNCHANGED <<onboardingVars, assetVars, callFaults, overwritten>>

WriteSkip(c) ==
  /\ Calling(c, "skip")
  /\ onboardingStatus' = "SKIPPED"
  /\ overwritten' = (overwritten \/ Outdated(c))
  /\ Then(c, NoCall)
  /\ UNCHANGED <<onboardingStep, notices, completed, assetVars, callFaults>>

\* updateContentAsset: read the asset and check the transition ...
ReadAsset(c, a, s) ==
  /\ clientCall[c] = NoCall /\ s \in NextReviews(asset[a])
  /\ Then(c, [do |-> "review", on |-> a, was |-> asset[a], to |-> s])
  /\ UNCHANGED <<onboardingVars, assetVars, callFaults, overwritten>>

\* ... write the status ...
WriteAsset(c) ==
  /\ Calling(c, "review")
  /\ asset' = [asset EXCEPT ![clientCall[c].on] = clientCall[c].to]
  /\ overwritten' = (overwritten \/ Outdated(c))
  /\ Then(c, IF clientCall[c].to = "APPROVED" THEN [do |-> "look"] ELSE NoCall)
  /\ UNCHANGED <<onboardingVars, approvals, firsts, raced, callFaults>>

\* ... and after an approval look for the first one ...
LookForFirst(c) ==
  /\ Calling(c, "look")
  /\ Then(c, [do |-> "record", first |-> NoneYet])
  /\ raced' = \/ raced
               \/ /\ NoneYet
                  /\ \E d \in Clients \ {c} :
                       Calling(d, "first") \/ (Calling(d, "record") /\ clientCall[d].first)
  /\ UNCHANGED <<onboardingVars, asset, approvals, firsts, callFaults, overwritten>>

\* ... track this one, and go on though trackEvent swallows the failure of an insert ...
TrackApproval(c) ==
  /\ Calling(c, "record")
  /\ \/ approvals < MaxApprovals /\ approvals' = approvals + 1 /\ UNCHANGED callFaults
     \/ Fault /\ UNCHANGED approvals
  /\ Then(c, IF clientCall[c].first THEN [do |-> "first"] ELSE NoCall)
  /\ UNCHANGED <<onboardingVars, asset, firsts, raced, overwritten>>

\* ... and perhaps the first, which may be lost like it.
TrackFirst(c) ==
  /\ Calling(c, "first")
  /\ \/ firsts' = firsts + 1 /\ UNCHANGED callFaults
     \/ Fault /\ UNCHANGED firsts
  /\ Then(c, NoCall)
  /\ UNCHANGED <<onboardingVars, asset, approvals, raced, overwritten>>

\* A statement that is not trackEvent's throws, or the process dies.
CutCall(c) ==
  /\ clientCall[c] # NoCall /\ Fault
  /\ Then(c, NoCall)
  /\ UNCHANGED <<onboardingVars, assetVars, overwritten>>

-------------------------------------------------------------------------------
CallGoesOn(c) ==
  WriteStep(c) \/ Notify(c) \/ TrackCompletion(c) \/ WriteSkip(c) \/ WriteAsset(c)
  \/ LookForFirst(c) \/ TrackApproval(c) \/ TrackFirst(c)

ActivationStep ==
  \E c \in Clients :
    \/ \E to \in 0..LastStep : ReadStep(c, to)
    \/ ReadStatus(c)
    \/ \E a \in Assets, s \in AssetStatuses : ReadAsset(c, a, s)
    \/ CallGoesOn(c)
    \/ CutCall(c)

ActivationSpec == ActivationInit /\ [][ActivationStep]_activationVars

-------------------------------------------------------------------------------
StepsForward ==
  \/ onboardingStep' < onboardingStep
  \/ onboardingStatus = "COMPLETED" /\ onboardingStatus' # "COMPLETED"
  => \E c \in Clients : Outdated(c) /\ clientCall'[c] # clientCall[c]
WalksBack ==
  \A a \in Assets : asset[a] = "APPROVED" /\ asset'[a] = "DRAFT" =>
    \E c \in Clients : /\ Calling(c, "review") /\ clientCall[c].on = a /\ Outdated(c)
                       /\ clientCall'[c] # clientCall[c]

\* "A safe no-op forward-only guard, since onboarding never needs to regress" (lines
\* 106-112), and "skipping onboarding that has already COMPLETED" is rejected (153-161): a
\* workspace goes back only by the very write of a request that read it before another
\* wrote; what was overtaken once exempts nobody later.
OnboardingGoesForward == [][StepsForward]_activationVars

\* A completion is announced, once, unless the request that made it was cut: two requests
\* that complete at once, or a second completion, add no second notification.
CompletionAnnounced ==
  /\ notices = 1 => onboardingStatus = "COMPLETED" \/ overwritten
  /\ completed => notices = 1
  /\ onboardingStatus = "COMPLETED" /\ callFaults = 0 =>
       notices = 1 \/ \E c \in Clients : Calling(c, "notify")

\* FIRST_CONTENT_APPROVED is there once there is an approval, unless an insert was lost or
\* a request cut, and twice only after two requests looked for it at once.
FirstApprovalOnce ==
  /\ firsts <= 1 \/ raced
  /\ approvals > 0 /\ callFaults = 0 => firsts > 0 \/ \E c \in Clients : Calling(c, "first")

\* An approved asset is walked back to review, never straight to a draft, but by the write
\* of a request that read it before its approval.
ApprovedIsReviewed == [][WalksBack]_activationVars

\* Progress is kept, and recorded as it was made.
ActivationHolds ==
  [](CompletionAnnounced /\ FirstApprovalOnce) /\ OnboardingGoesForward /\ ApprovedIsReviewed
===============================================================================
