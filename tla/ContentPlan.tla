------------------------------ MODULE ContentPlan ------------------------------
(***************************************************************************)
(* One marketing plan: the seven steps of the marketing autopilot          *)
(* (src/backend/src/modules/marketing-autopilot/marketing-autopilot.       *)
(* steps.ts), the AI provider they ask (infrastructure/ai, infrastructure/ *)
(* openai), and the content assets that people review meanwhile            *)
(* (content-assets/content-asset.service.ts). The engine that runs the     *)
(* steps is WorkflowEngine: here one call executes them, tries a step      *)
(* again after a transient error, and starts a failed plan again at the    *)
(* step that failed, with the outputs of the steps before it.              *)
(***************************************************************************)
EXTENDS Integers, FiniteSets, Sequences

CONSTANTS
  NotYet,         \* no output, answer, asset or request
  Slots,          \* (day, platform, contentType)
  PillarKeys,
  MaxItems,       \* bound: items of a calendar
  Cost,           \* CREDIT_COSTS, by step
  Credits,        \* the workspace's balance at the start
  MaxTries,       \* MAX_STEP_ATTEMPTS
  Editors,        \* people who review the assets
  MaxPatches,     \* bound: PATCH requests on assets
  MaxPlanRetries, \* bound: retryInstance
  MaxPlanFaults   \* bound: awaits that reject, deaths

PlanSteps == 1..7
AISteps == {2, 3, 4}   \* build_strategy, generate_pillars, generate_calendar

ASSUME ContentPlanAssumption ==
  /\ Cost \in [AISteps -> Nat] /\ Credits \in Nat /\ MaxItems \in Nat \ {0}
  /\ MaxTries \in Nat \ {0} /\ MaxPatches \in Nat
  /\ MaxPlanRetries \in Nat /\ MaxPlanFaults \in Nat

VARIABLES
  profile,     \* the business profile is there, with name and industry
  plan,        \* status, step, place in its handler, attempt of this call
  outputs,     \* of the steps that succeeded: accumulated
  answer,      \* what the provider answered the step under way
  assets,      \* each slot: its content asset
  patch,       \* each editor: the request under way and the status it read
  credits, charged,
  metered,     \* recordAiRequest('succeeded'), by step
  patches, planRetries, planFaults   \* spent from the bounds

planVars == <<profile, plan, outputs, answer, assets, patch, credits, charged, metered,
              patches, planRetries, planFaults>>
bounds == <<patches, planRetries, planFaults>>

Items == [slot : Slots, pillar : PillarKeys, caption : {"text", "blank"}]
Calendars == UNION {[1..n -> Items] : n \in 1..MaxItems}
ItemsOf(cal) == {cal[i] : i \in DOMAIN cal}
PillarSets == SUBSET PillarKeys \ {{}}
ReviewStatuses == {"DRAFT", "IN_REVIEW", "APPROVED"}
ContentAssets == [pillar : PillarKeys, caption : {"text", "blank"},
                  edited : BOOLEAN, status : ReviewStatuses]
ASSUME NotYetAssumption == NotYet \notin ContentAssets
Patches == [slot : Slots, edit : BOOLEAN, to : ReviewStatuses \cup {"as it is"}, read : BOOLEAN]

\* What each step puts into accumulated.
OutputOf(s) == CASE s = 3 -> PillarSets [] s = 4 -> Calendars [] OTHER -> {"done"}

\* Type invariant; the provider is asked within the steps that ask it.
PlanTypeOK ==
  /\ profile \in BOOLEAN
  /\ plan \in [status : {"RUNNING", "FAILED", "AWAITING_APPROVAL", "COMPLETED"},
               step : PlanSteps, place : {"begin", "ask", "charge", "alert", "event", "gone"},
               try : 1..MaxTries]
  /\ plan.place \in {"ask", "charge", "alert"} => plan.step \in AISteps
  /\ answer \in IF plan.place \in {"charge", "alert"} THEN OutputOf(plan.step) ELSE {NotYet}
  /\ plan.place = "event" => plan.step = 6
  /\ \A s \in 1..6 : outputs[s] \in IF s < plan.step THEN OutputOf(s) ELSE {NotYet}
  /\ outputs[7] \in {NotYet, "done"}
  /\ \A s \in Slots : assets[s] = NotYet \/ assets[s] \in ContentAssets
  /\ \A e \in Editors : patch[e] = NotYet \/ patch[e] \in Patches
  /\ credits \in 0..Credits
  /\ charged \in [AISteps -> Nat] /\ metered \in [AISteps -> Nat]
  /\ patches \in 0..MaxPatches
  /\ planRetries \in 0..MaxPlanRetries /\ planFaults \in 0..MaxPlanFaults

PlanInit ==
  /\ profile \in BOOLEAN
  /\ plan = [status |-> "RUNNING", step |-> 1, place |-> "begin", try |-> 1]
  /\ outputs = [s \in PlanSteps |-> NotYet] /\ answer = NotYet
  /\ assets = [s \in Slots |-> NotYet] /\ patch = [e \in Editors |-> NotYet]
  /\ credits = Credits
  /\ charged = [s \in AISteps |-> 0] /\ metered = [s \in AISteps |-> 0]
  /\ patches = 0 /\ planRetries = 0 /\ planFaults = 0

-------------------------------------------------------------------------------
Drafted(i) == [pillar |-> i.pillar, caption |-> i.caption, edited |-> FALSE, status |-> "DRAFT"]

\* Faulty variants: an upsert that resets the status too; any calendar let through.
Reset(a, i) == Drafted(i)
Trusted(cal, keys) == TRUE

\* validate_output: every item names one of the plan's pillars and has a caption.
FitsPillars(cal, keys) == \A i \in ItemsOf(cal) : i.pillar \in keys /\ i.caption = "text"
\* The upsert's update clause: the content, never status or editedCaption.
Refreshed(a, i) == [a EXCEPT !.pillar = i.pillar, !.caption = i.caption]
\* assertSufficientCredits, and the check in recordUsage.
Sufficient(s) == credits >= Cost[s]
TriesLeft == plan.try < MaxTries

\* The asset of a slot after one item, and after all of them in order.
Upserted(as, i) ==
  [as EXCEPT ![i.slot] = IF @ = NotYet THEN Drafted(i) ELSE Refreshed(@, i)]
AllUpserted(as, cal) ==
  LET after[n \in 0..Len(cal)] == IF n = 0 THEN as ELSE Upserted(after[n - 1], cal[n])
  IN  after[Len(cal)]

PlanAt(s, place) == plan.status = "RUNNING" /\ plan.step = s /\ plan.place = place
Place(place) == plan' = [plan EXCEPT !.place = place]
Awaits == plan.status = "RUNNING" /\ plan.place # "gone"

\* runStepWithRetry: a step that succeeds hands on to the next ...
Succeeds(out) ==
  /\ outputs' = [outputs EXCEPT ![plan.step] = out]
  /\ plan' = [plan EXCEPT !.step = @ + 1, !.place = "begin", !.try = 1]
  /\ answer' = NotYet

\* ... one that throws ends the plan, unless the error is transient and tries are left.
Throws(transient) ==
  /\ plan' = IF transient /\ TriesLeft
             THEN [plan EXCEPT !.place = "begin", !.try = @ + 1]
             ELSE [plan EXCEPT !.status = "FAILED", !.place = "begin"]
  /\ answer' = NotYet /\ UNCHANGED outputs

-------------------------------------------------------------------------------
\* validate_context: the profile as it is now.
ValidateContext ==
  /\ PlanAt(1, "begin")
  /\ IF profile THEN Succeeds("done") ELSE Throws(FALSE)
  /\ UNCHANGED <<profile, assets, patch, credits, charged, metered, bounds>>

\* build_strategy, generate_pillars, generate_calendar: first the balance ...
CheckCredits(s) ==
  /\ PlanAt(s, "begin")
  /\ IF Sufficient(s) THEN Place("ask") /\ UNCHANGED <<outputs, answer>> ELSE Throws(FALSE)
  /\ UNCHANGED <<profile, assets, patch, credits, charged, metered, bounds>>

\* ... then the provider, whose answer is counted before anybody looks at it: it
\* has the form of the schema ...
ProviderAnswers(s) ==
  /\ PlanAt(s, "ask")
  /\ Place("charge")
  /\ answer' \in OutputOf(s)
  /\ metered' = [metered EXCEPT ![s] = @ + 1]
  /\ UNCHANGED <<profile, outputs, assets, patch, credits, charged, bounds>>

\* ... or it does not: a SyntaxError or a ValidationError, neither tried again.
ProviderAnswersNonsense(s) ==
  /\ PlanAt(s, "ask") /\ planFaults < MaxPlanFaults
  /\ metered' = [metered EXCEPT ![s] = @ + 1]
  /\ Throws(FALSE)
  /\ planFaults' = planFaults + 1
  /\ UNCHANGED <<profile, assets, patch, credits, charged, patches, planRetries>>

\* recordUsage: the balance is checked again.
ChargePlan(s) ==
  /\ PlanAt(s, "charge")
  /\ IF Sufficient(s)
     THEN /\ credits' = credits - Cost[s] /\ charged' = [charged EXCEPT ![s] = @ + 1]
          /\ Place("alert") /\ UNCHANGED <<outputs, answer>>
     ELSE Throws(FALSE) /\ UNCHANGED <<credits, charged>>
  /\ UNCHANGED <<profile, assets, patch, metered, bounds>>

\* checkAndTriggerUsageAlerts answered: the step returns its output.
AlertChecked(s) ==
  /\ PlanAt(s, "alert")
  /\ Succeeds(answer)
  /\ UNCHANGED <<profile, assets, patch, credits, charged, metered, bounds>>

ValidateOutput ==
  /\ PlanAt(5, "begin")
  /\ IF FitsPillars(outputs[4], outputs[3]) THEN Succeeds("done") ELSE Throws(FALSE)
  /\ UNCHANGED <<profile, assets, patch, credits, charged, metered, bounds>>

\* persist_assets: one transaction upserts every item ...
PersistAssets ==
  /\ PlanAt(6, "begin")
  /\ assets' = AllUpserted(assets, outputs[4])
  /\ Place("event")
  /\ UNCHANGED <<profile, outputs, answer, patch, credits, charged, metered, bounds>>

\* ... then the first-content event is looked for, and tracked at best effort.
FirstContentTracked ==
  /\ PlanAt(6, "event")
  /\ Succeeds("done")
  /\ UNCHANGED <<profile, assets, patch, credits, charged, metered, bounds>>

\* await_approval: a gate of the engine.
AskApproval ==
  /\ PlanAt(7, "begin")
  /\ plan' = [plan EXCEPT !.status = "AWAITING_APPROVAL"]
  /\ outputs' = [outputs EXCEPT ![7] = "done"]
  /\ UNCHANGED <<profile, answer, assets, patch, credits, charged, metered, bounds>>

\* approveInstance: no step is left.
ApprovePlan ==
  /\ plan.status = "AWAITING_APPROVAL"
  /\ plan' = [plan EXCEPT !.status = "COMPLETED"]
  /\ UNCHANGED <<profile, outputs, answer, assets, patch, credits, charged, metered, bounds>>

\* retryInstance: the failed step again, after the outputs on record.
RetryPlan ==
  /\ plan.status = "FAILED" /\ planRetries < MaxPlanRetries
  /\ plan' = [plan EXCEPT !.status = "RUNNING", !.place = "begin", !.try = 1]
  /\ planRetries' = planRetries + 1
  /\ UNCHANGED <<profile, outputs, answer, assets, patch, credits, charged, metered,
                 patches, planFaults>>

\* An await rejects, with an error that counts as transient or not; a charge may
\* have been committed all the same. validate_output awaits nothing.
StepRejects ==
  /\ Awaits /\ plan.step \notin {5, 7} /\ planFaults < MaxPlanFaults
  /\ \E transient \in BOOLEAN : Throws(transient)
  /\ \/ UNCHANGED <<credits, charged>>
     \/ /\ plan.place = "charge" /\ Sufficient(plan.step)
        /\ credits' = credits - Cost[plan.step]
        /\ charged' = [charged EXCEPT ![plan.step] = @ + 1]
  /\ planFaults' = planFaults + 1
  /\ UNCHANGED <<profile, assets, patch, metered, patches, planRetries>>

\* The process dies under the call; nothing takes a RUNNING instance up again.
PlanDies ==
  /\ Awaits /\ planFaults < MaxPlanFaults
  /\ Place("gone") /\ answer' = NotYet
  /\ planFaults' = planFaults + 1
  /\ UNCHANGED <<profile, outputs, assets, patch, credits, charged, metered,
                 patches, planRetries>>

\* The profile is edited, deleted or completed by other requests; only the first
\* step looks at it.
ProfileChanges ==
  /\ plan.step = 1
  /\ profile' = ~profile
  /\ UNCHANGED <<plan, outputs, answer, assets, patch, credits, charged, metered, bounds>>

-------------------------------------------------------------------------------
\* VALID_TRANSITIONS of an asset; a status may stay as it is.
MaySet(from, to) ==
  CASE to \in {"as it is", from} -> TRUE
    [] from = "DRAFT" -> to \in {"IN_REVIEW", "APPROVED"}
    [] from = "IN_REVIEW" -> to \in {"DRAFT", "APPROVED"}
    [] OTHER -> to = "IN_REVIEW"

\* updateContentAsset: read the asset and check the transition ...
PatchRead(e) ==
  /\ patch[e] = NotYet /\ patches < MaxPatches
  /\ \E p \in Patches :
       /\ assets[p.slot] # NotYet /\ p.read /\ (p.edit \/ p.to # "as it is")
       /\ MaySet(assets[p.slot].status, p.to)
       /\ patch' = [patch EXCEPT ![e] = p]
  /\ patches' = patches + 1
  /\ UNCHANGED <<profile, plan, outputs, answer, assets, credits, charged, metered,
                 planRetries, planFaults>>

\* ... and write what was asked for over the row as it is now.
PatchWrite(e) ==
  /\ patch[e] # NotYet
  /\ LET p == patch[e] IN
       assets' = [assets EXCEPT ![p.slot].edited = @ \/ p.edit,
                                ![p.slot].status = IF p.to = "as it is" THEN @ ELSE p.to]
  /\ patch' = [patch EXCEPT ![e] = NotYet]
  /\ UNCHANGED <<profile, plan, outputs, answer, credits, charged, metered, bounds>>

-------------------------------------------------------------------------------
PlanGoesOn ==
  \/ ValidateContext \/ ValidateOutput \/ PersistAssets \/ FirstContentTracked \/ AskApproval
  \/ \E s \in AISteps : CheckCredits(s) \/ ProviderAnswers(s) \/ ChargePlan(s) \/ AlertChecked(s)

PlanNext ==
  \/ PlanGoesOn \/ ApprovePlan \/ RetryPlan \/ StepRejects \/ PlanDies \/ ProfileChanges
  \/ \E s \in AISteps : ProviderAnswersNonsense(s)
  \/ \E e \in Editors : PatchRead(e) \/ PatchWrite(e)

\* The call that runs the plan goes on; no person has to do anything.
PlanSpec == PlanInit /\ [][PlanNext]_planVars /\ WF_planVars(PlanGoesOn)

-------------------------------------------------------------------------------
\* What people are given to review is the plan's calendar: an asset in each of its
\* slots and in no other, of a pillar the plan has, with a caption; also while a
\* failed persist_assets waits to be tried again (step05ValidateOutput, step06).
AssetsFitPlan ==
  /\ \A s \in Slots : assets[s] # NotYet =>
       /\ \E i \in ItemsOf(outputs[4]) : i.slot = s /\ i.pillar = assets[s].pillar
       /\ assets[s].pillar \in outputs[3] /\ assets[s].caption = "text"
  /\ plan.status \in {"AWAITING_APPROVAL", "COMPLETED"} =>
       \A i \in ItemsOf(outputs[4]) : assets[i.slot] # NotYet

\* The plan never takes back what a person decided or wrote, nor changes under an
\* approval what was approved: "a retry must never silently revert a human's
\* APPROVED/edited asset" (marketing-autopilot.steps.ts, lines 231-233).
ReviewKept ==
  \A s \in Slots : assets[s] # NotYet =>
    /\ assets'[s] # NotYet
    /\ assets'[s].pillar = assets[s].pillar /\ assets'[s].caption = assets[s].caption
    /\ assets'[s].edited # assets[s].edited \/ assets'[s].status # assets[s].status
         => \E e \in Editors : patch[e] # NotYet /\ patch[e].slot = s /\ patch'[e] = NotYet

\* An output the plan goes on with was paid for, and nothing is charged that the
\* provider did not answer, whatever is rejected and tried again.
PaidFor ==
  /\ \A s \in AISteps : /\ outputs[s] # NotYet => charged[s] >= 1
                        /\ charged[s] <= metered[s]
  /\ credits + charged[2] * Cost[2] + charged[3] * Cost[3] + charged[4] * Cost[4] = Credits

\* A plan comes to a person, or fails where it can be retried, unless its process died.
PlanSettles == (plan.status = "RUNNING") ~> (plan.status # "RUNNING" \/ plan.place = "gone")

\* Not so: two editors at once. Each checks its transition on the row it read, so an
\* asset approved in between falls straight back to DRAFT.
ReviewIsLegal == [][\A s \in Slots : assets[s] # NotYet =>
                      MaySet(assets[s].status, assets'[s].status)]_planVars
===============================================================================
