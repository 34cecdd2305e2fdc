------------------------------- MODULE PlanReview -------------------------------
(***************************************************************************)
(* The page on which a marketing plan is started and reviewed: Marketing-  *)
(* AutopilotPage.tsx keeps the instance on the screen, each card of        *)
(* ContentCalendarReview.tsx saves its own asset, and the server's answer  *)
(* is put into the instance that the card was drawn from. Cards save at    *)
(* the same time, the plan is approved or left for a new one meanwhile,    *)
(* and other people review the same plan. One user, one tab.               *)
(***************************************************************************)
EXTENDS Naturals

CONSTANTS
  Cards,        \* content assets of a plan
  Nothing,
  MaxPlans,     \* bound: plans of the workspace
  MaxSaves,     \* bound: PATCH requests of the user
  MaxMishaps    \* bound: requests that fail, reviews by other people

CardStatuses == {"DRAFT", "IN_REVIEW", "APPROVED"}
Views == [plan : 1..MaxPlans, status : {"AWAITING_APPROVAL", "COMPLETED"},
          assets : [Cards -> CardStatuses]]
Saves == [base : Views, to : {"IN_REVIEW", "APPROVED"}, applied : BOOLEAN]

ASSUME PlanReviewAssumption ==
  /\ MaxPlans \in Nat \ {0} /\ MaxSaves \in Nat /\ MaxMishaps \in Nat
  /\ Nothing \notin Views \cup Saves

VARIABLES
  plans,    \* the server: status and assets of each plan
  latest,   \* latest-workflow-instance, as the page loaded it
  instance, \* the page's own: what start, approve and the cards put there
  newForm,  \* viewingNewForm
  save,     \* each card: its request, with the instance it was drawn from
  request,  \* approving or starting
  saves, mishaps,
  strayed   \* history: a card's answer was put into an instance the screen had left behind,
            \* or came after the page's own answer was read, a request failed after it was
            \* applied, somebody else reviewed, or latest is cached

reviewPageVars == <<plans, latest, instance, newForm, save, request, saves, mishaps, strayed>>

NoRequest == [do |-> "no", plan |-> 0, view |-> Nothing]
NewPlan(n) == [plan |-> n, status |-> "AWAITING_APPROVAL",
               assets |-> [c \in Cards |-> "DRAFT"]]
Made == {n \in 1..MaxPlans : plans[n] # Nothing}
LatestPlan == CHOOSE n \in Made : \A o \in Made : o <= n

\* effectiveInstance.
Effective == IF instance # Nothing THEN instance ELSE IF newForm THEN Nothing ELSE latest

\* Type invariant; a plan's number is its place.
ReviewPageTypeOK ==
  /\ plans \in [1..MaxPlans -> Views \cup {Nothing}]
  /\ \A n \in Made : plans[n].plan = n
  /\ latest \in Views /\ instance \in Views \cup {Nothing}
  /\ newForm \in BOOLEAN /\ strayed \in BOOLEAN
  /\ save \in [Cards -> Saves \cup {Nothing}]
  /\ request \in [do : {"no", "approve", "approved", "start", "started"}, plan : 0..MaxPlans,
                  view : Views \cup {Nothing}]
  /\ saves \in 0..MaxSaves /\ mishaps \in 0..MaxMishaps

ReviewPageInit ==
  /\ plans = [n \in 1..MaxPlans |-> IF n = 1 THEN NewPlan(1) ELSE Nothing]
  /\ latest = NewPlan(1) /\ instance = Nothing /\ newForm = FALSE
  /\ save = [c \in Cards |-> Nothing] /\ request = NoRequest
  /\ saves = 0 /\ mishaps = 0 /\ strayed = FALSE

-------------------------------------------------------------------------------
\* Faulty variant: the answer dropped.
Unchanged(view, c, to) == view

\* updateAssetInList.
WithAsset(view, c, to) == [view EXCEPT !.assets[c] = to]
\* Textarea and buttons are disabled on an approved asset.
Editable(c) == Effective.assets[c] # "APPROVED"

Allowed(from, to) == from # to => <<from, to>> \in
  {<<"DRAFT", "IN_REVIEW">>, <<"DRAFT", "APPROVED">>, <<"IN_REVIEW", "DRAFT">>,
   <<"IN_REVIEW", "APPROVED">>, <<"APPROVED", "IN_REVIEW">>}
Idle == request.do = "no" /\ \A c \in Cards : save[c] = Nothing

-------------------------------------------------------------------------------
\* handleSave: the request goes out with what the card shows; one request a card.
Save(c) ==
  /\ Effective # Nothing /\ Editable(c) /\ save[c] = Nothing /\ saves < MaxSaves
  /\ \E to \in {"IN_REVIEW", "APPROVED"} :
       save' = [save EXCEPT ![c] = [base |-> Effective, to |-> to, applied |-> FALSE]]
  /\ saves' = saves + 1
  /\ UNCHANGED <<plans, latest, instance, newForm, request, mishaps, strayed>>

\* updateContentAsset of the server: 409 unless the transition is legal.
ServerPatches(c) ==
  /\ save[c] # Nothing /\ ~save[c].applied
  /\ LET n == save[c].base.plan IN
     IF Allowed(plans[n].assets[c], save[c].to)
        THEN /\ plans' = [plans EXCEPT ![n].assets[c] = save[c].to]
             /\ save' = [save EXCEPT ![c].applied = TRUE]
        ELSE save' = [save EXCEPT ![c] = Nothing] /\ UNCHANGED plans
  /\ UNCHANGED <<latest, instance, newForm, request, saves, mishaps, strayed>>

\* onUpdated: the answer goes into the instance of the click, and that on the screen.
SaveAnswered(c) ==
  /\ save[c] # Nothing /\ save[c].applied
  /\ instance' = WithAsset(save[c].base, c, save[c].to)
  /\ strayed' = (strayed \/ save[c].base # Effective \/ request.view # Nothing)
  /\ save' = [save EXCEPT ![c] = Nothing]
  /\ UNCHANGED <<plans, latest, newForm, request, saves, mishaps>>

\* handleApproveWorkflow ...
PressApprove ==
  /\ request.do = "no" /\ Effective # Nothing /\ Effective.status = "AWAITING_APPROVAL"
  /\ request' = [do |-> "approve", plan |-> Effective.plan, view |-> Nothing]
  /\ UNCHANGED <<plans, latest, instance, newForm, save, saves, mishaps, strayed>>

\* ... approveInstance, and the row read again for the answer ...
ServerApproves ==
  /\ request.do = "approve"
  /\ IF plans[request.plan].status = "AWAITING_APPROVAL"
     THEN /\ plans' = [plans EXCEPT ![request.plan].status = "COMPLETED"]
          /\ request' = [request EXCEPT !.do = "approved"]
     ELSE request' = NoRequest /\ UNCHANGED plans
  /\ UNCHANGED <<latest, instance, newForm, save, saves, mishaps, strayed>>

\* handleStart: the new plan, then its detail.
PressStart ==
  /\ request.do = "no" /\ Effective = Nothing /\ newForm /\ LatestPlan < MaxPlans
  /\ request' = [do |-> "start", plan |-> LatestPlan + 1, view |-> Nothing]
  /\ UNCHANGED <<plans, latest, instance, newForm, save, saves, mishaps, strayed>>

ServerStarts ==
  /\ request.do = "start"
  /\ plans' = [plans EXCEPT ![request.plan] = NewPlan(request.plan)]
  /\ request' = [request EXCEPT !.do = "started"]
  /\ UNCHANGED <<latest, instance, newForm, save, saves, mishaps, strayed>>

\* Both answers are the instance as it is read after that ...
ServerReadsBack ==
  /\ request.do \in {"approved", "started"} /\ request.view = Nothing
  /\ request' = [request EXCEPT !.view = plans[request.plan]]
  /\ UNCHANGED <<plans, latest, instance, newForm, save, saves, mishaps, strayed>>

\* ... and come on the screen over what is there.
Answered ==
  /\ request.view # Nothing
  /\ instance' = request.view
  /\ newForm' = IF request.do = "started" THEN FALSE ELSE newForm
  /\ request' = NoRequest
  /\ UNCHANGED <<plans, latest, save, saves, mishaps, strayed>>

\* "Yeni plan yarat".
PressNewPlan ==
  /\ Effective # Nothing
  /\ instance' = Nothing /\ newForm' = TRUE
  /\ UNCHANGED <<plans, latest, save, request, saves, mishaps, strayed>>

\* The page is left and opened again, with no request under way: its state is gone, and
\* latest comes from the cache, which no write of this page invalidates, or anew.
Reopen ==
  /\ Idle
  /\ instance' = Nothing /\ newForm' = FALSE
  /\ \/ latest' = plans[LatestPlan] /\ strayed' = FALSE
     \/ UNCHANGED latest /\ strayed' = TRUE
  /\ UNCHANGED <<plans, save, request, saves, mishaps>>

\* A request fails before or after it was applied: the error is shown, nothing else.
SaveFails(c) ==
  /\ save[c] # Nothing /\ mishaps < MaxMishaps /\ mishaps' = mishaps + 1
  /\ save' = [save EXCEPT ![c] = Nothing]
  /\ strayed' = (strayed \/ save[c].applied)
  /\ UNCHANGED <<plans, latest, instance, newForm, request, saves>>

RequestFails ==
  /\ request.do # "no" /\ mishaps < MaxMishaps /\ mishaps' = mishaps + 1
  /\ request' = NoRequest
  /\ strayed' = (strayed \/ request.do \in {"approved", "started"})
  /\ UNCHANGED <<plans, latest, instance, newForm, save, saves>>

OthersReview ==
  /\ mishaps < MaxMishaps /\ mishaps' = mishaps + 1 /\ strayed' = TRUE
  /\ \E n \in Made, c \in Cards, to \in CardStatuses :
       /\ Allowed(plans[n].assets[c], to)
       /\ plans' = [plans EXCEPT ![n].assets[c] = to]
  /\ UNCHANGED <<latest, instance, newForm, save, request, saves>>

-------------------------------------------------------------------------------
ReviewPageGoesOn ==
  ServerApproves \/ ServerStarts \/ ServerReadsBack \/ Answered \/ \E c \in Cards : ServerPatches(c) \/ SaveAnswered(c)

ReviewPageNext ==
  \/ ReviewPageGoesOn \/ PressApprove \/ PressStart \/ PressNewPlan \/ Reopen
  \/ RequestFails \/ OthersReview
  \/ \E c \in Cards : Save(c) \/ SaveFails(c)

ReviewPageSpec == ReviewPageInit /\ [][ReviewPageNext]_reviewPageVars

-------------------------------------------------------------------------------
\* With no request under way the page shows its plan as the server has it:
\* nothing the user did is lost on the screen. What can come between:
\* a card's answer put into an instance the screen had left behind (two cards saved at
\* once, a plan left or its approval answered meanwhile) or overtaken by an approval read
\* before it, a lost answer, another reviewer, the cached plan. A card answered while an
\* approval or a start is under way loses nothing.
ScreenAgrees ==
  (Idle /\ Effective # Nothing /\ ~strayed) => Effective = plans[Effective.plan]

\* Not so: two cards saved at once. The second answer shows the first card as it was; its
\* owner saves it again, and an approval given before is taken back.
NothingLostOnScreen ==
  (Idle /\ Effective # Nothing /\ mishaps = 0) => Effective = plans[Effective.plan]
===============================================================================
