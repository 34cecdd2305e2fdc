--------------------------- MODULE MCWorkflowEngine ---------------------------
(***************************************************************************)
(* Workflow instances for TLC: a behaviour belongs to the engine, with     *)
(* handlers that only succeed or fail, to one marketing plan, with one     *)
(* call that executes its seven steps, or to what the pages of the         *)
(* frontend show of one query.                                             *)
(***************************************************************************)
EXTENDS WorkflowEngine, ContentPlan, ClientCache, TLC

CONSTANTS c1, c2, c3, e1, e2

VARIABLE part   \* the component this behaviour belongs to

\* CREDIT_COSTS in units of 5 credits.
CreditCosts == (2 :> 1) @@ (3 :> 1) @@ (4 :> 2)

reviewVars == <<part, vars, planVars, cacheVars>>

ReviewInit ==
  /\ part \in {"engine", "plan", "pages"}
  /\ Init /\ PlanInit /\ CacheInit
  /\ part # "plan" => profile
  /\ part # "pages" => key = UnreadCount

ReviewNext ==
  /\ UNCHANGED part
  /\ \/ part = "engine" /\ Next /\ UNCHANGED <<planVars, cacheVars>>
     \/ part = "plan" /\ PlanNext /\ UNCHANGED <<vars, cacheVars>>
     \/ part = "pages" /\ CacheNext /\ UNCHANGED <<vars, planVars>>

ReviewFairness ==
  /\ \A c \in Callers : WF_vars(part = "engine" /\ Proceed(c))
  /\ \A c \in Starters : WF_vars(part = "engine" /\ StartLook(c))
  /\ WF_planVars(part = "plan" /\ PlanGoesOn)
  /\ WF_cacheVars(part = "pages" /\ CacheGoesOn)
  /\ \A w \in WriteSlots : WF_cacheVars(part = "pages" /\ WriteGoesOn(w))

ReviewSpec == ReviewInit /\ [][ReviewNext]_reviewVars
FairReviewSpec == ReviewSpec /\ ReviewFairness

-------------------------------------------------------------------------------
\* What a plan promises: people review the calendar that was validated and paid for, and
\* keep what they decided. What the pages promise: valid data shows what its user wrote,
\* and never goes back (all queries of all pages).
ReviewHolds ==
  /\ [](PlanTypeOK /\ AssetsFitPlan /\ PaidFor) /\ [][ReviewKept]_planVars
  /\ [](CacheTypeOK /\ OwnWritesShow) /\ [][NeverGoesBack]_cacheVars

\* What is under way comes to rest: the calls of the engine, a plan, a page that loads.
ReviewSettles ==
  CallsSettle /\ (part = "plan" => PlanSettles) /\ LoadingEnds
===============================================================================
