------------------------------ MODULE MCTeamSeats ------------------------------
(***************************************************************************)
(* The people of a workspace, for TLC: a behaviour belongs to the team and *)
(* its seats, or to the page on which one of them reviews a plan.          *)
(***************************************************************************)
EXTENDS TeamSeats, PlanReview, TLC

CONSTANTS u1, u2, u3, c1, c2, a1, a2

VARIABLE part   \* the component this behaviour belongs to

Perms == Permutations({u2, u3}) \cup Permutations({c1, c2}) \cup Permutations({a1, a2})
OneThenTwo == 0 :> 1 @@ 1 :> 2

peopleVars == <<part, teamVars, reviewPageVars>>

PeopleInit ==
  /\ part \in {"team", "page"}
  /\ TeamInit /\ ReviewPageInit

PeopleNext ==
  /\ UNCHANGED part
  /\ \/ part = "team" /\ TeamNext /\ UNCHANGED reviewPageVars
     \/ part = "page" /\ ReviewPageNext /\ UNCHANGED teamVars

PeopleSpec == PeopleInit /\ [][PeopleNext]_peopleVars

\* The type invariants of the two components.
PeopleTypeOK == TeamTypeOK /\ ReviewPageTypeOK
===============================================================================
