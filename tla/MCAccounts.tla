------------------------------- MODULE MCAccounts -------------------------------
(***************************************************************************)
(* What the users of a workspace do, for TLC: a behaviour belongs to the   *)
(* sessions of an account and its browser, to onboarding and content       *)
(* review, to the credit alerts, to the claims and requests of a browser   *)
(* while roles change and are seeded, or to two processes that seed them;  *)
(* these share no state.                                                   *)
(***************************************************************************)
EXTENDS BrowserAuth, Activation, UsageAlerts, AccessControl, TLC

CONSTANTS c1, c2, a1, b1, u1, s1, s2

VARIABLE part   \* the component this behaviour belongs to

Perms == Permutations({c1, c2})
ByU1 == b1 :> u1

\* An administrator grants, or takes away, what an action costs.
GrantOrTake == {4, -4}

\* A behaviour of the sessions has one crash, or one session or token that runs out of time.
OneMishap == crashes + Cardinality(overdue) + Cardinality(lapsed) <= 1

accountsVars == <<part, browserAuthVars, activationVars, alertVars, accessVars>>

AccountsInit ==
  /\ part \in {"auth", "activation", "alerts", "access", "seeding"}
  /\ BrowserInit /\ ActivationInit /\ AlertInit /\ AccessInit
  /\ part # "access" => admins = {}

AccountsNext ==
  /\ UNCHANGED part
  /\ \/ /\ part = "auth" /\ BrowserNext /\ OneMishap'
        /\ UNCHANGED <<activationVars, alertVars, accessVars>>
     \/ part = "activation" /\ ActivationStep /\ UNCHANGED <<browserAuthVars, alertVars, accessVars>>
     \/ part = "alerts" /\ AlertStep /\ UNCHANGED <<browserAuthVars, activationVars, accessVars>>
     \/ /\ UNCHANGED <<browserAuthVars, activationVars, alertVars>>
        /\ \/ part = "access" /\ AccessNext /\ seeder'[s2] = Nothing /\ cuts' = 0
           \/ part = "seeding" /\ \E s \in Seeders : Seed(s)

AccountsSpec == AccountsInit /\ [][AccountsNext]_accountsVars

-------------------------------------------------------------------------------
\* The type invariants of the components.
AccountsTypeOK == AuthTypeOK /\ BrowserTypeOK /\ ActivationTypeOK /\ AlertTypeOK /\ AccessTypeOK

\* Sessions end where they must, and a browser presents no refresh token twice.
SessionsHold == []SessionsEnd /\ PresentedOnce
===============================================================================
