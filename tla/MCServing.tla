-------------------------------- MODULE MCServing --------------------------------
(***************************************************************************)
(* What the service owes a workspace, for TLC: a behaviour belongs to its  *)
(* subscriptions and monthly grants (without payment events), to its data  *)
(* exports, to the HTTP server, or to the configuration the processes boot *)
(* with; the four share no state.                                          *)
(***************************************************************************)
EXTENDS Commerce, DataExport, HttpServer, Environment, TLC

CONSTANTS x1, k1, k2, u1, u2, ad1, ad2, t1

VARIABLE component   \* the component this behaviour belongs to

NoEvents == << >>

\* Two members of one workspace, each at an address of their own.
Homes == u1 :> ad1 @@ u2 :> ad2
OneTenant == u1 :> t1 @@ u2 :> t1

servingVars == <<component, commerceVars, exportVars, httpVars, configVars>>

ServingInit ==
  /\ component \in {"grants", "exports", "http", "config"}
  /\ CommerceInit /\ ExportInit /\ HttpInit
  /\ ConfigInit
  /\ component # "config" => settings = Production

ServingNext ==
  /\ UNCHANGED component
  /\ \/ component = "grants" /\ CommerceNext /\ UNCHANGED <<exportVars, httpVars, configVars>>
     \/ component = "exports" /\ ExportStep /\ UNCHANGED <<commerceVars, httpVars, configVars>>
     \/ component = "http" /\ HttpStep /\ UNCHANGED <<commerceVars, exportVars, configVars>>
     \/ component = "config" /\ ConfigStep /\ UNCHANGED <<commerceVars, exportVars, httpVars>>

\* The fairness of each component, for the behaviours that belong to it.
ServingFairness ==
  /\ \A c \in Callers : WF_commerceVars(component = "grants" /\ JobGoesOn(c))
  /\ \A w \in Exporters : WF_exportVars(component = "exports" /\ ExporterGoesOn(w))
  /\ WF_httpVars(component = "http" /\ Exit)
  /\ \A s \in Slots : WF_httpVars(component = "http" /\ TimeOut(s))

ServingSpec == ServingInit /\ [][ServingNext]_servingVars /\ ServingFairness

-------------------------------------------------------------------------------
\* The type invariants of the components.
ServingTypeOK == CommerceTypeOK /\ ExportTypeOK /\ HttpTypeOK /\ ConfigTypeOK

\* The process serves its callers, with the configuration it came up with.
ServiceHolds == CallersAreServed /\ SettingsHold

\* What has begun ends: a grant job, an export, a shutdown.
ServingSettles == SlotSettles /\ ExportIsMade /\ ShutdownEnds
===============================================================================
