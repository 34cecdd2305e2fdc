---------------------------------- MODULE Crm ----------------------------------
(***************************************************************************)
(* Contacts and leads of a workspace (src/backend/src/modules/crm/         *)
(* crm.service.ts). Every update reads the row, decides, and writes by id  *)
(* in a statement of its own.                                              *)
(***************************************************************************)
EXTENDS FiniteSets

CONSTANTS
  Contacts, Leads, Requests,
  NoContact,   \* the lead does not exist
  NoRequest    \* the request is not under way

ASSUME CrmAssumption == NoContact \notin Contacts

VARIABLES
  contact,   \* each contact row: "none", "live", "deleted" (deletedAt is set) or "gone"
  leadOf,    \* each lead: its contact
  leadStatus,
  req,       \* each request: what it is about to write, and the status it has read
  overtaken  \* history: leads written by an update that had read another status

crmVars == <<contact, leadOf, leadStatus, req, overtaken>>

LeadStatuses == {"NEW", "CONTACTED", "QUALIFIED", "WON", "LOST"}
Writes == [op : {"delete", "lead"}, on : Contacts] \cup
          [op : {"update"}, on : Leads, was : LeadStatuses, to : LeadStatuses]

\* Type invariant; a lead has a contact that was not purged.
CrmTypeOK ==
  /\ contact \in [Contacts -> {"none", "live", "deleted", "gone"}]
  /\ leadOf \in [Leads -> Contacts \cup {NoContact}]
  /\ leadStatus \in [Leads -> LeadStatuses]
  /\ req \in [Requests -> Writes \cup {NoRequest}]
  /\ overtaken \subseteq Leads

CrmInit ==
  /\ contact = [k \in Contacts |-> "none"]
  /\ leadOf = [l \in Leads |-> NoContact]
  /\ leadStatus = [l \in Leads |-> "NEW"]
  /\ req = [q \in Requests |-> NoRequest]
  /\ overtaken = {}

LeadsOf(k) == {l \in Leads : leadOf[l] = k}

\* Faulty variant: a lost or won deal may be taken up anywhere.
AnyLeadStatus(s) == LeadStatuses \ {s}

\* VALID_LEAD_TRANSITIONS.
NextLeadStatuses(s) ==
  CASE s = "NEW" -> {"CONTACTED", "LOST"}
    [] s = "CONTACTED" -> {"QUALIFIED", "LOST"}
    [] s = "QUALIFIED" -> {"WON", "LOST"}
    [] s = "WON" -> {}
    [] s = "LOST" -> {"NEW"}

-------------------------------------------------------------------------------
CreateContact(k) ==
  /\ contact[k] = "none"
  /\ contact' = [contact EXCEPT ![k] = "live"]
  /\ UNCHANGED <<leadOf, leadStatus, req, overtaken>>

\* deleteContact and createLead find the contact live ...
FindContact(q, k, op) ==
  /\ req[q] = NoRequest /\ contact[k] = "live"
  /\ req' = [req EXCEPT ![q] = [op |-> op, on |-> k]]
  /\ UNCHANGED <<contact, leadOf, leadStatus, overtaken>>

\* ... then set deletedAt ...
DeleteContact(q) ==
  /\ req[q] # NoRequest /\ req[q].op = "delete"
  /\ contact' = IF contact[req[q].on] = "gone" THEN contact
                ELSE [contact EXCEPT ![req[q].on] = "deleted"]
  /\ req' = [req EXCEPT ![q] = NoRequest]
  /\ UNCHANGED <<leadOf, leadStatus, overtaken>>

\* ... or insert the lead, with any status; the foreign key wants the row only.
CreateLead(q, l, s) ==
  /\ req[q] # NoRequest /\ req[q].op = "lead" /\ leadOf[l] = NoContact
  /\ IF contact[req[q].on] = "gone" THEN UNCHANGED <<leadOf, leadStatus>>
     ELSE /\ leadOf' = [leadOf EXCEPT ![l] = req[q].on]
          /\ leadStatus' = [leadStatus EXCEPT ![l] = s]
  /\ req' = [req EXCEPT ![q] = NoRequest]
  /\ UNCHANGED <<contact, overtaken>>

\* updateLead reads the lead and checks the transition ...
ReadLead(q, l, s) ==
  /\ req[q] = NoRequest /\ leadOf[l] # NoContact
  /\ s \in NextLeadStatuses(leadStatus[l])
  /\ req' = [req EXCEPT ![q] = [op |-> "update", on |-> l, was |-> leadStatus[l], to |-> s]]
  /\ UNCHANGED <<contact, leadOf, leadStatus, overtaken>>

\* ... and writes it whatever the status is by then.
UpdateLead(q) ==
  /\ req[q] # NoRequest /\ req[q].op = "update"
  /\ leadStatus' = [leadStatus EXCEPT ![req[q].on] = req[q].to]
  /\ overtaken' = IF req[q].was = leadStatus[req[q].on] THEN overtaken
                  ELSE overtaken \cup {req[q].on}
  /\ req' = [req EXCEPT ![q] = NoRequest]
  /\ UNCHANGED <<contact, leadOf>>

-------------------------------------------------------------------------------
\* Requests on contacts; a lead is created with one of the given statuses.
ContactStep(statuses) ==
  \/ \E k \in Contacts : CreateContact(k)
  \/ \E q \in Requests :
       \/ \E k \in Contacts, op \in {"delete", "lead"} : FindContact(q, k, op)
       \/ DeleteContact(q)
       \/ \E l \in Leads, s \in statuses : CreateLead(q, l, s)

LeadStep ==
  \E q \in Requests :
    \/ \E l \in Leads, s \in LeadStatuses : ReadLead(q, l, s)
    \/ UpdateLead(q)

CrmStep == ContactStep(LeadStatuses) \/ LeadStep

CrmSpec == CrmInit /\ [][CrmStep]_crmVars

-------------------------------------------------------------------------------
\* "Do not allow arbitrary state transitions" (lines 118-122): a deal that is won stays
\* won, unless an update that read the lead before it was won is written after it.
WonStaysWon ==
  [][\A l \in Leads : leadStatus[l] = "WON" => leadStatus'[l] = "WON" \/ l \in overtaken']_crmVars
===============================================================================
