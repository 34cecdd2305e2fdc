----------------------------- MODULE DataRetention -----------------------------
(***************************************************************************)
(* The retention purge (src/backend/src/modules/data-retention/            *)
(* data-retention.service.ts): rows soft-deleted for longer than           *)
(* DATA_RETENTION_DAYS are deleted one by one, each with its audit entry,  *)
(* while contacts, leads and members go on changing.                       *)
(***************************************************************************)
EXTENDS Crm, Integers

CONSTANTS
  Members,       \* workspace member rows
  Purgers,       \* job workers and admin requests
  PurgeIds,      \* DataRetentionPurgeRun rows that may be RUNNING at once
  NotPurging,
  MaxPurgeFaults \* bound: failures and crashes

\* Contacts and members are rows of different tables.
ASSUME PurgeAssumption == MaxPurgeFaults \in Nat /\ Contacts \cap Members = {}

VARIABLES
  member,    \* each member row: "none", "live", "deleted" or "gone"
  expired,   \* rows whose deletedAt is older than the retention period
  audits,    \* DELETE entries of the audit log, per row
  running,   \* purge runs that are RUNNING
  late,      \* of those, the ones past PURGE_STALE_RUNNING_MINUTES
  purger,    \* each process: what it does next, for which run, on which rows
  purgeFaults,
  wronged,   \* history: rows purged that were not expired
  rejoined   \* history: members re-activated between their selection and their purge

retentionVars == <<member, expired, audits, running, late, purger, purgeFaults, wronged, rejoined>>
purgeVars == <<crmVars, retentionVars>>
otherRows == <<leadStatus, req, overtaken>>

Purgeable == Contacts \cup Members
State(r) == IF r \in Contacts THEN contact[r] ELSE member[r]

\* Type invariant; what is expired is deleted, and was not brought back.
PurgeTypeOK ==
  /\ CrmTypeOK
  /\ member \in [Members -> {"none", "live", "deleted", "gone"}]
  /\ \A r \in expired : State(r) = "deleted"
  /\ audits \in [Purgeable -> 0..1]
  /\ late \subseteq running /\ running \subseteq PurgeIds
  /\ \A p \in Purgers : purger[p] = NotPurging \/
       /\ purger[p].do \in {"guard", "create", "contacts", "contact", "member"}
       /\ purger[p].todo \subseteq Purgeable \cup PurgeIds
       /\ purger[p].run \in PurgeIds \cup {NotPurging}
  /\ purgeFaults \in 0..MaxPurgeFaults

PurgeInit ==
  /\ CrmInit
  /\ member = [m \in Members |-> "none"]
  /\ expired = {} /\ audits = [r \in Purgeable |-> 0]
  /\ running = {} /\ late = {} /\ purger = [p \in Purgers |-> NotPurging]
  /\ purgeFaults = 0 /\ wronged = {} /\ rejoined = {}

-------------------------------------------------------------------------------
\* Faulty variants: the lead condition dropped; the retention period ignored; an audit
\* entry whether or not a row was deleted; abandoned runs never given up.
AnyContact == expired \cap Contacts
AnyRemoved == {m \in Members : member[m] = "deleted"}
AuditedAnyway(r) == 1
NeverAbandoned(seen) == {}

\* What the contacts' and the members' select finds.
DueContacts == {k \in expired \cap Contacts : LeadsOf(k) = {}}
DueMembers == expired \cap Members

\* Audit entries the transaction that deletes r writes.
Audited(r) == IF State(r) = "gone" THEN 0 ELSE 1

\* The RUNNING runs read that guardAgainstConcurrentPurge gives up.
Abandoned(seen) == seen \cap late

Does(p, do) == purger[p] # NotPurging /\ purger[p].do = do
ThenDo(p, d) == purger' = [purger EXCEPT ![p] = d]
OnTo(p, do, todo) == ThenDo(p, [purger[p] EXCEPT !.do = do, !.todo = todo])
Free == PurgeIds \ (running \cup {purger[p].run : p \in {q \in Purgers : purger[q] # NotPurging}})

-------------------------------------------------------------------------------
\* runDataRetentionPurge: guardAgainstConcurrentPurge reads the RUNNING runs ...
PurgeGuard(p) ==
  /\ purger[p] = NotPurging
  /\ ThenDo(p, [do |-> "guard", run |-> NotPurging, todo |-> running])
  /\ UNCHANGED <<crmVars, member, expired, audits, running, late, purgeFaults, wronged, rejoined>>

\* ... and throws unless all of them are abandoned; those it meets first are FAILED.
Reap(p) ==
  /\ Does(p, "guard")
  /\ LET abandoned == Abandoned(purger[p].todo) IN
     \E reaped \in {R \in SUBSET abandoned : purger[p].todo = abandoned => R = abandoned} :
       /\ running' = running \ reaped /\ late' = late \ reaped
       /\ IF purger[p].todo = abandoned THEN OnTo(p, "create", {}) ELSE ThenDo(p, NotPurging)
  /\ UNCHANGED <<crmVars, member, expired, audits, purgeFaults, wronged, rejoined>>

\* The run is created; the select of leads finds none, since nothing soft-deletes a lead.
StartPurge(p) ==
  /\ Does(p, "create")
  /\ \E i \in Free : running' = running \cup {i}
                     /\ ThenDo(p, [do |-> "contacts", run |-> i, todo |-> {}])
  /\ UNCHANGED <<crmVars, member, expired, audits, late, purgeFaults, wronged, rejoined>>

SelectContacts(p) ==
  /\ Does(p, "contacts")
  /\ OnTo(p, "contact", DueContacts)
  /\ UNCHANGED <<crmVars, member, expired, audits, running, late, purgeFaults, wronged, rejoined>>

SelectMembers(p) ==
  /\ Does(p, "contact") /\ purger[p].todo = {}
  /\ OnTo(p, "member", DueMembers)
  /\ UNCHANGED <<crmVars, member, expired, audits, running, late, purgeFaults, wronged, rejoined>>

\* purgeRows: deletion by id and audit entry in one transaction; the leads of a contact go
\* with it.
PurgeRow(p) ==
  /\ Does(p, "contact") \/ Does(p, "member")
  /\ \E r \in purger[p].todo :
       /\ contact' = IF r \in Contacts THEN [contact EXCEPT ![r] = "gone"] ELSE contact
       /\ member' = IF r \in Members THEN [member EXCEPT ![r] = "gone"] ELSE member
       /\ leadOf' = [l \in Leads |-> IF leadOf[l] = r THEN NoContact ELSE leadOf[l]]
       /\ audits' = [audits EXCEPT ![r] = @ + Audited(r)]
       /\ wronged' = IF r \in expired \/ State(r) = "gone" THEN wronged ELSE wronged \cup {r}
       /\ expired' = expired \ {r}
       /\ OnTo(p, purger[p].do, purger[p].todo \ {r})
  /\ UNCHANGED <<otherRows, running, late, purgeFaults, rejoined>>

\* SUCCEEDED.
PurgeDone(p) ==
  /\ Does(p, "member") /\ purger[p].todo = {}
  /\ running' = running \ {purger[p].run} /\ late' = late \ {purger[p].run}
  /\ ThenDo(p, NotPurging)
  /\ UNCHANGED <<crmVars, member, expired, audits, purgeFaults, wronged, rejoined>>

\* A statement fails: the catch block marks the run FAILED. Or the process dies, and the
\* run stays RUNNING.
PurgeStops(p) ==
  /\ purger[p] # NotPurging /\ purgeFaults < MaxPurgeFaults
  /\ purgeFaults' = purgeFaults + 1
  /\ \E gone \in {{}, {purger[p].run}} : running' = running \ gone /\ late' = late \ gone
  /\ ThenDo(p, NotPurging)
  /\ UNCHANGED <<crmVars, member, expired, audits, wronged, rejoined>>

\* A run has been RUNNING for too long.
RunAges(i) ==
  /\ i \in running \ late
  /\ late' = late \cup {i}
  /\ UNCHANGED <<crmVars, member, expired, audits, running, purger, purgeFaults, wronged, rejoined>>

\* Days pass after a soft delete: no request that saw the row live is still under way.
RowExpires(r) ==
  /\ State(r) = "deleted" /\ r \notin expired
  /\ ~\E q \in Requests : req[q] # NoRequest /\ req[q].on = r
  /\ expired' = expired \cup {r}
  /\ UNCHANGED <<crmVars, member, audits, running, late, purger, purgeFaults, wronged, rejoined>>

\* acceptInvitation and removeMember on one member row.
Join(m) ==
  /\ member[m] \in {"none", "deleted"}
  /\ member' = [member EXCEPT ![m] = "live"]
  /\ expired' = expired \ {m}
  /\ rejoined' = IF \E p \in Purgers : purger[p] # NotPurging /\ m \in purger[p].todo
                 THEN rejoined \cup {m} ELSE rejoined
  /\ UNCHANGED <<crmVars, audits, running, late, purger, purgeFaults, wronged>>

Leave(m) ==
  /\ member[m] = "live"
  /\ member' = [member EXCEPT ![m] = "deleted"]
  /\ UNCHANGED <<crmVars, expired, audits, running, late, purger, purgeFaults, wronged, rejoined>>

-------------------------------------------------------------------------------
PurgeGoesOn(p) ==
  PurgeGuard(p) \/ Reap(p) \/ StartPurge(p) \/ SelectContacts(p) \/ SelectMembers(p)
  \/ PurgeRow(p) \/ PurgeDone(p)

PurgeStep ==
  \/ \E p \in Purgers : PurgeGoesOn(p) \/ PurgeStops(p)
  \/ \E i \in PurgeIds : RunAges(i)
  \/ \E r \in Purgeable : RowExpires(r)
  \/ \E m \in Members : Join(m) \/ Leave(m)
  \/ ContactStep({"NEW"}) /\ UNCHANGED retentionVars   \* statuses do not matter here

PurgeSpec == PurgeInit /\ [][PurgeStep]_purgeVars

\* The weekly schedule purges again and again, and what runs goes on; time passes.
PurgeFairness ==
  /\ \A p \in Purgers : WF_purgeVars(PurgeGoesOn(p))
  /\ \A i \in PurgeIds : WF_purgeVars(RunAges(i))

PurgeFairSpec == PurgeSpec /\ PurgeFairness

-------------------------------------------------------------------------------
\* "A real safety condition against the Lead->Contact cascade-delete risk" (lines
\* 116-119): no purge ever takes a lead, whatever is created while it runs.
NoLeadIsPurged == [][\A l \in Leads : leadOf[l] # NoContact => leadOf'[l] = leadOf[l]]_purgeVars

\* "A purge and its audit trail can never diverge" (lines 84-91): every row purged has
\* one entry, however many purges deleted it at once or failed half-way.
PurgedAuditedOnce == \A r \in Purgeable : audits[r] = IF State(r) = "gone" THEN 1 ELSE 0

\* Only rows deleted for longer than the retention period are purged, but for a member
\* re-activated between the purge's select and its delete.
OnlyExpiredPurged == wronged \subseteq rejoined

\* What purges and requests that overlap may do to the rows of the CRM.
RowsAreKept == [](PurgedAuditedOnce /\ OnlyExpiredPurged) /\ NoLeadIsPurged /\ WonStaysWon

\* Every expired row without leads is purged in the end, or brought back: a crashed run
\* does not block the purges for ever, a failed one does not lose its rest.
ExpiredIsPurged == \A r \in Purgeable :
  (r \in expired /\ LeadsOf(r) = {}) ~> r \notin expired
===============================================================================
