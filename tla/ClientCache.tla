------------------------------ MODULE ClientCache ------------------------------
(***************************************************************************)
(* What the pages of the frontend show of the server: the queries of each  *)
(* page, cached under their keys by react-query as QueryProvider configures *)
(* it (src/frontend/src/app/providers/QueryProvider.tsx), and the writes   *)
(* that invalidate them (src/frontend/src/features). Entries do not        *)
(* interact: a behaviour follows one key, from page to page.               *)
(***************************************************************************)
EXTENDS Naturals, Sequences, FiniteSets

CONSTANTS
  NoValue,         \* no data, no fetch, no write
  WriteSlots,      \* writes that may be under way at once
  MaxVersion,      \* bound: changes of the data on the server
  MaxFetchFaults,  \* bound: fetches and writes that fail
  MaxMoves         \* bound: moves from page to page

ASSUME ClientCacheAssumption ==
  /\ NoValue \notin Nat
  /\ MaxVersion \in Nat /\ MaxFetchFaults \in Nat /\ MaxMoves \in Nat

\* The keys, without the workspace; the page "elsewhere" stands for /login, /register.
Subscription_ == <<"subscription">>
Usage == <<"usage">>
Profiles == <<"business-profiles">>
UnreadCount == <<"notifications", "unread-count">>
Preview == <<"notifications", "preview">>
NotificationList == <<"notifications", "list">>
Retention == <<"admin", "retention">>
RetentionPreview == <<"admin", "retention", "preview">>
BackupsKey == <<"admin", "backups">>
AlertsKey == <<"admin", "alerts">>

\* useQuery of each page.
DashboardQueries == {Profiles, <<"dashboard-activity">>, <<"usage-summary">>}
AutopilotQueries == {Profiles, <<"latest-workflow-instance">>}
BillingQueries == {Subscription_, Usage, <<"plans">>, <<"invoices">>}
TeamQueries == {<<"members">>, <<"invitations">>}
AdminQueries == {<<"admin", "dashboard">>, BackupsKey, AlertsKey, Retention, RetentionPreview,
                 <<"admin", "users">>, <<"admin", "workspaces">>}
PageQueries ==
  [p \in {"dashboard", "autopilot", "onboarding", "billing", "team", "crm", "feedback",
          "notifications", "admin", "elsewhere"} |->
     CASE p = "dashboard" -> DashboardQueries
       [] p = "autopilot" -> AutopilotQueries
       [] p = "billing" -> BillingQueries
       [] p = "team" -> TeamQueries
       [] p = "crm" -> {<<"contacts">>}
       [] p = "feedback" -> {<<"feedback">>}
       [] p = "notifications" -> {NotificationList}
       [] p = "admin" -> AdminQueries
       [] OTHER -> {}]
Pages == DOMAIN PageQueries
\* The bell in the header of AppShell.
BellPages == Pages \ {"onboarding", "elsewhere"}
Keys_ == {UnreadCount, Preview} \cup UNION {PageQueries[p] : p \in Pages}
\* refetchInterval.
Polled == {UnreadCount, AlertsKey}

\* The writes: where they are made, the key prefixes they invalidate when they are
\* answered, and the queries whose answer they change.
BillingWrites == {[on |-> {"billing"}, tells |-> {Subscription_, Usage}, changes |-> {Subscription_, Usage}]}
TeamWrites ==
  {[on |-> {"team"}, tells |-> {<<"members">>, <<"invitations">>}, changes |-> {k}] :
     k \in {<<"members">>, <<"invitations">>}}
CrmWrites == {[on |-> {"crm"}, tells |-> {<<"contacts">>}, changes |-> {<<"contacts">>}]}
FeedbackWrites == {[on |-> {"feedback"}, tells |-> {<<"feedback">>}, changes |-> {<<"feedback">>}]}
ProfileWrites == {[on |-> {"onboarding"}, tells |-> {Profiles}, changes |-> {Profiles}]}
ReadWrites == {[on |-> BellPages, tells |-> {<<"notifications">>},
                changes |-> {UnreadCount, Preview, NotificationList}]}
AdminWrites == {[on |-> {"admin"}, tells |-> {Retention}, changes |-> {Retention, RetentionPreview}],
                [on |-> {"admin"}, tells |-> {BackupsKey}, changes |-> {BackupsKey}]}
Writes_ == BillingWrites \cup TeamWrites \cup CrmWrites \cup FeedbackWrites \cup ProfileWrites
           \cup ReadWrites \cup AdminWrites

VARIABLES
  key,      \* the query that is followed
  page,
  bellOpen, \* the bell's dropdown: enabled of the preview
  entry,    \* data (a version), invalid, fresh (within staleTime), failed
  fetch,    \* the fetch under way: place, what the server answered, try
  version,  \* of the data on the server
  writes,   \* this client's writes under way
  acked,    \* the version of the last write that was answered and told the cache
  late,     \* history: [fetch, data]: it was under way when it was told to be invalid
  fetchFaults, moves

cacheVars == <<key, page, bellOpen, entry, fetch, version, writes, acked, late,
               fetchFaults, moves>>

NoData == [data |-> NoValue, invalid |-> FALSE, fresh |-> FALSE, failed |-> FALSE]
Versions == 0..MaxVersion

\* Type invariant.
CacheTypeOK ==
  /\ key \in Keys_ /\ page \in Pages /\ bellOpen \in BOOLEAN
  /\ entry.data \in Versions \cup {NoValue}
  /\ entry.data = NoValue => ~entry.fresh
  /\ {entry.invalid, entry.fresh, entry.failed} \subseteq BOOLEAN
  /\ fetch # NoValue => fetch \in [place : {"asked"}, value : {NoValue}, try : {1, 2}]
                                  \cup [place : {"answered"}, value : 0..version, try : {1, 2}]
  /\ version \in Versions /\ acked \in 0..version
  /\ \A w \in WriteSlots : writes[w] # NoValue =>
       writes[w].write \in Writes_ /\ writes[w].applied \in 0..version
  /\ late \in [fetch : BOOLEAN, data : BOOLEAN] /\ fetchFaults \in 0..MaxFetchFaults /\ moves \in 0..MaxMoves

CacheInit ==
  /\ key \in Keys_ /\ page = "elsewhere" /\ bellOpen = FALSE
  /\ entry = NoData /\ fetch = NoValue
  /\ version = 0 /\ writes = [w \in WriteSlots |-> NoValue]
  /\ acked = 0 /\ late = [fetch |-> FALSE, data |-> FALSE] /\ fetchFaults = 0 /\ moves = 0

-------------------------------------------------------------------------------
\* Who shows the query: an enabled observer is on the screen.
ShownOn(p, open) ==
  \/ key \in PageQueries[p]
  \/ p \in BellPages /\ (key = UnreadCount \/ (key = Preview /\ open))
Active == ShownOn(page, bellOpen)
\* A disabled observer keeps the entry too.
Observed == Active \/ (page \in BellPages /\ key = Preview)

IsPrefixOf(k, l) == Len(k) <= Len(l) /\ SubSeq(l, 1, Len(k)) = k

\* Faulty variants: a key that must be named in full; what is on the screen only marked.
NamedInFull(k) == k = key
OnlyMarked == FALSE

\* invalidateQueries: the key is a prefix.
Matches(k) == IsPrefixOf(k, key)
\* refetchType: what is on the screen.
Refetches == Active

Stale(e) == e.data = NoValue \/ e.invalid \/ ~e.fresh
Asked == [place |-> "asked", value |-> NoValue, try |-> 1]

Starts == fetch' = Asked /\ late' = [late EXCEPT !.fetch = FALSE]

\* A fetch under way is joined; a new one reads the server after all that was told.
FetchOrJoin ==
  IF fetch = NoValue THEN Starts ELSE UNCHANGED <<fetch, late>>

-------------------------------------------------------------------------------
\* Another page, or the dropdown: a query that comes on the screen is fetched if stale.
Shows(p, open) ==
  /\ page' = p /\ bellOpen' = open
  /\ moves < MaxMoves /\ moves' = moves + 1
  /\ IF ShownOn(p, open) /\ (~Active \/ p # page) /\ Stale(entry)
     THEN FetchOrJoin ELSE UNCHANGED <<fetch, late>>
  /\ UNCHANGED <<key, entry, version, writes, acked, fetchFaults>>

\* Only the pages that have to do with the query.
Concerned == {"elsewhere"} \cup {p \in Pages : \E open \in BOOLEAN : ShownOn(p, open)}
             \cup UNION {w.on : w \in {v \in Writes_ : key \in v.changes}}
GoTo(p) == p \in Concerned \ {page} /\ Shows(p, FALSE)
ToggleBell == key = Preview /\ page \in BellPages /\ Shows(page, ~bellOpen)

\* refetchInterval, and refetchOnReconnect for what is stale.
Refetch ==
  /\ Active /\ fetch = NoValue /\ (key \in Polled \/ Stale(entry))
  /\ FetchOrJoin
  /\ UNCHANGED <<key, page, bellOpen, entry, version, writes, acked, fetchFaults, moves>>

\* The server answers with what it has now ...
ServerReads ==
  /\ fetch # NoValue /\ fetch.place = "asked"
  /\ fetch' = [fetch EXCEPT !.place = "answered", !.value = version]
  /\ UNCHANGED <<key, page, bellOpen, entry, version, writes, acked, late, fetchFaults, moves>>

\* ... and the answer becomes the entry's data, valid and fresh, whatever happened since.
FetchArrives ==
  /\ fetch # NoValue /\ fetch.place = "answered"
  /\ entry' = [data |-> fetch.value, invalid |-> FALSE, fresh |-> TRUE, failed |-> FALSE]
  /\ fetch' = NoValue /\ late' = [late EXCEPT !.data = late.fetch]
  /\ UNCHANGED <<key, page, bellOpen, version, writes, acked, fetchFaults, moves>>

\* retry: 1, unless nobody shows the query any more.
FetchRejects ==
  /\ fetch # NoValue /\ fetchFaults < MaxFetchFaults /\ fetchFaults' = fetchFaults + 1
  /\ IF fetch.try = 1 /\ Observed
     THEN fetch' = [Asked EXCEPT !.try = 2] /\ UNCHANGED entry
     ELSE fetch' = NoValue /\ entry' = [entry EXCEPT !.failed = TRUE]
  /\ UNCHANGED <<key, page, bellOpen, version, writes, acked, late, moves>>

\* staleTime runs out; gcTime of an entry that nobody observes.
Age ==
  /\ entry.fresh /\ entry' = [entry EXCEPT !.fresh = FALSE]
  /\ UNCHANGED <<key, page, bellOpen, fetch, version, writes, acked, late, fetchFaults, moves>>

Collect ==
  /\ ~Observed /\ fetch = NoValue /\ entry # NoData
  /\ entry' = NoData
  /\ UNCHANGED <<key, page, bellOpen, fetch, version, writes, acked, late, fetchFaults, moves>>

-------------------------------------------------------------------------------
\* A button is pressed; the page may be left before the answer.
Send(w) ==
  /\ writes[w] = NoValue /\ version < MaxVersion
  /\ \E x \in Writes_ : /\ page \in x.on /\ key \in x.changes
                        /\ writes' = [writes EXCEPT ![w] = [write |-> x, applied |-> 0]]
  /\ UNCHANGED <<key, page, bellOpen, entry, fetch, version, acked, late, fetchFaults, moves>>

\* The server applies it ...
ServerWrites(w) ==
  /\ writes[w] # NoValue /\ writes[w].applied = 0 /\ version < MaxVersion
  /\ version' = version + 1
  /\ writes' = [writes EXCEPT ![w].applied = version']
  /\ UNCHANGED <<key, page, bellOpen, entry, fetch, acked, late, fetchFaults, moves>>

\* ... and answers: the handler invalidates its keys, which marks the entry, and fetches
\* it anew if it is on the screen. That cancels a fetch under way, but not a first one.
WriteAnswered(w) ==
  /\ writes[w] # NoValue /\ writes[w].applied > 0
  /\ acked' = IF writes[w].applied > acked THEN writes[w].applied ELSE acked
  /\ IF \E k \in writes[w].write.tells : Matches(k)
     THEN /\ entry' = IF entry = NoData THEN entry ELSE [entry EXCEPT !.invalid = TRUE]
          /\ IF Refetches /\ (fetch = NoValue \/ entry.data # NoValue)
             THEN Starts
             ELSE UNCHANGED fetch /\ late' = [late EXCEPT !.fetch = TRUE]
     ELSE UNCHANGED <<entry, fetch, late>>
  /\ writes' = [writes EXCEPT ![w] = NoValue]
  /\ UNCHANGED <<key, page, bellOpen, version, fetchFaults, moves>>

\* It fails, or its answer is lost: the handler shows the error and invalidates nothing.
WriteFails(w) ==
  /\ writes[w] # NoValue /\ fetchFaults < MaxFetchFaults /\ fetchFaults' = fetchFaults + 1
  /\ writes' = [writes EXCEPT ![w] = NoValue]
  /\ UNCHANGED <<key, page, bellOpen, entry, fetch, version, acked, late, moves>>

\* Other people and the server's own jobs.
OthersWrite ==
  /\ version < MaxVersion /\ version' = version + 1
  /\ UNCHANGED <<key, page, bellOpen, entry, fetch, writes, acked, late, fetchFaults, moves>>

-------------------------------------------------------------------------------
CacheGoesOn == ServerReads \/ FetchArrives
WriteGoesOn(w) == ServerWrites(w) \/ WriteAnswered(w)

CacheNext ==
  \/ (\E p \in Pages : GoTo(p)) \/ ToggleBell \/ Refetch \/ CacheGoesOn \/ FetchRejects
  \/ Age \/ Collect \/ OthersWrite
  \/ \E w \in WriteSlots : Send(w) \/ WriteGoesOn(w) \/ WriteFails(w)

\* A request is answered: the server answers 503 after its own time limit.
CacheFairness == WF_cacheVars(CacheGoesOn) /\ \A w \in WriteSlots : WF_cacheVars(WriteGoesOn(w))
CacheSpec == CacheInit /\ [][CacheNext]_cacheVars /\ CacheFairness

-------------------------------------------------------------------------------
\* A page that shows valid data shows what its own user wrote, once the write was
\* answered: the dead end described in OnboardingPage.tsx, lines 86-93. The exception is
\* a write answered while a first fetch, or one of a page just left, was under way: it is
\* not cancelled, and its older answer wipes the invalidation out.
OwnWritesShow ==
  (entry.data # NoValue /\ ~entry.invalid /\ fetch = NoValue) => (late.data \/ entry.data >= acked)

\* A write is not shown undone once it was shown: data never goes back, fetches being
\* started one after the other.
NeverGoesBack == (entry.data # NoValue /\ entry'.data # NoValue) => entry'.data >= entry.data

\* A page stops loading, and comes to show the user's writes, or says that it failed.
LoadingEnds ==
  /\ Active ~> (~Active \/ entry.data # NoValue \/ entry.failed)
  /\ \A v \in 1..MaxVersion :
       (Active /\ acked >= v) ~> (~Active \/ late.data \/ entry.failed \/
                                  (entry.data # NoValue /\ entry.data >= v))
===============================================================================
