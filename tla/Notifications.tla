------------------------------ MODULE Notifications ------------------------------
(***************************************************************************)
(* The notifications of one user: rows that concurrent requests and jobs   *)
(* create, each event's at most once (src/backend/src/modules/             *)
(* notifications/notification.service.ts), and the notification centre     *)
(* that walks them page by page while they arrive and are read             *)
(* (src/frontend/src/features/notifications/).  A request to the API is    *)
(* one step: what an answer meets that was overtaken is ClientCache's.     *)
(***************************************************************************)
EXTENDS Integers, FiniteSets, Sequences

CONSTANTS
  Writers,       \* requests and jobs that notify
  Occasions,     \* what they notify of: (workspaceId, type, relatedEntityId)
  PageSize,      \* the limit asked for
  Resting,       \* a writer with nothing to do
  Away,          \* the page is not open
  First,         \* no cursor
  MaxNotices,    \* bound: rows
  MaxTime,       \* bound: createdAt
  MaxMarks       \* bound: requests to mark as read

\* No row has an id that means "no cursor".
ASSUME NotificationAssumption ==
  /\ PageSize \in Nat \ {0} /\ First \notin Nat
  /\ MaxNotices \in Nat /\ MaxTime \in Nat /\ MaxMarks \in Nat

VARIABLES
  notices,    \* the rows
  now,        \* the clock of createdAt
  writer,     \* each: the event it notifies of and the row's createdAt
  trail,      \* the cursors of the pages behind and of the page on screen, or Away
  pages,      \* the query cache: under each cursor an answer (had: the rows there were)
  outdated,   \* cursors whose answer was invalidated: it is refetched when next shown
  marks,
  disorder,   \* history: a row appeared behind another
  missed      \* history: an event came again after its notice had been read

noticeVars == <<notices, now, writer, marks, disorder, missed>>
screenVars == <<trail, pages, outdated>>
notificationVars == <<noticeVars, screenVars>>

NoticeIds == 1..MaxNotices
Cursors == NoticeIds \cup {First}
Taken == {r.id : r \in notices}
NoPage == [items |-> << >>, next |-> First, had |-> {}]
Here == trail[Len(trail)]

\* Type invariant; the page on screen has been read.
NotificationTypeOK ==
  /\ notices \subseteq [id : NoticeIds, event : Occasions, at : 0..MaxTime, read : BOOLEAN]
  /\ Cardinality(Taken) = Cardinality(notices)
  /\ now \in 0..MaxTime
  /\ writer \in [Writers -> [event : Occasions, at : 0..MaxTime] \cup {Resting}]
  /\ IF trail = Away THEN TRUE
     ELSE trail[1] = First /\ \A i \in DOMAIN trail : trail[i] \in DOMAIN pages
  /\ DOMAIN pages \subseteq Cursors
  /\ \A c \in DOMAIN pages : Len(pages[c].items) <= PageSize
  /\ outdated \subseteq DOMAIN pages
  /\ marks \in 0..MaxMarks /\ disorder \in BOOLEAN /\ missed \in BOOLEAN

NotificationInit ==
  /\ notices = {} /\ now = 0
  /\ writer = [w \in Writers |-> Resting]
  /\ trail = Away /\ pages = << >> /\ outdated = {}
  /\ marks = 0 /\ disorder = FALSE /\ missed = FALSE

-------------------------------------------------------------------------------
\* orderBy: the newest first, rows of the same millisecond by id.
Before(r, s) == r.at > s.at \/ (r.at = s.at /\ r.id > s.id)
Rank(r, R) == 1 + Cardinality({s \in R : Before(s, r)})
InOrder(R) == [i \in 1..Cardinality(R) |-> CHOOSE r \in R : Rank(r, R) = i]
RowOf(i) == CHOOSE r \in notices : r.id = i

\* Faulty variants: the cursor's row again; as many rows left out as there were before it;
\* no unique index.
FromCursor(c) == {r \in notices : ~Before(r, RowOf(c))}
BeyondCount(c) == {r \in notices : Rank(r, notices) > PageSize}
NeverExists(e) == FALSE

\* cursor and skip: 1.
Beyond(c) == {r \in notices : Before(RowOf(c), r)}

\* listNotifications: one row more than the page tells whether there are more.
Listed(c) ==
  LET found == InOrder(IF c = First THEN notices ELSE Beyond(c))
      more == Len(found) > PageSize
      page == IF more THEN SubSeq(found, 1, PageSize) ELSE found IN
  [items |-> [i \in DOMAIN page |-> page[i].id],
   next |-> IF more THEN page[Len(page)].id ELSE First,
   had |-> IF c = First THEN Taken ELSE {}]

\* The unique index on (workspaceId, type, relatedEntityId).
Exists(e) == \E r \in notices : r.event = e

ItemsOf(p) == {p.items[i] : i \in DOMAIN p.items}

\* The page under c is on screen: from the cache, or, thirty seconds later, read again.
Answers(c) ==
  {Listed(c)} \cup (IF c \in DOMAIN pages \ outdated THEN {pages[c]} ELSE {})
Shows(path, p) ==
  LET c == path[Len(path)] IN
  /\ trail' = path
  /\ pages' = [d \in DOMAIN pages \cup {c} |-> IF d = c THEN p ELSE pages[d]]

-------------------------------------------------------------------------------
\* Something happened: createNotification is called; the row's createdAt is now ...
Notify(w, e) ==
  /\ writer[w] = Resting
  /\ writer' = [writer EXCEPT ![w] = [event |-> e, at |-> now]]
  /\ UNCHANGED <<notices, now, marks, disorder, missed, screenVars>>

\* ... and it is there when the insert commits. The loser of a race, or of an earlier
\* call, finds the row that is there and leaves it as it is.
Insert(w) ==
  /\ writer[w] # Resting
  /\ LET e == writer[w].event IN
     IF Exists(e)
     THEN /\ missed' = (missed \/ \E r \in notices : r.event = e /\ r.read)
          /\ UNCHANGED <<notices, disorder>>
     ELSE \E i \in NoticeIds \ Taken :
            LET row == [id |-> i, event |-> e, at |-> writer[w].at, read |-> FALSE] IN
            /\ notices' = notices \cup {row}
            /\ disorder' = (disorder \/ \E r \in notices : Before(r, row))
            /\ UNCHANGED missed
  /\ writer' = [writer EXCEPT ![w] = Resting]
  /\ UNCHANGED <<now, marks, screenVars>>

Tick ==
  /\ now < MaxTime /\ now' = now + 1
  /\ UNCHANGED <<notices, writer, marks, disorder, missed, screenVars>>

\* The notification centre is opened, and left.
OpenCentre ==
  /\ trail = Away
  /\ \E p \in Answers(First) : Shows(<<First>>, p)
  /\ outdated' = outdated \ {First}
  /\ UNCHANGED noticeVars
LeaveCentre ==
  /\ trail # Away /\ trail' = Away
  /\ UNCHANGED <<noticeVars, pages, outdated>>

\* "Next" and "Previous".
NextPage ==
  /\ trail # Away /\ pages[Here].next # First
  /\ LET c == pages[Here].next IN
     /\ \E p \in Answers(c) : Shows(Append(trail, c), p)
     /\ outdated' = outdated \ {c}
  /\ UNCHANGED noticeVars
PreviousPage ==
  /\ trail # Away /\ Len(trail) > 1
  /\ LET path == SubSeq(trail, 1, Len(trail) - 1)
         c == path[Len(path)] IN
     /\ \E p \in Answers(c) : Shows(path, p)
     /\ outdated' = outdated \ {c}
  /\ UNCHANGED noticeVars

\* markRead of a row on screen, or markAllRead there or in the bell; then every answer is
\* invalidated, and the one on screen read again.
MarkRead(I) ==
  /\ marks < MaxMarks /\ trail # Away
  /\ \E r \in notices : r.id \in I /\ ~r.read
  /\ marks' = marks + 1
  /\ notices' = {[r EXCEPT !.read = @ \/ r.id \in I] : r \in notices}
  /\ Shows(trail, Listed(Here))
  /\ outdated' = DOMAIN pages \ {Here}
  /\ UNCHANGED <<now, writer, disorder, missed>>

-------------------------------------------------------------------------------
NotificationStep ==
  \/ \E w \in Writers : (\E e \in Occasions : Notify(w, e)) \/ Insert(w)
  \/ Tick
  \/ OpenCentre \/ LeaveCentre \/ NextPage \/ PreviousPage
  \/ trail # Away /\ \E i \in ItemsOf(pages[Here]) : MarkRead({i})
  \/ MarkRead(Taken)

NotificationSpec == NotificationInit /\ [][NotificationStep]_notificationVars

-------------------------------------------------------------------------------
\* "At most one notification per (workspace, type, related entity)" (schema.prisma
\* 1203-1207), whatever calls race; "deterministic ordering" (notification.service.ts
\* 74): a page goes on exactly behind the last row of the page before; and who has walked
\* to the last page has seen every row there was when the first was read, whatever
\* arrived or was read meanwhile and whichever pages came from the cache, unless rows
\* appeared behind others (two at the same millisecond, or a slow insert).
OneNoticeEach == \A r, s \in notices : r.event = s.event => r = s
PagesFollow ==
  trail # Away => \A i \in 2..Len(trail) :
    \A j \in ItemsOf(pages[trail[i]]) : Before(RowOf(trail[i]), RowOf(j))
WalkIsComplete ==
  trail # Away /\ ~disorder =>
    (pages[Here].next = First =>
       pages[First].had \subseteq UNION {ItemsOf(pages[trail[i]]) : i \in DOMAIN trail})
NoticesHold == OneNoticeEach /\ PagesFollow /\ WalkIsComplete

\* Not so: a run that fails again after its first failure has been read goes unnoticed,
\* for the notice is one for each run (workflow-engine.service.ts 240).
NothingIsMissed == ~missed
===============================================================================
