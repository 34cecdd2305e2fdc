----------------------------- MODULE CommerceProofs -----------------------------
(***************************************************************************)
(* Proofs about what happens to a workspace's money and what its owner is  *)
(* told: Commerce for any workspaces, callers, plans, events and bounds.   *)
(***************************************************************************)
EXTENDS MCCommerce, FiniteSetTheorems, SequenceTheorems, WellFoundedInduction, TLAPS

(***************************************************************************)
(* The inductive invariant.                                                *)
(***************************************************************************)

\* A call keeps to what it read: its row is a row of its workspace, no status it writes is
\* EXPIRED but expireTrialIfDue's, and only trialers try.
Writing(c) == call[c] # None /\ call[c].op \notin {"eligible", "create", "grant"}
CallsHold == \A c \in Callers : call[c] # None =>
  /\ Writing(c) => call[c].row \in RowsOf(call[c].ws)
  /\ call[c].op = "status" => call[c].status \in {"ACTIVE", "PAST_DUE", "CANCELED"}
  /\ call[c].op \in {"eligible", "trial"} => c \in Trialers

\* Trials started and the calls that may start one share the trialers.
Starting == {c \in Callers : call[c] # None /\ call[c].op \in {"eligible", "trial"}}
TrialsCounted == Len(trials) + Cardinality(Starting) <= Cardinality(Trialers)

OrphansCounted == IsFiniteSet(created) /\ NeverWithoutSubscription

\* A job's period is a row of its workspace; of a workspace with a single row, a job that
\* is about to grant is the first to, and a grant shows on that row.
Single(w) == \E i \in DOMAIN subs : RowsOf(w) = {i}
JobsHold ==
  /\ \A c \in Callers : job[c] # None =>
       /\ job[c].period \in RowsOf(job[c].ws)
       /\ job[c].stage \in {"look", "grant"} => job[c].row \in RowsOf(job[c].ws)
       /\ job[c].stage = "grant" /\ Single(job[c].ws) => jobGrants[job[c].ws] = 0
  /\ \A w \in Workspaces : jobGrants[w] > 0 => \E i \in RowsOf(w) : subs[i].grants > 0
  /\ \A w \in Workspaces : Single(w) => jobGrants[w] <= 1

\* An event is with the one caller that recorded it, and applied as far as that one got;
\* its call is a transition.
HooksHold ==
  /\ \A c, d \in Callers :
       handling[c] # None /\ handling[d] # None /\ handling[c].event = handling[d].event => c = d
  /\ \A c \in Callers : handling[c] # None =>
       LET e == handling[c].event IN
       /\ event[e] = "RECEIVED"
       /\ call[c] # None => call[c].op = "status"
       /\ handling[c].stage \in {"apply", "write"} => applied[e] = 0 /\ EventType[e] # "other"
       /\ handling[c].stage \in {"notify", "mark"} => (applied[e] = 1 <=> EventType[e] # "other")
  /\ \A e \in Events : event[e] = "none" => applied[e] = 0
  /\ EventsOnce

\* The subscriptions' part, and all of it.
SubInv == SubscriptionTypeOK /\ CallsHold /\ TrialsCounted /\ OrphansCounted
CommerceInv == SubInv /\ GrantTypeOK /\ JobsHold /\ WebhookTypeOK /\ HooksHold

-------------------------------------------------------------------------------
\* The greatest of some numbers up to n.
LEMMA HasLatest ==
  ASSUME NEW n \in Nat, NEW S \in SUBSET (1..n), S # {}
  PROVE  Latest(S) \in S /\ \A j \in S : j <= Latest(S)
<1>. DEFINE Down == {k \in Nat : n - k \in S}
<1>1. Down # {}
  <2>1. PICK i \in S : TRUE
    OBVIOUS
  <2>2. n - i \in Nat /\ n - (n - i) = i
    BY <2>1
  <2>. QED BY <2>1, <2>2
<1>2. \E x \in Down : \A y \in Down : ~ (<<y, x>> \in OpToRel(<, Nat))
  <2>. HIDE DEF Down
  <2>1. Down \subseteq Nat
    BY DEF Down
  <2>. QED BY <1>1, <2>1, WFMin, NatLessThanWellFounded, Zenon
<1>3. PICK x \in Down : \A y \in Down : ~ (y < x)
  BY <1>2 DEF OpToRel
<1>4. n - x \in S /\ \A j \in S : j <= n - x
  <2>1. ASSUME NEW j \in S PROVE j <= n - x
    <3>1. n - j \in Nat /\ n - (n - j) = j
      OBVIOUS
    <3>2. n - j \in Down
      BY <3>1
    <3>3. ~ (n - j < x)
      BY <1>3, <3>2
    <3>. QED BY <3>1, <3>3, <1>3
  <2>. QED BY <1>3, <2>1
<1>. QED BY <1>4 DEF Latest

\* getCurrentSubscription finds a row that is not EXPIRED, if there is one.
Closed(w) == \A i \in RowsOf(w) : subs[i].status = "EXPIRED"
LEMMA CurrentIs ==
  ASSUME subs \in Seq(Rows), NEW w
  PROVE  /\ Current(w) = 0 <=> Closed(w)
         /\ Current(w) # 0 => Current(w) \in RowsOf(w) /\ subs[Current(w)].status # "EXPIRED"
<1>. DEFINE S == {i \in RowsOf(w) : subs[i].status # "EXPIRED"}
<1>1. DOMAIN subs = 1..Len(subs) /\ Len(subs) \in Nat
  BY LenProperties
<1>2. S \in SUBSET (1..Len(subs)) /\ S \subseteq RowsOf(w)
  BY <1>1 DEF RowsOf
<1>3. Current(w) = Latest(S)
  BY DEF Current
<1>4. CASE S = {}
  BY <1>3, <1>4 DEF Latest, Closed
<1>5. CASE S # {}
  <2>. HIDE DEF S
  <2>1. Latest(S) \in S
    BY <1>1, <1>2, <1>5, HasLatest
  <2>2. Latest(S) # 0
    BY <1>2, <2>1
  <2>. QED BY <1>3, <2>1, <2>2 DEF S, Closed
<1>. QED BY <1>4, <1>5

\* So too of the newest row of a workspace.
LEMMA NewestIs ==
  ASSUME subs \in Seq(Rows), NEW w, RowsOf(w) # {}
  PROVE  Latest(RowsOf(w)) \in RowsOf(w)
<1>1. DOMAIN subs = 1..Len(subs) /\ Len(subs) \in Nat
  BY LenProperties
<1>. QED BY <1>1, HasLatest DEF RowsOf

\* The statement of a call, and the rows, typed.
LEMMA RowIs ==
  ASSUME subs \in Seq(Rows), NEW i \in DOMAIN subs
  PROVE  subs[i] \in Rows /\ i \in 1..Len(subs)
BY LenProperties, ElementOfSeq

LEMMA WriteIs ==
  ASSUME NEW op \in Ops, NEW w \in Workspaces, NEW i \in 0..MaxRows, NEW s \in Statuses, NEW p \in Plans
  PROVE  /\ Write(op, w, i, s, p) \in Calls /\ Write(op, w, i, s, p) # None
         /\ Write(op, w, i, s, p).op = op /\ Write(op, w, i, s, p).ws = w /\ Write(op, w, i, s, p).row = i
         /\ Write(op, w, i, s, p).status = s /\ Write(op, w, i, s, p).plan = p
BY SubscriptionAssumption DEF Write, Calls

\* A row that is updated stays the row of its workspace.
LEMMA UpdateRow ==
  ASSUME subs \in Seq(Rows), NEW i, NEW r, i \in DOMAIN subs => r \in Rows /\ r.ws = subs[i].ws,
         subs' = [subs EXCEPT ![i] = r]
  PROVE  /\ subs' \in Seq(Rows) /\ Len(subs') = Len(subs) /\ DOMAIN subs' = DOMAIN subs
         /\ \A j \in DOMAIN subs : subs'[j] = IF j = i THEN r ELSE subs[j]
         /\ \A w : RowsOf(w)' = RowsOf(w)
<1>1. DOMAIN subs = 1..Len(subs) /\ Len(subs) \in Nat
  BY LenProperties
<1>2. subs' \in Seq(Rows) /\ Len(subs') = Len(subs)
  <2>1. CASE i \in DOMAIN subs
    BY <1>1, <2>1, ExceptSeq
  <2>2. CASE i \notin DOMAIN subs
    <3>1. subs' = subs
      BY <1>1, <2>2, LenProperties
    <3>. QED BY <3>1
  <2>. QED BY <2>1, <2>2
<1>3. DOMAIN subs' = DOMAIN subs /\ \A j \in DOMAIN subs : subs'[j] = IF j = i THEN r ELSE subs[j]
  OBVIOUS
<1>4. \A j \in DOMAIN subs : subs'[j].ws = subs[j].ws
  BY <1>3
<1>. QED BY <1>2, <1>3, <1>4 DEF RowsOf

\* A new row is its workspace's newest.
LEMMA AppendRow ==
  ASSUME subs \in Seq(Rows), NEW r \in Rows, subs' = Append(subs, r)
  PROVE  /\ subs' \in Seq(Rows) /\ Len(subs') = Len(subs) + 1 /\ Len(subs) + 1 \notin DOMAIN subs
         /\ DOMAIN subs' = DOMAIN subs \cup {Len(subs) + 1} /\ subs'[Len(subs) + 1] = r
         /\ \A j \in DOMAIN subs : subs'[j] = subs[j]
         /\ \A w : RowsOf(w)' = IF w = r.ws THEN RowsOf(w) \cup {Len(subs) + 1} ELSE RowsOf(w)
<1>1. DOMAIN subs = 1..Len(subs) /\ Len(subs) \in Nat
  BY LenProperties
<1>2. /\ subs' \in Seq(Rows) /\ Len(subs') = Len(subs) + 1 /\ subs'[Len(subs) + 1] = r
      /\ \A j \in 1..Len(subs) : subs'[j] = subs[j]
  OBVIOUS
<1>3. DOMAIN subs' = 1..(Len(subs) + 1)
  BY <1>2, LenProperties
<1>4. DOMAIN subs' = DOMAIN subs \cup {Len(subs) + 1} /\ Len(subs) + 1 \notin DOMAIN subs
  BY <1>1, <1>3
<1>. QED BY <1>1, <1>2, <1>4 DEF RowsOf

\* An update keeps a row typed, and only expireTrialIfDue's closes one.
LEMMA UpdatedIs ==
  ASSUME NEW r \in Rows, NEW d \in Calls, d.op \notin {"eligible", "create", "grant"}
  PROVE  /\ Updated(r, d) \in Rows /\ Updated(r, d).ws = r.ws /\ Updated(r, d).grants = r.grants
         /\ d.op # "expire" /\ (d.op = "status" => d.status # "EXPIRED") /\ r.status # "EXPIRED"
              => Updated(r, d).status # "EXPIRED"
<1>. USE DEF Calls, Ops, Rows, Statuses, Updated
<1>1. CASE d.op = "status"
  BY <1>1
<1>2. CASE d.op = "plan"
  BY <1>2
<1>3. CASE d.op = "pend"
  BY <1>3
<1>4. CASE d.op \in {"end", "keep"}
  BY <1>4
<1>5. CASE d.op \in {"trial", "expire"}
  BY <1>5
<1>. QED BY <1>1, <1>2, <1>3, <1>4, <1>5

-------------------------------------------------------------------------------
(***************************************************************************)
(* The subscriptions.                                                      *)
(***************************************************************************)

\* Who is orphaned, by the rows.
Creating(w) == \E c \in Callers : call[c] # None /\ call[c].ws = w /\ call[c].op = "create"
LEMMA OrphanedIs == SubscriptionTypeOK => Orphaned = {w \in created : Closed(w) /\ ~Creating(w)}
<1>1. SubscriptionTypeOK => \A w : Current(w) = 0 <=> Closed(w)
  BY CurrentIs DEF SubscriptionTypeOK
<1>. QED BY <1>1 DEF Orphaned, Creating

LEMMA OrphanedIsNext ==
  SubscriptionTypeOK' => Orphaned' = {w \in created' : Closed(w)' /\ ~Creating(w)'}
<1>1. (SubscriptionTypeOK => Orphaned = {w \in created : Closed(w) /\ ~Creating(w)})'
  BY OrphanedIs, PTL
<1>. QED BY <1>1

\* A workspace without a plan costs a crash.
LEMMA OrphansShrink ==
  ASSUME SubscriptionTypeOK, OrphansCounted, SubscriptionTypeOK', crashes' >= crashes,
         IsFiniteSet(created'),
         \A w \in created' : Closed(w)' /\ ~Creating(w)' => w \in created /\ Closed(w) /\ ~Creating(w)
  PROVE  OrphansCounted'
<1>1. Orphaned = {w \in created : Closed(w) /\ ~Creating(w)}
  BY OrphanedIs
<1>2. Orphaned' = {w \in created' : Closed(w)' /\ ~Creating(w)'}
  BY OrphanedIsNext
<1>3. Orphaned' \subseteq Orphaned
  BY <1>1, <1>2
<1>4. IsFiniteSet(Orphaned) /\ Orphaned' \in SUBSET Orphaned
  BY <1>1, <1>3, FS_Subset DEF OrphansCounted
<1>5. Cardinality(Orphaned') <= Cardinality(Orphaned) /\ Cardinality(Orphaned) \in Nat
      /\ Cardinality(Orphaned') \in Nat
  BY <1>4, FS_Subset, FS_CardinalityType
<1>. QED BY <1>5 DEF OrphansCounted, NeverWithoutSubscription, SubscriptionTypeOK

\* Those that may start a trial are trialers, so finitely many.
LEMMA StartingIs ==
  CallsHold => Starting \subseteq Trialers /\ IsFiniteSet(Starting) /\ Cardinality(Starting) \in Nat
               /\ Cardinality(Starting) <= Cardinality(Trialers) /\ Cardinality(Trialers) \in Nat
<1>. SUFFICES ASSUME CallsHold PROVE
       Starting \subseteq Trialers /\ IsFiniteSet(Starting) /\ Cardinality(Starting) \in Nat
       /\ Cardinality(Starting) <= Cardinality(Trialers) /\ Cardinality(Trialers) \in Nat
  OBVIOUS
<1>1. Starting \subseteq Trialers
  BY DEF CallsHold, Starting
<1>. QED BY <1>1, SubscriptionAssumption, FS_Subset, FS_CardinalityType

\* What a call may do next, when it has only read.
MayGoOn(c, d) == d # None =>
  /\ d \in Calls /\ d.row <= Len(subs)
  /\ d.op \notin {"eligible", "create", "grant"} => d.row \in RowsOf(d.ws)
  /\ d.op = "status" => d.status \in {"ACTIVE", "PAST_DUE", "CANCELED"}
  /\ d.op \in {"eligible", "trial"} => c \in Trialers /\ (c \in Starting \/ trials = << >>)

\* Reading, and giving up anything but a creation, keeps the subscriptions as they must be.
LEMMA DecideKeeps ==
  ASSUME SubInv, NEW c \in Callers, NEW d, Decide(c, d), MayGoOn(c, d),
         UNCHANGED <<subs, trials, created>>,
         changes' \in 0..MaxChanges, crashes' \in 0..MaxCrashes, crashes' >= crashes,
         call[c] # None /\ call[c].op = "create" => d = call[c]
  PROVE  SubInv'
<1>. USE DEF SubInv
<1>1. /\ call \in [Callers -> Calls \cup {None}]
      /\ call' \in [Callers -> Calls \cup {None}] /\ call'[c] = d
      /\ \A b \in Callers \ {c} : call'[b] = call[b]
  BY DEF SubscriptionTypeOK, Decide, MayGoOn
<1>2. SubscriptionTypeOK'
  BY <1>1 DEF SubscriptionTypeOK, MayGoOn
<1>3. \A w : RowsOf(w)' = RowsOf(w)
  BY DEF RowsOf
<1>4. CallsHold'
  <2>1. ASSUME NEW b \in Callers, call'[b] # None
        PROVE  /\ Writing(b)' => call'[b].row \in RowsOf(call'[b].ws)
               /\ call'[b].op = "status" => call'[b].status \in {"ACTIVE", "PAST_DUE", "CANCELED"}
               /\ call'[b].op \in {"eligible", "trial"} => b \in Trialers
    <3>1. CASE b = c
      BY <1>1, <2>1, <3>1 DEF MayGoOn, Writing
    <3>2. CASE b # c
      BY <1>1, <2>1, <3>2 DEF CallsHold, Writing
    <3>. QED BY <3>1, <3>2
  <2>. QED BY <1>3, <2>1 DEF CallsHold
<1>5. TrialsCounted'
  <2>1. Len(trials') = Len(trials) /\ Len(trials) \in Nat
    BY EmptySeq, LenProperties DEF SubscriptionTypeOK
  <2>2. (CallsHold => Cardinality(Starting) \in Nat /\ Cardinality(Starting) <= Cardinality(Trialers))'
    BY StartingIs, PTL
  <2>3. CASE Starting' \subseteq Starting
    <3>1. IsFiniteSet(Starting) /\ Starting' \in SUBSET Starting /\ Cardinality(Starting) \in Nat
          /\ Cardinality(Trialers) \in Nat
      BY <2>3, StartingIs
    <3>2. Cardinality(Starting') <= Cardinality(Starting) /\ Cardinality(Starting') \in Nat
      BY <3>1, FS_Subset, FS_CardinalityType
    <3>. QED BY <2>1, <3>1, <3>2 DEF TrialsCounted
  <2>4. CASE ~(Starting' \subseteq Starting)
    <3>1. trials = << >>
      BY <1>1, <2>4 DEF Starting, MayGoOn
    <3>2. Len(trials') = 0
      BY <2>1, <3>1
    <3>. QED BY <1>4, <2>2, <3>2, StartingIs DEF TrialsCounted
  <2>. QED BY <2>3, <2>4
<1>6. OrphansCounted'
  <2>1. \A w : Closed(w)' <=> Closed(w)
    BY <1>3 DEF Closed
  <2>2. \A w : Creating(w) => Creating(w)'
    BY <1>1 DEF Creating
  <2>3. IsFiniteSet(created')
    BY DEF OrphansCounted
  <2>. QED BY <1>2, <2>1, <2>2, <2>3, OrphansShrink
<1>. QED BY <1>2, <1>4, <1>5, <1>6

\* The current row of a workspace, typed.
LEMMA CurrentTyped ==
  ASSUME SubscriptionTypeOK, NEW w, Current(w) # 0
  PROVE  /\ Current(w) \in RowsOf(w) /\ w \in Workspaces
         /\ Current(w) \in 0..MaxRows /\ Current(w) <= Len(subs)
         /\ subs[Current(w)] \in Rows /\ subs[Current(w)].ws = w
<1>1. Current(w) \in RowsOf(w)
  BY CurrentIs DEF SubscriptionTypeOK
<1>2. Current(w) \in DOMAIN subs /\ subs[Current(w)].ws = w
  BY <1>1 DEF RowsOf
<1>3. subs[Current(w)] \in Rows /\ Current(w) \in 1..Len(subs)
  BY <1>2, RowIs DEF SubscriptionTypeOK
<1>4. Len(subs) <= MaxRows /\ Len(subs) \in Nat /\ MaxRows \in Nat
  BY LenProperties, SubscriptionAssumption DEF SubscriptionTypeOK
<1>. QED BY <1>1, <1>2, <1>3, <1>4 DEF Rows

\* A call that has read the current row and decided on a statement.
LEMMA ReadKeeps ==
  ASSUME SubInv, NEW c \in Callers, call[c] = None, NEW w \in Workspaces, Current(w) # 0,
         NEW op \in Ops \ {"eligible", "trial", "create", "grant"}, NEW s \in Statuses, NEW p \in Plans,
         op = "status" => s \in {"ACTIVE", "PAST_DUE", "CANCELED"},
         Decide(c, Write(op, w, Current(w), s, p)),
         UNCHANGED <<subs, trials, created, crashes>>, changes' \in 0..MaxChanges
  PROVE  SubInv'
<1>. DEFINE d == Write(op, w, Current(w), s, p)
<1>1. Current(w) \in RowsOf(w) /\ Current(w) \in 0..MaxRows /\ Current(w) <= Len(subs)
  BY CurrentTyped DEF SubInv
<1>2. /\ d \in Calls /\ d.op = op /\ d.ws = w /\ d.row = Current(w) /\ d.status = s
  BY <1>1, WriteIs
<1>. HIDE DEF d
<1>3. MayGoOn(c, d)
  BY <1>1, <1>2 DEF MayGoOn
<1>4. crashes' \in 0..MaxCrashes /\ crashes' >= crashes
  BY DEF SubInv, SubscriptionTypeOK
<1>5. Decide(c, d)
  BY DEF d
<1>. QED BY <1>3, <1>4, <1>5, DecideKeeps

\* transitionSubscription reads; so does the one an event calls for.
LEMMA ReadForStatusStep ==
  ASSUME SubInv, NEW c \in Callers, NEW w, NEW to \in {"ACTIVE", "PAST_DUE", "CANCELED"},
         ReadForStatus(c, w, to)
  PROVE  SubInv'
<1>1. Current(w) # 0
  BY DEF ReadForStatus, LegalTargets
<1>2. w \in Workspaces
  BY <1>1, CurrentTyped DEF SubInv
<1>3. "status" \in Ops /\ to \in Statuses /\ 0 \in Plans
  BY SubscriptionAssumption DEF Ops, Statuses, Plans
<1>4. changes' \in 0..MaxChanges
  BY DEF ReadForStatus, SubInv, SubscriptionTypeOK
<1>. QED BY <1>1, <1>2, <1>3, <1>4, ReadKeeps DEF ReadForStatus

\* changePlan, cancelSubscription, convertTrial and expireTrialIfDue read.
LEMMA ReadSteps ==
  ASSUME SubInv, NEW c \in Callers, NEW w \in Workspaces,
         ReadForPlan(c, w) \/ ReadForCancel(c, w) \/ ReadForConvert(c, w) \/ ReadForExpire(c, w)
  PROVE  SubInv'
<1>1. call[c] = None /\ Current(w) # 0 /\ UNCHANGED <<subs, trials, created, crashes>>
      /\ changes' \in 0..MaxChanges
  BY SubscriptionAssumption
  DEF ReadForPlan, ReadForCancel, ReadForConvert, ReadForExpire, SubInv, SubscriptionTypeOK
<1>2. subs[Current(w)].status \in Statuses
  BY <1>1, CurrentTyped DEF SubInv, Rows
<1>3. 0 \in Plans /\ "ACTIVE" \in Statuses /\ "EXPIRED" \in Statuses /\ "CANCELED" \in Statuses
  BY SubscriptionAssumption DEF Plans, Statuses
<1>4. \E op \in Ops \ {"eligible", "trial", "create", "grant"}, s \in Statuses, p \in Plans :
        /\ op = "status" => s \in {"ACTIVE", "PAST_DUE", "CANCELED"}
        /\ Decide(c, Write(op, w, Current(w), s, p))
  <2>1. CASE ReadForPlan(c, w)
    <3>1. PICK plan \in Plans, fits \in BOOLEAN :
            Decide(c, Write(IF plan >= subs[Current(w)].plan \/ fits THEN "plan" ELSE "pend",
                            w, Current(w), subs[Current(w)].status, plan))
      BY <2>1 DEF ReadForPlan
    <3>2. {"plan", "pend"} \subseteq Ops \ {"eligible", "trial", "create", "grant"}
      BY DEF Ops
    <3>. QED BY <1>2, <3>1, <3>2
  <2>2. CASE ReadForCancel(c, w)
    <3>1. {"end", "keep", "status"} \subseteq Ops \ {"eligible", "trial", "create", "grant"}
      BY DEF Ops
    <3>. QED BY <1>2, <1>3, <2>2, <3>1 DEF ReadForCancel
  <2>3. CASE ReadForConvert(c, w)
    <3>1. "status" \in Ops \ {"eligible", "trial", "create", "grant"}
      BY DEF Ops
    <3>. QED BY <1>3, <2>3, <3>1 DEF ReadForConvert
  <2>4. CASE ReadForExpire(c, w)
    <3>1. "expire" \in Ops \ {"eligible", "trial", "create", "grant"}
      BY DEF Ops
    <3>. QED BY <1>3, <2>4, <3>1 DEF ReadForExpire
  <2>. QED BY <2>1, <2>2, <2>3, <2>4
<1>. QED BY <1>1, <1>4, ReadKeeps

\* startTrial: whether nobody has had a trial, then the current row.
LEMMA TrialReads ==
  ASSUME SubInv, NEW c \in Callers,
         ReadForTrial(c) \/ \E w \in Workspaces : CheckEligible(c, w)
  PROVE  SubInv'
<1>1. UNCHANGED <<subs, trials, created>> /\ changes' \in 0..MaxChanges
      /\ crashes' \in 0..MaxCrashes /\ crashes' >= crashes
  BY DEF ReadForTrial, CheckEligible, SubInv, SubscriptionTypeOK
<1>2. 0 \in Plans /\ "ACTIVE" \in Statuses /\ "eligible" \in Ops /\ "trial" \in Ops
      /\ 0 \in 0..MaxRows /\ 0 <= Len(subs)
  BY SubscriptionAssumption, LenProperties DEF Plans, Statuses, Ops, SubInv, SubscriptionTypeOK
<1>3. CASE \E w \in Workspaces : CheckEligible(c, w)
  <2>1. PICK w \in Workspaces : CheckEligible(c, w)
    BY <1>3
  <2>. DEFINE d == Write("eligible", w, 0, "ACTIVE", 0)
  <2>2. d \in Calls /\ d.op = "eligible" /\ d.row = 0
    BY <1>2, WriteIs
  <2>3. Decide(c, d) /\ trials = << >> /\ c \in Trialers /\ call[c] = None
    BY <2>1 DEF CheckEligible, TrialEligible
  <2>. HIDE DEF d
  <2>4. MayGoOn(c, d)
    BY <1>2, <2>2, <2>3 DEF MayGoOn
  <2>. QED BY <1>1, <2>3, <2>4, DecideKeeps
<1>4. CASE ReadForTrial(c)
  <2>1. call[c] # None /\ call[c].op = "eligible" /\ c \in Starting /\ c \in Trialers
    BY <1>4 DEF ReadForTrial, Starting, SubInv, CallsHold
  <2>2. call[c].ws \in Workspaces
    BY <2>1 DEF SubInv, SubscriptionTypeOK, Calls
  <2>3. CASE Decide(c, None)
    <3>1. MayGoOn(c, None)
      BY DEF MayGoOn
    <3>. QED BY <1>1, <2>1, <2>3, <3>1, DecideKeeps
  <2>4. CASE ~Decide(c, None)
    <3>. DEFINE w == call[c].ws
    <3>1. PICK p \in Plans : Current(w) # 0 /\ Decide(c, Write("trial", w, Current(w), "ACTIVE", p))
      BY <1>4, <2>4 DEF ReadForTrial
    <3>. DEFINE d == Write("trial", w, Current(w), "ACTIVE", p)
    <3>2. Current(w) \in RowsOf(w) /\ Current(w) \in 0..MaxRows /\ Current(w) <= Len(subs)
      BY <3>1, CurrentTyped DEF SubInv
    <3>3. d \in Calls /\ d.op = "trial" /\ d.ws = w /\ d.row = Current(w)
      BY <1>2, <2>2, <3>2, WriteIs
    <3>4. Decide(c, d)
      BY <3>1
    <3>. HIDE DEF d, w
    <3>5. MayGoOn(c, d)
      BY <2>1, <3>2, <3>3 DEF MayGoOn
    <3>. QED BY <1>1, <2>1, <3>4, <3>5, DecideKeeps
  <2>. QED BY <2>3, <2>4
<1>. QED BY <1>3, <1>4

\* A workspace is created, and its caller goes on to its subscription.
LEMMA CreateWorkspaceStep == ASSUME SubInv, NEW c \in Callers, CreateWorkspace(c) PROVE SubInv'
<1>. USE DEF SubInv
<1>1. PICK w \in Workspaces \ created :
        created' = created \cup {w} /\ Decide(c, Write("create", w, 0, "ACTIVE", 0))
  BY DEF CreateWorkspace
<1>. DEFINE d == Write("create", w, 0, "ACTIVE", 0)
<1>2. d \in Calls /\ d # None /\ d.op = "create" /\ d.ws = w /\ d.row = 0
  <2>1. 0 \in Plans /\ "ACTIVE" \in Statuses /\ "create" \in Ops /\ 0 \in 0..MaxRows
    BY SubscriptionAssumption DEF Plans, Statuses, Ops
  <2>. QED BY <2>1, WriteIs
<1>. HIDE DEF d
<1>3. /\ call[c] = None /\ UNCHANGED <<subs, trials, changes, crashes>>
      /\ call' = [call EXCEPT ![c] = d]
  BY <1>1 DEF CreateWorkspace, Decide, d
<1>4. /\ call' \in [Callers -> Calls \cup {None}] /\ call'[c] = d
      /\ \A b \in Callers \ {c} : call'[b] = call[b]
  BY <1>2, <1>3 DEF SubscriptionTypeOK
<1>5. SubscriptionTypeOK'
  <2>1. \A b \in Callers : call'[b] # None => call'[b].row <= Len(subs)
    <3>1. 0 <= Len(subs)
      BY LenProperties DEF SubscriptionTypeOK
    <3>. QED BY <1>2, <1>4, <3>1 DEF SubscriptionTypeOK
  <2>. QED BY <1>1, <1>3, <1>4, <2>1 DEF SubscriptionTypeOK
<1>6. \A w_1 : RowsOf(w_1)' = RowsOf(w_1) /\ (Closed(w_1)' <=> Closed(w_1))
  BY <1>3 DEF RowsOf, Closed
<1>7. CallsHold'
  <2>1. ASSUME NEW b \in Callers, call'[b] # None
        PROVE  /\ Writing(b)' => call'[b].row \in RowsOf(call'[b].ws)
               /\ call'[b].op = "status" => call'[b].status \in {"ACTIVE", "PAST_DUE", "CANCELED"}
               /\ call'[b].op \in {"eligible", "trial"} => b \in Trialers
    <3>1. CASE b = c
      BY <1>2, <1>4, <3>1 DEF Writing
    <3>2. CASE b # c
      BY <1>4, <2>1, <3>2 DEF CallsHold, Writing
    <3>. QED BY <3>1, <3>2
  <2>. QED BY <1>6, <2>1 DEF CallsHold
<1>8. TrialsCounted'
  <2>1. Starting' = Starting
    BY <1>2, <1>3, <1>4 DEF Starting
  <2>. QED BY <1>3, <2>1 DEF TrialsCounted
<1>9. OrphansCounted'
  <2>1. IsFiniteSet(created')
    BY <1>1, FS_AddElement DEF OrphansCounted
  <2>2. ASSUME NEW x \in created', Closed(x)', ~Creating(x)' PROVE x \in created /\ Closed(x) /\ ~Creating(x)
    <3>1. x # w
      BY <1>2, <1>4, <2>2 DEF Creating
    <3>2. ~Creating(x)
      BY <1>3, <1>4, <2>2 DEF Creating
    <3>. QED BY <1>1, <1>6, <2>2, <3>1, <3>2
  <2>3. crashes' >= crashes
    BY <1>3 DEF SubscriptionTypeOK
  <2>. QED BY <1>5, <2>1, <2>2, <2>3, OrphansShrink
<1>. QED BY <1>5, <1>7, <1>8, <1>9

\* A change of one row that leaves it as open as it was, and nothing else.
LEMMA RowKeeps ==
  ASSUME SubInv, NEW i, NEW r,
         i \in DOMAIN subs => r \in Rows /\ r.ws = subs[i].ws /\ r.status = subs[i].status,
         subs' = [subs EXCEPT ![i] = r], UNCHANGED <<trials, created, call, changes, crashes>>
  PROVE  SubInv'
<1>. USE DEF SubInv
<1>1. /\ subs' \in Seq(Rows) /\ Len(subs') = Len(subs) /\ DOMAIN subs' = DOMAIN subs
      /\ \A j \in DOMAIN subs : subs'[j] = IF j = i THEN r ELSE subs[j]
      /\ \A w : RowsOf(w)' = RowsOf(w)
  BY UpdateRow DEF SubscriptionTypeOK
<1>2. SubscriptionTypeOK'
  BY <1>1 DEF SubscriptionTypeOK
<1>3. CallsHold'
  BY <1>1 DEF CallsHold, Writing
<1>4. TrialsCounted'
  BY DEF TrialsCounted, Starting
<1>5. OrphansCounted'
  <2>1. \A w : Closed(w)' => Closed(w)
    <3>1. \A j \in DOMAIN subs : subs'[j].status = subs[j].status
      BY <1>1
    <3>2. \A w : RowsOf(w) \subseteq DOMAIN subs
      BY DEF RowsOf
    <3>. QED BY <1>1, <3>1, <3>2 DEF Closed
  <2>2. \A w : Creating(w)' <=> Creating(w)
    BY DEF Creating
  <2>3. IsFiniteSet(created') /\ crashes' >= crashes
    BY DEF OrphansCounted, SubscriptionTypeOK
  <2>. QED BY <1>2, <2>1, <2>2, <2>3, OrphansShrink
<1>. QED BY <1>2, <1>3, <1>4, <1>5

\* A grant is counted on the newest row.
LEMMA GrantToIs ==
  ASSUME subs \in Seq(Rows), NEW w, GrantTo(w)
  PROVE  LET i == Latest(RowsOf(w)) r == [subs[i] EXCEPT !.grants = @ + 1] IN
         /\ subs' = [subs EXCEPT ![i] = r]
         /\ i \in DOMAIN subs => r \in Rows /\ r.ws = subs[i].ws /\ r.status = subs[i].status
                                 /\ r.grants = subs[i].grants + 1
<1>. DEFINE i == Latest(RowsOf(w))
            r == [subs[i] EXCEPT !.grants = @ + 1]
<1>1. subs' = [subs EXCEPT ![i] = r]
  BY DEF GrantTo
<1>2. ASSUME i \in DOMAIN subs
      PROVE  r \in Rows /\ r.ws = subs[i].ws /\ r.status = subs[i].status /\ r.grants = subs[i].grants + 1
  <2>1. subs[i] \in Rows
    BY <1>2, RowIs
  <2>2. \A x \in Rows : LET y == [x EXCEPT !.grants = @ + 1] IN
          y \in Rows /\ y.ws = x.ws /\ y.status = x.status /\ y.grants = x.grants + 1
    <3>1. \A x \in Rows : x.grants \in Nat /\ x.grants + 1 \in Nat
      BY DEF Rows
    <3>. QED BY <3>1 DEF Rows
  <2>. QED BY <2>1, <2>2
<1>. QED BY <1>1, <1>2

\* trialEndsAt passes.
LEMMA TrialRunsOutStep == ASSUME SubInv, TrialRunsOut PROVE SubInv'
<1>1. PICK i \in DOMAIN subs : subs' = [subs EXCEPT ![i].trial = "past"]
  BY DEF TrialRunsOut
<1>. DEFINE r == [subs[i] EXCEPT !.trial = "past"]
<1>2. subs[i] \in Rows
  BY RowIs DEF SubInv, SubscriptionTypeOK
<1>3. r \in Rows /\ r.ws = subs[i].ws /\ r.status = subs[i].status /\ subs' = [subs EXCEPT ![i] = r]
  BY <1>1, <1>2 DEF Rows
<1>. HIDE DEF r
<1>. QED BY <1>3, RowKeeps DEF TrialRunsOut

\* What a transaction does to the rows: the row it read, which is still its workspace's.
LEMMA CommitIs ==
  ASSUME SubInv, NEW c \in Callers, CommitWrite(c)
  PROVE  /\ call[c] \in Calls /\ call[c].op \notin {"eligible", "create", "grant"}
         /\ call[c].row \in DOMAIN subs /\ subs[call[c].row].ws = call[c].ws
         /\ subs' \in Seq(Rows) /\ Len(subs') = Len(subs) /\ DOMAIN subs' = DOMAIN subs
         /\ \A j \in DOMAIN subs : subs'[j] = IF j = call[c].row THEN Updated(subs[j], call[c]) ELSE subs[j]
         /\ \A w : RowsOf(w)' = RowsOf(w)
         /\ \A j \in DOMAIN subs : subs'[j].grants = subs[j].grants
         /\ \A w : w # call[c].ws \/ call[c].op # "expire" => (Closed(w)' => Closed(w))
<1>. USE DEF SubInv
<1>. DEFINE i == call[c].row
<1>1. call[c] \in Calls /\ call[c].op \notin {"eligible", "create", "grant"}
  BY DEF CommitWrite, SubscriptionTypeOK
<1>2. i \in DOMAIN subs /\ subs[i].ws = call[c].ws
  BY DEF CommitWrite, CallsHold, Writing, RowsOf
<1>3. subs[i] \in Rows
  BY <1>2, RowIs DEF SubscriptionTypeOK
<1>. DEFINE r == Updated(subs[i], call[c])
<1>4. /\ r \in Rows /\ r.ws = subs[i].ws /\ r.grants = subs[i].grants
      /\ call[c].op # "expire" /\ subs[i].status # "EXPIRED" => r.status # "EXPIRED"
  <2>1. call[c].op = "status" => call[c].status # "EXPIRED"
    BY DEF CommitWrite, CallsHold
  <2>. QED BY <1>1, <1>3, <2>1, UpdatedIs
<1>5. subs' = [subs EXCEPT ![i] = r]
  BY DEF CommitWrite
<1>. HIDE DEF r, i
<1>6. /\ subs' \in Seq(Rows) /\ Len(subs') = Len(subs) /\ DOMAIN subs' = DOMAIN subs
      /\ \A j \in DOMAIN subs : subs'[j] = IF j = i THEN r ELSE subs[j]
      /\ \A w : RowsOf(w)' = RowsOf(w)
  BY <1>4, <1>5, UpdateRow DEF SubscriptionTypeOK
<1>7. \A w : w # call[c].ws \/ call[c].op # "expire" => (Closed(w)' => Closed(w))
  <2>1. ASSUME NEW w, w # call[c].ws \/ call[c].op # "expire", Closed(w)', NEW j \in RowsOf(w)
        PROVE  subs[j].status = "EXPIRED"
    <3>1. j \in DOMAIN subs /\ subs[j].ws = w /\ subs'[j].status = "EXPIRED"
      BY <1>6, <2>1 DEF Closed, RowsOf
    <3>. QED BY <1>2, <1>4, <1>6, <2>1, <3>1
  <2>. QED BY <2>1 DEF Closed
<1>. QED BY <1>1, <1>2, <1>4, <1>6, <1>7 DEF r, i

\* A transaction commits; when a trial has expired, its call goes on to a free row.
LEMMA CommitStep == ASSUME SubInv, NEW c \in Callers, CommitWrite(c) PROVE SubInv'
<1>. USE DEF SubInv
<1>1. /\ call[c] \in Calls /\ call[c].op \notin {"eligible", "create", "grant"} /\ call[c] # None
      /\ UNCHANGED <<created, changes, crashes>>
  BY CommitIs DEF CommitWrite
<1>2. /\ subs' \in Seq(Rows) /\ Len(subs') = Len(subs)
      /\ \A w : RowsOf(w)' = RowsOf(w)
      /\ \A w : w # call[c].ws \/ call[c].op # "expire" => (Closed(w)' => Closed(w))
  BY CommitIs
<1>3. /\ call' \in [Callers -> Calls \cup {None}] /\ \A b \in Callers \ {c} : call'[b] = call[b]
      /\ IF call[c].op = "expire"
         THEN call'[c] # None /\ call'[c].op = "create" /\ call'[c].ws = call[c].ws /\ call'[c].row = call[c].row
         ELSE call'[c] = None
  <2>1. CASE call[c].op = "expire"
    <3>. DEFINE d == [call[c] EXCEPT !.op = "create"]
    <3>1. d \in Calls /\ d.op = "create" /\ d.ws = call[c].ws /\ d.row = call[c].row
      BY <1>1 DEF Calls, Ops
    <3>2. call' = [call EXCEPT ![c] = d]
      BY <2>1 DEF CommitWrite, Decide, AfterWrite
    <3>3. d # None
      BY <3>1, SubscriptionAssumption
    <3>. HIDE DEF d
    <3>. QED BY <2>1, <3>1, <3>2, <3>3 DEF SubscriptionTypeOK
  <2>2. CASE call[c].op # "expire"
    BY <2>2 DEF CommitWrite, Decide, AfterWrite, SubscriptionTypeOK
  <2>. QED BY <2>1, <2>2
<1>4. trials \in Seq(Workspaces) /\ Len(trials) \in Nat
  BY LenProperties DEF SubscriptionTypeOK
<1>5. trials' \in Seq(Workspaces) /\ Len(trials') = Len(trials) + (IF call[c].op = "trial" THEN 1 ELSE 0)
  <2>1. call[c].ws \in Workspaces
    BY <1>1 DEF Calls
  <2>. QED BY <1>4, <2>1 DEF CommitWrite
<1>6. SubscriptionTypeOK'
  <2>1. \A b \in Callers : call'[b] # None => call'[b].row <= Len(subs)
    BY <1>1, <1>3 DEF SubscriptionTypeOK
  <2>. QED BY <1>1, <1>2, <1>3, <1>5, <2>1 DEF SubscriptionTypeOK
<1>7. CallsHold'
  <2>1. ASSUME NEW b \in Callers, call'[b] # None
        PROVE  /\ Writing(b)' => call'[b].row \in RowsOf(call'[b].ws)
               /\ call'[b].op = "status" => call'[b].status \in {"ACTIVE", "PAST_DUE", "CANCELED"}
               /\ call'[b].op \in {"eligible", "trial"} => b \in Trialers
    <3>1. CASE b = c
      BY <1>3, <2>1, <3>1 DEF Writing
    <3>2. CASE b # c
      BY <1>3, <2>1, <3>2 DEF CallsHold, Writing
    <3>. QED BY <3>1, <3>2
  <2>. QED BY <1>2, <2>1 DEF CallsHold
<1>8. TrialsCounted'
  <2>1. Starting' = Starting \ {c}
    BY <1>3 DEF Starting
  <2>2. IsFiniteSet(Starting) /\ Cardinality(Starting) \in Nat /\ Cardinality(Trialers) \in Nat
    BY StartingIs
  <2>3. Cardinality(Starting') = IF c \in Starting THEN Cardinality(Starting) - 1 ELSE Cardinality(Starting)
    BY <2>1, <2>2, FS_RemoveElement
  <2>4. call[c].op = "trial" => c \in Starting
    BY <1>1 DEF Starting
  <2>. QED BY <1>4, <1>5, <2>2, <2>3, <2>4 DEF TrialsCounted
<1>9. OrphansCounted'
  <2>1. ASSUME NEW x \in created', Closed(x)', ~Creating(x)' PROVE x \in created /\ Closed(x) /\ ~Creating(x)
    <3>1. ~(call[c].op = "expire" /\ call[c].ws = x)
      BY <1>3, <2>1 DEF Creating
    <3>2. ~Creating(x)
      BY <1>1, <1>3, <2>1 DEF Creating
    <3>. QED BY <1>1, <1>2, <2>1, <3>1, <3>2
  <2>2. IsFiniteSet(created') /\ crashes' >= crashes
    BY <1>1 DEF OrphansCounted, SubscriptionTypeOK
  <2>. QED BY <1>6, <2>1, <2>2, OrphansShrink
<1>. QED BY <1>6, <1>7, <1>8, <1>9

\* The free row is created.
NewRow(w) == [ws |-> w, status |-> "ACTIVE", plan |-> 0, pending |-> None, ending |-> FALSE,
              trial |-> "unset", grants |-> 0]
LEMMA CreateIs ==
  ASSUME SubInv, NEW c \in Callers, CreateFree(c)
  PROVE  /\ call[c] \in Calls /\ call[c] # None /\ NewRow(call[c].ws) \in Rows
         /\ subs' = Append(subs, NewRow(call[c].ws))
<1>1. call[c] \in Calls /\ call[c] # None
  BY DEF SubInv, SubscriptionTypeOK, CreateFree
<1>2. 0 \in Plans
  BY SubscriptionAssumption DEF Plans
<1>. QED BY <1>1, <1>2 DEF CreateFree, NewRow, Rows, Statuses, Calls

LEMMA CreateFreeStep == ASSUME SubInv, NEW c \in Callers, CreateFree(c) PROVE SubInv'
<1>. USE DEF SubInv
<1>. DEFINE r == NewRow(call[c].ws)
            n == Len(subs) + 1
            d == [call[c] EXCEPT !.op = "grant", !.row = Len(subs) + 1]
<1>1. /\ call[c] \in Calls /\ call[c] # None /\ call[c].op = "create" /\ r \in Rows
      /\ r.ws = call[c].ws /\ r.status = "ACTIVE"
  BY CreateIs DEF CreateFree, NewRow
<1>2. Len(subs) \in Nat /\ Len(subs) < MaxRows /\ MaxRows \in Nat
  BY SubscriptionAssumption, LenProperties DEF CreateFree, SubscriptionTypeOK
<1>3. d \in Calls /\ d.op = "grant" /\ d.row = n
  <2>1. n \in 0..MaxRows /\ "grant" \in Ops
    BY <1>2 DEF Ops
  <2>2. \A x \in Calls, k \in 0..MaxRows, o \in Ops :
          LET y == [x EXCEPT !.op = o, !.row = k] IN y \in Calls /\ y.op = o /\ y.row = k
    BY DEF Calls
  <2>. QED BY <1>1, <2>1, <2>2
<1>4. /\ UNCHANGED <<trials, created, changes, crashes>>
      /\ call' = [call EXCEPT ![c] = d] /\ subs' = Append(subs, r)
  BY CreateIs DEF CreateFree, Decide
<1>. HIDE DEF r, d
<1>5. /\ subs' \in Seq(Rows) /\ Len(subs') = n /\ n \notin DOMAIN subs
      /\ DOMAIN subs' = DOMAIN subs \cup {n} /\ subs'[n] = r
      /\ \A j \in DOMAIN subs : subs'[j] = subs[j]
      /\ \A w : RowsOf(w)' = IF w = r.ws THEN RowsOf(w) \cup {n} ELSE RowsOf(w)
  BY <1>1, <1>4, AppendRow DEF SubscriptionTypeOK
<1>6. /\ call' \in [Callers -> Calls \cup {None}] /\ call'[c] = d
      /\ \A b \in Callers \ {c} : call'[b] = call[b]
  BY <1>3, <1>4 DEF SubscriptionTypeOK
<1>7. SubscriptionTypeOK'
  <2>1. \A b \in Callers : call'[b] # None => call'[b].row <= n
    <3>1. \A b \in Callers : call[b] # None => call[b].row <= Len(subs) /\ call[b].row \in Int
      BY DEF SubscriptionTypeOK, Calls
    <3>. QED BY <1>2, <1>3, <1>6, <3>1
  <2>. QED BY <1>2, <1>4, <1>5, <1>6, <2>1 DEF SubscriptionTypeOK
<1>8. CallsHold'
  <2>1. ASSUME NEW b \in Callers, call'[b] # None
        PROVE  /\ Writing(b)' => call'[b].row \in RowsOf(call[b].ws)'
               /\ call'[b].op = "status" => call'[b].status \in {"ACTIVE", "PAST_DUE", "CANCELED"}
               /\ call'[b].op \in {"eligible", "trial"} => b \in Trialers
    <3>1. CASE b = c
      BY <1>3, <1>6, <3>1 DEF Writing
    <3>2. CASE b # c
      <4>1. call'[b] = call[b]
        BY <1>6, <3>2
      <4>2. RowsOf(call[b].ws) \subseteq RowsOf(call[b].ws)'
        BY <1>5, <4>1
      <4>. QED BY <2>1, <4>1, <4>2 DEF CallsHold, Writing
    <3>. QED BY <3>1, <3>2
  <2>. QED BY <2>1 DEF CallsHold
<1>9. TrialsCounted'
  <2>1. Starting' = Starting
    BY <1>1, <1>3, <1>6 DEF Starting
  <2>. QED BY <1>4, <2>1 DEF TrialsCounted
<1>10. OrphansCounted'
  <2>1. ASSUME NEW x \in created', Closed(x)', ~Creating(x)' PROVE x \in created /\ Closed(x) /\ ~Creating(x)
    <3>1. x # call[c].ws
      BY <1>1, <1>5, <2>1 DEF Closed
    <3>2. Closed(x)
      <4>1. RowsOf(x)' = RowsOf(x) /\ \A j \in RowsOf(x) : subs'[j] = subs[j]
        BY <1>1, <1>5, <3>1 DEF RowsOf
      <4>. QED BY <2>1, <4>1 DEF Closed
    <3>3. ~Creating(x)
      BY <1>6, <2>1, <3>1 DEF Creating
    <3>. QED BY <1>4, <2>1, <3>2, <3>3
  <2>2. IsFiniteSet(created') /\ crashes' >= crashes
    BY <1>4 DEF OrphansCounted, SubscriptionTypeOK
  <2>. QED BY <1>7, <2>1, <2>2, OrphansShrink
<1>. QED BY <1>7, <1>8, <1>9, <1>10

\* A grant changes no more than its row, and then the call is over.
LEMMA GrantRowStep ==
  ASSUME SubInv, NEW w, GrantTo(w), UNCHANGED <<trials, created, call, changes, crashes>>
  PROVE  SubInv'
<1>1. subs \in Seq(Rows)
  BY DEF SubInv, SubscriptionTypeOK
<1>. QED BY <1>1, GrantToIs, RowKeeps

LEMMA GrantInitialStep == ASSUME SubInv, NEW c \in Callers, GrantInitial(c) PROVE SubInv'
<1>. USE DEF SubInv
<1>. DEFINE w == call[c].ws
            i == Latest(RowsOf(w))
            r == [subs[i] EXCEPT !.grants = @ + 1]
<1>1. /\ call[c] # None /\ call[c].op = "grant" /\ GrantTo(w)
      /\ call' = [call EXCEPT ![c] = None] /\ UNCHANGED <<trials, created, changes, crashes>>
  BY DEF GrantInitial, Decide
<1>2. /\ subs' = [subs EXCEPT ![i] = r]
      /\ i \in DOMAIN subs => r \in Rows /\ r.ws = subs[i].ws /\ r.status = subs[i].status
  BY <1>1, GrantToIs DEF SubscriptionTypeOK
<1>. HIDE DEF w, i, r
<1>3. /\ subs' \in Seq(Rows) /\ Len(subs') = Len(subs) /\ DOMAIN subs' = DOMAIN subs
      /\ \A j \in DOMAIN subs : subs'[j] = IF j = i THEN r ELSE subs[j]
      /\ \A x : RowsOf(x)' = RowsOf(x)
  BY <1>2, UpdateRow DEF SubscriptionTypeOK
<1>4. /\ call' \in [Callers -> Calls \cup {None}] /\ call'[c] = None
      /\ \A b \in Callers \ {c} : call'[b] = call[b]
  BY <1>1 DEF SubscriptionTypeOK
<1>5. SubscriptionTypeOK'
  BY <1>1, <1>3, <1>4 DEF SubscriptionTypeOK
<1>6. CallsHold'
  BY <1>3, <1>4 DEF CallsHold, Writing
<1>7. TrialsCounted'
  <2>1. Starting' = Starting
    BY <1>1, <1>4 DEF Starting
  <2>. QED BY <1>1, <2>1 DEF TrialsCounted
<1>8. OrphansCounted'
  <2>1. \A x : Closed(x)' => Closed(x)
    <3>1. \A j \in DOMAIN subs : subs'[j].status = subs[j].status
      BY <1>2, <1>3
    <3>2. \A x : RowsOf(x) \subseteq DOMAIN subs
      BY DEF RowsOf
    <3>. QED BY <1>3, <3>1, <3>2 DEF Closed
  <2>2. \A x : Creating(x) => Creating(x)'
    BY <1>1, <1>4 DEF Creating
  <2>3. IsFiniteSet(created') /\ crashes' >= crashes
    BY <1>1 DEF OrphansCounted, SubscriptionTypeOK
  <2>. QED BY <1>1, <1>5, <2>1, <2>2, <2>3, OrphansShrink
<1>. QED BY <1>5, <1>6, <1>7, <1>8

\* A call is cut short: if it was to create a row, its workspace is left without.
LEMMA CrashCallStep == ASSUME SubInv, NEW c \in Callers, CrashCall(c) PROVE SubInv'
<1>. USE DEF SubInv
<1>1. /\ call[c] # None /\ call' = [call EXCEPT ![c] = None] /\ crashes' = crashes + 1
      /\ crashes < MaxCrashes /\ UNCHANGED <<subs, trials, created, changes>>
  BY DEF CrashCall, Decide
<1>2. /\ crashes \in Nat /\ crashes' \in 0..MaxCrashes
  BY <1>1, SubscriptionAssumption DEF SubscriptionTypeOK
<1>3. CASE call[c].op # "create"
  <2>1. MayGoOn(c, None)
    BY DEF MayGoOn
  <2>. QED BY <1>1, <1>2, <1>3, <2>1, DecideKeeps DEF CrashCall, SubscriptionTypeOK
<1>4. CASE call[c].op = "create"
  <2>1. /\ call' \in [Callers -> Calls \cup {None}] /\ call'[c] = None
        /\ \A b \in Callers \ {c} : call'[b] = call[b]
    BY <1>1 DEF SubscriptionTypeOK
  <2>2. SubscriptionTypeOK'
    BY <1>1, <1>2, <2>1 DEF SubscriptionTypeOK
  <2>3. \A x : RowsOf(x)' = RowsOf(x) /\ (Closed(x)' <=> Closed(x))
    BY <1>1 DEF RowsOf, Closed
  <2>4. CallsHold'
    BY <1>1, <2>1, <2>3 DEF CallsHold, Writing
  <2>5. TrialsCounted'
    <3>1. Starting' = Starting
      BY <1>4, <2>1 DEF Starting
    <3>. QED BY <1>1, <3>1 DEF TrialsCounted
  <2>6. OrphansCounted'
    <3>. DEFINE w == call[c].ws
    <3>1. Orphaned = {x \in created : Closed(x) /\ ~Creating(x)}
      BY OrphanedIs
    <3>2. Orphaned' = {x \in created' : Closed(x)' /\ ~Creating(x)'}
      BY <2>2, OrphanedIsNext
    <3>3. \A x : Creating(x) => x = w \/ Creating(x)'
      BY <1>1, <2>1 DEF Creating
    <3>4. Orphaned' \subseteq Orphaned \cup {w}
      BY <1>1, <2>3, <3>1, <3>2, <3>3
    <3>. HIDE DEF w
    <3>5. IsFiniteSet(Orphaned)
      BY <3>1, FS_Subset DEF OrphansCounted
    <3>6. IsFiniteSet(Orphaned \cup {w}) /\ Cardinality(Orphaned \cup {w}) <= Cardinality(Orphaned) + 1
          /\ Cardinality(Orphaned) \in Nat /\ Cardinality(Orphaned \cup {w}) \in Nat
      <4>1. Cardinality(Orphaned) \in Nat
        BY <3>5, FS_CardinalityType
      <4>2. IsFiniteSet(Orphaned \cup {w})
            /\ Cardinality(Orphaned \cup {w}) = IF w \in Orphaned THEN Cardinality(Orphaned) ELSE Cardinality(Orphaned) + 1
        BY <3>5, FS_AddElement
      <4>. QED BY <4>1, <4>2
    <3>7. Cardinality(Orphaned') <= Cardinality(Orphaned \cup {w}) /\ Cardinality(Orphaned') \in Nat
      <4>1. Orphaned' \in SUBSET (Orphaned \cup {w})
        BY <3>4
      <4>. QED BY <3>6, <4>1, FS_Subset, FS_CardinalityType
    <3>. QED BY <1>1, <1>2, <3>6, <3>7 DEF OrphansCounted, NeverWithoutSubscription
  <2>. QED BY <2>2, <2>4, <2>5, <2>6
<1>. QED BY <1>3, <1>4

\* Nothing but the count of crashes changes.
LEMMA SubFrame ==
  ASSUME SubInv, UNCHANGED <<subs, trials, created, call, changes>>,
         crashes' = crashes \/ (crashes < MaxCrashes /\ crashes' = crashes + 1)
  PROVE  SubInv'
<1>. USE DEF SubInv
<1>1. crashes' \in 0..MaxCrashes /\ crashes' >= crashes
  BY SubscriptionAssumption DEF SubscriptionTypeOK
<1>2. SubscriptionTypeOK'
  BY <1>1 DEF SubscriptionTypeOK
<1>3. CallsHold'
  BY DEF CallsHold, Writing, RowsOf
<1>4. TrialsCounted'
  BY DEF TrialsCounted, Starting
<1>5. OrphansCounted'
  <2>1. \A x : (Closed(x)' <=> Closed(x)) /\ (Creating(x)' <=> Creating(x))
    BY DEF Closed, RowsOf, Creating
  <2>2. IsFiniteSet(created')
    BY DEF OrphansCounted
  <2>. QED BY <1>1, <1>2, <2>1, <2>2, OrphansShrink
<1>. QED BY <1>2, <1>3, <1>4, <1>5

\* Whatever a user's call does, the subscriptions stay as they must be.
LEMMA UserSubs == ASSUME SubInv, NEW c \in Callers, UserCall(c) \/ CallStep(c) \/ CrashCall(c) PROVE SubInv'
<1>1. CASE UserCall(c)
  BY <1>1, CreateWorkspaceStep, ReadSteps, TrialReads DEF UserCall
<1>2. CASE CallStep(c)
  BY <1>2, TrialReads, CommitStep, CreateFreeStep, GrantInitialStep DEF CallStep
<1>. QED BY <1>1, <1>2, CrashCallStep

-------------------------------------------------------------------------------
(***************************************************************************)
(* The monthly grants.                                                     *)
(***************************************************************************)

\* The rows stay their workspaces', and a row that has grants keeps having some.
RowsSame ==
  /\ DOMAIN subs' = DOMAIN subs
  /\ \A w : RowsOf(w)' = RowsOf(w)
  /\ \A j \in DOMAIN subs : subs[j].grants > 0 => subs'[j].grants > 0

\* Only the creation of a free row does more to them.
LEMMA RowsSameUnless ==
  ASSUME SubInv, NEW c \in Callers,
         \/ UserCall(c) \/ CallStep(c) \/ CrashCall(c) \/ TrialRunsOut
         \/ CommitWrite(c) \/ UNCHANGED subs
  PROVE  RowsSame \/ CreateFree(c)
<1>. USE DEF SubInv
<1>1. CASE UNCHANGED subs
  BY <1>1 DEF RowsSame, RowsOf
<1>2. CASE CommitWrite(c)
  BY <1>2, CommitIs DEF RowsSame
<1>3. CASE GrantInitial(c)
  <2>. DEFINE i == Latest(RowsOf(call[c].ws))
              r == [subs[i] EXCEPT !.grants = @ + 1]
  <2>1. /\ subs' = [subs EXCEPT ![i] = r]
        /\ i \in DOMAIN subs => r \in Rows /\ r.ws = subs[i].ws /\ r.grants = subs[i].grants + 1
    BY <1>3, GrantToIs DEF GrantInitial, SubscriptionTypeOK
  <2>2. i \in DOMAIN subs => subs[i].grants \in Nat
    BY RowIs DEF Rows, SubscriptionTypeOK
  <2>. HIDE DEF i, r
  <2>3. /\ DOMAIN subs' = DOMAIN subs /\ \A w : RowsOf(w)' = RowsOf(w)
        /\ \A j \in DOMAIN subs : subs'[j] = IF j = i THEN r ELSE subs[j]
    BY <2>1, UpdateRow DEF SubscriptionTypeOK
  <2>4. \A j \in DOMAIN subs : subs[j].grants > 0 => subs'[j].grants > 0
    BY <2>1, <2>2, <2>3
  <2>. QED BY <2>3, <2>4 DEF RowsSame
<1>4. CASE TrialRunsOut
  <2>1. PICK i \in DOMAIN subs : subs' = [subs EXCEPT ![i].trial = "past"]
    BY <1>4 DEF TrialRunsOut
  <2>. DEFINE r == [subs[i] EXCEPT !.trial = "past"]
  <2>2. subs[i] \in Rows
    BY RowIs DEF SubscriptionTypeOK
  <2>3. r \in Rows /\ r.ws = subs[i].ws /\ r.grants = subs[i].grants /\ subs' = [subs EXCEPT ![i] = r]
    BY <2>1, <2>2 DEF Rows
  <2>. HIDE DEF r
  <2>4. /\ DOMAIN subs' = DOMAIN subs /\ \A w : RowsOf(w)' = RowsOf(w)
        /\ \A j \in DOMAIN subs : subs'[j] = IF j = i THEN r ELSE subs[j]
    BY <2>3, UpdateRow DEF SubscriptionTypeOK
  <2>. QED BY <2>3, <2>4 DEF RowsSame
<1>5. UserCall(c) \/ CrashCall(c) => UNCHANGED subs
  BY DEF UserCall, CrashCall, CreateWorkspace, ReadForPlan, ReadForCancel, CheckEligible,
         ReadForConvert, ReadForExpire
<1>6. CallStep(c) => UNCHANGED subs \/ CommitWrite(c) \/ CreateFree(c) \/ GrantInitial(c)
  BY DEF CallStep, ReadForTrial
<1>. QED BY <1>1, <1>2, <1>3, <1>4, <1>5, <1>6

\* A step that leaves the job's variables alone keeps the grants as they must be.
LEMMA GrantFrame ==
  ASSUME GrantTypeOK, JobsHold, RowsSame, UNCHANGED grantVars,
         \A d \in Callers : job[d] # None => call'[d] = call[d]
  PROVE  GrantTypeOK' /\ JobsHold'
<1>1. UNCHANGED <<slot, job, jobGrants>>
  BY DEF grantVars
<1>2. GrantTypeOK'
  BY <1>1 DEF GrantTypeOK, Claimed
<1>3. \A w : Single(w)' <=> Single(w)
  BY DEF Single, RowsSame
<1>4. \A w : (\E i \in RowsOf(w) : subs[i].grants > 0) => \E i \in RowsOf(w)' : subs'[i].grants > 0
  BY DEF RowsSame, RowsOf
<1>5. JobsHold'
  BY <1>1, <1>3, <1>4 DEF JobsHold, RowsSame
<1>. QED BY <1>2, <1>5

\* The first row of a workspace finds no job for it, and no grant.
LEMMA GrantsOverCreation ==
  ASSUME SubInv, GrantTypeOK, JobsHold, NEW c \in Callers, CreateFree(c), UNCHANGED grantVars,
         \A d \in Callers : job[d] # None => call'[d] = call[d]
  PROVE  GrantTypeOK' /\ JobsHold'
<1>1. UNCHANGED <<slot, job, jobGrants>>
  BY DEF grantVars
<1>2. GrantTypeOK'
  BY <1>1 DEF GrantTypeOK, Claimed
<1>. DEFINE n == Len(subs) + 1
            v == call[c].ws
<1>3. /\ DOMAIN subs' = DOMAIN subs \cup {n} /\ n \notin DOMAIN subs
      /\ \A j \in DOMAIN subs : subs'[j] = subs[j]
      /\ \A w : RowsOf(w)' = IF w = v THEN RowsOf(w) \cup {n} ELSE RowsOf(w)
  <2>1. NewRow(v) \in Rows /\ subs' = Append(subs, NewRow(v))
    BY CreateIs
  <2>2. PICK r \in Rows : r = NewRow(v)
    BY <2>1
  <2>3. subs \in Seq(Rows) /\ subs' = Append(subs, r)
    BY <2>1, <2>2 DEF SubInv, SubscriptionTypeOK
  <2>4. r.ws = v
    BY <2>2 DEF NewRow
  <2>. HIDE DEF v
  <2>5. /\ Len(subs) + 1 \notin DOMAIN subs /\ DOMAIN subs' = DOMAIN subs \cup {Len(subs) + 1}
        /\ \A j \in DOMAIN subs : subs'[j] = subs[j]
        /\ \A w : RowsOf(w)' = IF w = r.ws THEN RowsOf(w) \cup {Len(subs) + 1} ELSE RowsOf(w)
    BY <2>3, AppendRow
  <2>. QED BY <2>4, <2>5
<1>. HIDE DEF n, v
<1>4. \A w : RowsOf(w) \subseteq DOMAIN subs
  BY DEF RowsOf
<1>5. ASSUME NEW w, Single(w)' PROVE Single(w) \/ RowsOf(w) = {}
  <2>1. PICK i \in DOMAIN subs' : RowsOf(w)' = {i}
    BY <1>5 DEF Single
  <2>. QED BY <1>3, <1>4, <2>1 DEF Single
<1>6. \A w \in Workspaces : RowsOf(w) = {} => jobGrants[w] = 0 /\ \A d \in Callers : job[d] # None => job[d].ws # w
  BY DEF JobsHold, GrantTypeOK
<1>7. ASSUME NEW d \in Callers, job[d] # None
      PROVE  /\ job[d].period \in RowsOf(job[d].ws)'
             /\ job[d].stage \in {"look", "grant"} => job[d].row \in RowsOf(job[d].ws)'
             /\ job[d].stage = "grant" /\ Single(job[d].ws)' => jobGrants[job[d].ws] = 0
  <2>1. job[d].ws \in Workspaces
    BY <1>7 DEF GrantTypeOK, Jobs
  <2>2. RowsOf(job[d].ws) \subseteq RowsOf(job[d].ws)'
    BY <1>1, <1>3
  <2>. QED BY <1>1, <1>5, <1>6, <1>7, <2>1, <2>2 DEF JobsHold
<1>8. ASSUME NEW w \in Workspaces, jobGrants[w] > 0 PROVE \E i \in RowsOf(w)' : subs'[i].grants > 0
  BY <1>3, <1>4, <1>8 DEF JobsHold
<1>9. ASSUME NEW w \in Workspaces, Single(w)' PROVE jobGrants[w] <= 1
  BY <1>5, <1>6, <1>9 DEF JobsHold
<1>10. JobsHold'
  BY <1>1, <1>7, <1>8, <1>9 DEF JobsHold
<1>. QED BY <1>2, <1>10

\* One job moves on, or ends; rows and grants stay.
LEMMA JobMoves ==
  ASSUME GrantTypeOK, JobsHold, NEW c \in Callers, NEW k \in Jobs \cup {None},
         job' = [job EXCEPT ![c] = k], UNCHANGED <<subs, call, jobGrants>>,
         slot' \in [Periods -> SlotStatuses],
         \A d \in Callers \ {c} : Claimed(d) => slot'[job[d].period] = "RUNNING",
         k # None =>
           /\ call[c] = None /\ k.period \in RowsOf(k.ws)
           /\ k.stage \in {"look", "grant"} => k.row \in RowsOf(k.ws)
           /\ k.stage = "grant" /\ Single(k.ws) => jobGrants[k.ws] = 0
           /\ k.stage # "claim" => /\ slot'[k.period] = "RUNNING"
                                   /\ \A d \in Callers \ {c} : Claimed(d) => job[d].period # k.period
  PROVE  GrantTypeOK' /\ JobsHold'
<1>1. /\ job' \in [Callers -> Jobs \cup {None}] /\ job'[c] = k
      /\ \A d \in Callers \ {c} : job'[d] = job[d]
  BY DEF GrantTypeOK
<1>2. \A w : RowsOf(w)' = RowsOf(w) /\ (Single(w)' <=> Single(w))
  BY DEF RowsOf, Single
<1>3. GrantTypeOK'
  <2>1. ASSUME NEW b \in Callers, job'[b] # None PROVE call'[b] = None
    BY <1>1, <2>1 DEF GrantTypeOK
  <2>2. ASSUME NEW b \in Callers, Claimed(b)'
        PROVE  /\ slot'[job'[b].period] = "RUNNING"
               /\ \A d \in Callers : Claimed(d)' /\ job'[d].period = job'[b].period => d = b
    BY <1>1, <2>2 DEF GrantTypeOK, Claimed
  <2>. QED BY <1>1, <2>1, <2>2 DEF GrantTypeOK
<1>4. JobsHold'
  <2>1. ASSUME NEW b \in Callers, job'[b] # None
        PROVE  /\ job'[b].period \in RowsOf(job'[b].ws)
               /\ job'[b].stage \in {"look", "grant"} => job'[b].row \in RowsOf(job'[b].ws)
               /\ job'[b].stage = "grant" /\ Single(job'[b].ws) => jobGrants[job'[b].ws] = 0
    <3>1. CASE b = c
      BY <1>1, <2>1, <3>1
    <3>2. CASE b # c
      BY <1>1, <2>1, <3>2 DEF JobsHold
    <3>. QED BY <3>1, <3>2
  <2>2. \A w \in Workspaces : jobGrants[w] > 0 => \E i \in RowsOf(w) : subs[i].grants > 0
    BY DEF JobsHold
  <2>3. \A w \in Workspaces : Single(w) => jobGrants[w] <= 1
    BY DEF JobsHold
  <2>4. UNCHANGED <<subs, jobGrants>>
    OBVIOUS
  <2>. QED BY <1>2, <2>1, <2>2, <2>3, <2>4 DEF JobsHold
<1>. QED BY <1>3, <1>4

\* The job starts, on the period of the current row, and claims its slot.
LEMMA JobStartStep ==
  ASSUME SubscriptionTypeOK, GrantTypeOK, JobsHold, NEW c \in Callers, BatchStart(c)
  PROVE  GrantTypeOK' /\ JobsHold'
<1>1. PICK w \in Workspaces : JobStart(c, w)
  BY DEF BatchStart
<1>. DEFINE k == [stage |-> "claim", ws |-> w, period |-> Current(w), row |-> 0]
<1>2. /\ job[c] = None /\ call[c] = None /\ Current(w) # 0 /\ job' = [job EXCEPT ![c] = k]
      /\ UNCHANGED <<subs, call, slot, jobGrants>>
  BY <1>1 DEF JobStart, subVars
<1>3. Current(w) \in RowsOf(w) /\ Current(w) \in Periods /\ 0 \in 0..MaxRows
  BY <1>2, CurrentTyped, SubscriptionAssumption DEF Periods
<1>4. k \in Jobs /\ k.stage = "claim" /\ k.ws = w /\ k.period = Current(w)
  BY <1>3 DEF Jobs
<1>. HIDE DEF k
<1>. QED BY <1>2, <1>3, <1>4, JobMoves DEF GrantTypeOK

LEMMA ClaimSlotStep ==
  ASSUME GrantTypeOK, JobsHold, NEW c \in Callers, ClaimSlot(c)
  PROVE  GrantTypeOK' /\ JobsHold'
<1>1. /\ job[c] # None /\ job[c] \in Jobs /\ job[c].stage = "claim" /\ ~Claimed(c)
      /\ call[c] = None /\ job[c].period \in Periods /\ job[c].period \in RowsOf(job[c].ws)
      /\ UNCHANGED <<subs, call, jobGrants>>
  BY DEF ClaimSlot, GrantTypeOK, JobsHold, Jobs, Claimed, subVars
<1>2. CASE ClaimHits(job[c].period)
  <2>. DEFINE k == [job[c] EXCEPT !.stage = "due"]
  <2>1. k \in Jobs /\ k.stage = "due" /\ k.period = job[c].period /\ k.ws = job[c].ws
    BY <1>1 DEF Jobs
  <2>2. job' = [job EXCEPT ![c] = k] /\ slot' = [slot EXCEPT ![job[c].period] = "RUNNING"]
    BY <1>2 DEF ClaimSlot, Stage
  <2>3. /\ slot' \in [Periods -> SlotStatuses] /\ slot'[job[c].period] = "RUNNING"
        /\ \A d \in Callers : Claimed(d) => slot'[job[d].period] = "RUNNING" /\ job[d].period # job[c].period
    BY <1>1, <1>2, <2>2 DEF GrantTypeOK, ClaimHits, SlotStatuses, Jobs, Claimed
  <2>. HIDE DEF k
  <2>. QED BY <1>1, <2>1, <2>2, <2>3, JobMoves
<1>3. CASE ~ClaimHits(job[c].period)
  <2>1. job' = [job EXCEPT ![c] = None] /\ slot' = slot
    BY <1>3 DEF ClaimSlot, EndJob
  <2>. QED BY <1>1, <2>1, JobMoves DEF GrantTypeOK
<1>. QED BY <1>2, <1>3

\* What a job that has its slot may count on.
LEMMA JobIs ==
  ASSUME GrantTypeOK, JobsHold, NEW c \in Callers, job[c] # None, job[c].stage # "claim"
  PROVE  /\ job[c] \in Jobs /\ call[c] = None /\ Claimed(c) /\ slot[job[c].period] = "RUNNING"
         /\ job[c].ws \in Workspaces /\ job[c].period \in Periods
         /\ job[c].period \in RowsOf(job[c].ws)
         /\ \A d \in Callers \ {c} : Claimed(d) => /\ job[d].period # job[c].period
                                                   /\ slot[job[d].period] = "RUNNING"
  BY DEF GrantTypeOK, JobsHold, Jobs, Claimed

\* It reads the current row and looks for a grant.
LEMMA LookSteps ==
  ASSUME SubscriptionTypeOK, GrantTypeOK, JobsHold, NEW c \in Callers, ReadDue(c) \/ LookForGrant(c)
  PROVE  GrantTypeOK' /\ JobsHold'
<1>1. job[c] # None /\ job[c].stage \in {"due", "look"} /\ UNCHANGED <<subs, call, slot, jobGrants>>
  BY DEF ReadDue, LookForGrant, subVars
<1>2. /\ job[c] \in Jobs /\ call[c] = None /\ slot[job[c].period] = "RUNNING"
      /\ job[c].ws \in Workspaces /\ job[c].period \in RowsOf(job[c].ws)
      /\ \A d \in Callers \ {c} : Claimed(d) => /\ job[d].period # job[c].period
                                                /\ slot[job[d].period] = "RUNNING"
  BY <1>1, JobIs
<1>3. /\ slot' \in [Periods -> SlotStatuses] /\ slot'[job[c].period] = "RUNNING"
      /\ \A d \in Callers \ {c} : Claimed(d) => slot'[job[d].period] = "RUNNING"
  BY <1>1, <1>2 DEF GrantTypeOK
<1>. DEFINE w == job[c].ws
<1>4. CASE ReadDue(c)
  <2>. DEFINE k == [job[c] EXCEPT !.stage = "look", !.row = Current(w)]
  <2>1. Current(w) \in RowsOf(w) /\ Current(w) \in 0..MaxRows
    BY <1>4, CurrentTyped DEF ReadDue
  <2>2. \A x \in Jobs, i \in 0..MaxRows : LET y == [x EXCEPT !.stage = "look", !.row = i] IN
          y \in Jobs /\ y.stage = "look" /\ y.row = i /\ y.period = x.period /\ y.ws = x.ws
    BY DEF Jobs
  <2>3. k \in Jobs /\ k.stage = "look" /\ k.row = Current(w) /\ k.period = job[c].period /\ k.ws = w
    BY <1>2, <2>1, <2>2
  <2>4. job' = [job EXCEPT ![c] = k]
    BY <1>4 DEF ReadDue, GrantTypeOK
  <2>. HIDE DEF k
  <2>. QED BY <1>1, <1>2, <1>3, <2>1, <2>3, <2>4, JobMoves
<1>5. CASE LookForGrant(c)
  <2>. DEFINE s == IF GrantedSince(job[c].row) THEN "close" ELSE "grant"
              k == [job[c] EXCEPT !.stage = s]
  <2>1. k \in Jobs /\ k.stage = s /\ k.row = job[c].row /\ k.period = job[c].period /\ k.ws = w
    BY <1>2 DEF Jobs
  <2>2. job' = [job EXCEPT ![c] = k]
    BY <1>5 DEF LookForGrant, Stage
  <2>3. job[c].row \in RowsOf(w)
    BY <1>5 DEF LookForGrant, JobsHold
  <2>4. ASSUME s = "grant", Single(w) PROVE jobGrants[w] = 0
    <3>1. PICK i \in DOMAIN subs : RowsOf(w) = {i}
      BY <2>4 DEF Single
    <3>2. job[c].row = i /\ subs[i].ws = w /\ i \in Int
      BY <2>3, <3>1, LenProperties DEF RowsOf, SubscriptionTypeOK
    <3>3. ~GrantedSince(i)
      BY <2>4, <3>2
    <3>4. ~(subs[i].grants > 0)
      BY <3>1, <3>2, <3>3 DEF GrantedSince
    <3>5. ~(jobGrants[w] > 0)
      BY <1>2, <3>1, <3>4 DEF JobsHold
    <3>. QED BY <1>2, <3>5 DEF GrantTypeOK
  <2>. HIDE DEF k, s
  <2>. QED BY <1>1, <1>2, <1>3, <2>1, <2>2, <2>3, <2>4, JobMoves
<1>. QED BY <1>4, <1>5

\* The run is over, or its process died.
LEMMA EndSteps ==
  ASSUME GrantTypeOK, JobsHold, NEW c \in Callers, CloseSlot(c) \/ FailSlot(c) \/ CrashJob(c)
  PROVE  GrantTypeOK' /\ JobsHold'
<1>1. job[c] # None /\ job' = [job EXCEPT ![c] = None] /\ UNCHANGED <<subs, call, jobGrants>>
  BY DEF CloseSlot, FailSlot, CrashJob, EndJob, subVars
<1>2. CASE CrashJob(c)
  BY <1>1, <1>2, JobMoves DEF CrashJob, GrantTypeOK
<1>3. CASE CloseSlot(c) \/ FailSlot(c)
  <2>1. job[c].stage # "claim"
    BY <1>3 DEF CloseSlot, FailSlot
  <2>2. /\ job[c].period \in Periods
        /\ \A d \in Callers \ {c} : Claimed(d) => /\ job[d].period # job[c].period
                                                  /\ slot[job[d].period] = "RUNNING"
    BY <1>1, <2>1, JobIs
  <2>3. slot' = [slot EXCEPT ![job[c].period] = "SUCCEEDED"] \/ slot' = [slot EXCEPT ![job[c].period] = "FAILED"]
    BY <1>3 DEF CloseSlot, FailSlot
  <2>4. /\ slot' \in [Periods -> SlotStatuses]
        /\ \A d \in Callers \ {c} : Claimed(d) => slot'[job[d].period] = "RUNNING"
    BY <2>2, <2>3 DEF GrantTypeOK, SlotStatuses, Jobs, Claimed
  <2>. QED BY <1>1, <2>4, JobMoves
<1>. QED BY <1>2, <1>3

\* It grants: the first grant of a workspace with a single row, since another job about to
\* grant there would have the same period.
LEMMA GrantByJobStep ==
  ASSUME SubscriptionTypeOK, GrantTypeOK, JobsHold, NEW c \in Callers, GrantByJob(c)
  PROVE  GrantTypeOK' /\ JobsHold'
<1>. DEFINE w == job[c].ws
            i == Latest(RowsOf(w))
            r == [subs[i] EXCEPT !.grants = @ + 1]
            k == [job[c] EXCEPT !.stage = "close"]
<1>1. /\ job[c] # None /\ job[c].ws = w /\ job[c].stage = "grant" /\ UNCHANGED <<call, slot>>
      /\ job' = [job EXCEPT ![c] = k] /\ jobGrants' = [jobGrants EXCEPT ![w] = @ + 1]
  BY DEF GrantByJob, Stage
<1>2. /\ job[c] \in Jobs /\ call[c] = None /\ slot[job[c].period] = "RUNNING" /\ Claimed(c)
      /\ w \in Workspaces /\ job[c].period \in RowsOf(w)
      /\ \A d \in Callers \ {c} : Claimed(d) => /\ job[d].period # job[c].period
                                                /\ slot[job[d].period] = "RUNNING"
  BY <1>1, JobIs
<1>3. k \in Jobs /\ k.stage = "close" /\ k.ws = w /\ k.period = job[c].period
  BY <1>2 DEF Jobs
<1>4. i \in RowsOf(w) /\ i \in DOMAIN subs
  BY <1>2, NewestIs DEF SubscriptionTypeOK, RowsOf
<1>5. /\ subs' = [subs EXCEPT ![i] = r]
      /\ r \in Rows /\ r.ws = subs[i].ws /\ r.grants = subs[i].grants + 1 /\ subs[i].grants \in Nat
  BY <1>4, GrantToIs, RowIs DEF GrantByJob, SubscriptionTypeOK, Rows
<1>. HIDE DEF i, r, k, w
<1>6. /\ DOMAIN subs' = DOMAIN subs /\ \A v : RowsOf(v)' = RowsOf(v)
      /\ \A j \in DOMAIN subs : subs'[j] = IF j = i THEN r ELSE subs[j]
  BY <1>5, UpdateRow DEF SubscriptionTypeOK
<1>7. \A v : Single(v)' <=> Single(v)
  BY <1>6 DEF Single
<1>8. /\ job' \in [Callers -> Jobs \cup {None}] /\ job'[c] = k
      /\ \A d \in Callers \ {c} : job'[d] = job[d]
  BY <1>1, <1>3 DEF GrantTypeOK
<1>9. /\ jobGrants' \in [Workspaces -> Nat] /\ jobGrants'[w] = jobGrants[w] + 1
      /\ \A v \in Workspaces \ {w} : jobGrants'[v] = jobGrants[v]
  BY <1>1, <1>2 DEF GrantTypeOK
<1>10. GrantTypeOK'
  <2>1. \A d \in Callers : Claimed(d)' <=> Claimed(d) /\ job'[d] # None
    BY <1>2, <1>3, <1>8 DEF Claimed
  <2>2. \A d \in Callers : Claimed(d)' => job'[d].period = job[d].period
    BY <1>3, <1>8
  <2>3. \A d \in Callers : Claimed(d)' =>
          /\ slot'[job'[d].period] = "RUNNING"
          /\ \A e \in Callers : Claimed(e)' /\ job'[e].period = job'[d].period => e = d
    BY <1>1, <2>1, <2>2 DEF GrantTypeOK
  <2>4. \A d \in Callers : job'[d] # None => call'[d] = None
    BY <1>1, <1>2, <1>8 DEF GrantTypeOK
  <2>5. slot' \in [Periods -> SlotStatuses]
    BY <1>1 DEF GrantTypeOK
  <2>. QED BY <1>8, <1>9, <2>3, <2>4, <2>5 DEF GrantTypeOK
<1>11. ASSUME NEW d \in Callers, job'[d] # None
       PROVE  /\ job'[d].period \in RowsOf(job'[d].ws)
              /\ job'[d].stage \in {"look", "grant"} => job'[d].row \in RowsOf(job'[d].ws)
              /\ job'[d].stage = "grant" /\ Single(job'[d].ws) => jobGrants'[job'[d].ws] = 0
  <2>1. CASE d = c
    BY <1>2, <1>3, <1>8, <2>1
  <2>2. CASE d # c
    <3>1. job'[d] = job[d] /\ job[d] \in Jobs
      BY <1>8, <1>11, <2>2 DEF GrantTypeOK
    <3>2. /\ job[d].period \in RowsOf(job[d].ws)
          /\ job[d].stage \in {"look", "grant"} => job[d].row \in RowsOf(job[d].ws)
          /\ job[d].stage = "grant" /\ Single(job[d].ws) => jobGrants[job[d].ws] = 0
      BY <1>11, <3>1 DEF JobsHold
    <3>3. ~(job[d].stage = "grant" /\ job[d].ws = w /\ Single(w))
      <4>. SUFFICES ASSUME job[d].stage = "grant", job[d].ws = w, Single(w) PROVE FALSE
        OBVIOUS
      <4>1. job[d].period = job[c].period
        BY <1>2, <3>2 DEF Single
      <4>2. Claimed(d)
        BY <1>11, <3>1 DEF Claimed
      <4>. QED BY <1>2, <2>2, <4>1, <4>2
    <3>4. job[d].ws \in Workspaces
      BY <3>1 DEF Jobs
    <3>. QED BY <1>9, <3>1, <3>2, <3>3, <3>4
  <2>. QED BY <2>1, <2>2
<1>12. ASSUME NEW v \in Workspaces, jobGrants'[v] > 0 PROVE \E j \in RowsOf(v) : subs'[j].grants > 0
  <2>1. CASE v = w
    BY <1>4, <1>5, <1>6, <2>1
  <2>2. CASE v # w
    <3>1. PICK j \in RowsOf(v) : subs[j].grants > 0
      BY <1>9, <1>12, <2>2 DEF JobsHold
    <3>2. j \in DOMAIN subs /\ j # i
      BY <1>4, <2>2, <3>1 DEF RowsOf
    <3>. QED BY <1>6, <3>1, <3>2
  <2>. QED BY <2>1, <2>2
<1>13. ASSUME NEW v \in Workspaces, Single(v) PROVE jobGrants'[v] <= 1
  <2>1. CASE v = w
    BY <1>1, <1>9, <1>13, <2>1 DEF JobsHold
  <2>2. CASE v # w
    BY <1>9, <1>13, <2>2 DEF JobsHold
  <2>. QED BY <2>1, <2>2
<1>14. JobsHold'
  BY <1>6, <1>7, <1>11, <1>12, <1>13 DEF JobsHold
<1>. QED BY <1>10, <1>14

\* So whatever the job does.
LEMMA GrantsKeep ==
  ASSUME SubInv, GrantTypeOK, JobsHold, NEW c \in Callers, BatchStart(c) \/ JobStep(c) \/ CrashJob(c)
  PROVE  SubInv' /\ GrantTypeOK' /\ JobsHold'
<1>1. SubscriptionTypeOK
  BY DEF SubInv
<1>2. GrantTypeOK' /\ JobsHold'
  BY <1>1, JobStartStep, ClaimSlotStep, LookSteps, GrantByJobStep, EndSteps DEF JobStep
<1>3. CASE GrantByJob(c)
  BY <1>2, <1>3, GrantRowStep DEF GrantByJob
<1>4. CASE ~GrantByJob(c)
  <2>1. UNCHANGED <<subs, trials, created, call, changes>>
        /\ (crashes' = crashes \/ (crashes < MaxCrashes /\ crashes' = crashes + 1))
    BY <1>4 DEF BatchStart, JobStart, JobStep, ClaimSlot, ReadDue, LookForGrant, CloseSlot, FailSlot, CrashJob, subVars
  <2>. QED BY <1>2, <2>1, SubFrame
<1>. QED BY <1>3, <1>4

-------------------------------------------------------------------------------
(***************************************************************************)
(* The payment events.                                                     *)
(***************************************************************************)

\* A step of others keeps an event's processing as it is.
LEMMA HookFrame ==
  ASSUME WebhookTypeOK, HooksHold, UNCHANGED hookVars,
         \A d \in Callers : handling[d] # None => call'[d] = call[d]
  PROVE  WebhookTypeOK' /\ HooksHold'
<1>1. UNCHANGED <<event, handling, delivered, applied, refused>>
  BY DEF hookVars
<1>2. WebhookTypeOK'
  BY <1>1 DEF WebhookTypeOK
<1>3. EventsOnce'
  BY <1>1 DEF HooksHold, EventsOnce, AppliedOnce, ProcessedMeansApplied
<1>4. HooksHold'
  BY <1>1, <1>3 DEF HooksHold
<1>. QED BY <1>2, <1>4

\* The caller of an event goes on to k, the event's row to s, its transitions to n.
HookGoes(c, e, k, s, n) ==
  /\ k # None => /\ k.event = e /\ s = "RECEIVED" /\ (call'[c] # None <=> k.stage = "write")
                 /\ call'[c] # None => call'[c].op = "status"
                 /\ k.stage \in {"apply", "write"} => n = 0 /\ EventType[e] # "other"
                 /\ k.stage \in {"notify", "mark"} => (n = 1 <=> EventType[e] # "other")
  /\ s = "PROCESSED" => (n = 1 <=> EventType[e] # "other")
LEMMA HookMoves ==
  ASSUME WebhookTypeOK, HooksHold, NEW c \in Callers, NEW e \in Events, NEW k \in Handlings \cup {None},
         NEW s \in EventStatuses \ {"none"}, NEW n \in {0, 1},
         handling[c] # None, handling[c].event = e,
         handling' = [handling EXCEPT ![c] = k], event' = [event EXCEPT ![e] = s],
         applied' = [applied EXCEPT ![e] = n], UNCHANGED <<delivered, refused>>,
         \A d \in Callers \ {c} : handling[d] # None => call'[d] = call[d],
         HookGoes(c, e, k, s, n)
  PROVE  WebhookTypeOK' /\ HooksHold'
<1>1. /\ handling' \in [Callers -> Handlings \cup {None}] /\ handling'[c] = k
      /\ \A d \in Callers \ {c} : handling'[d] = handling[d]
  BY DEF WebhookTypeOK
<1>2. /\ event' \in [Events -> EventStatuses] /\ event'[e] = s
      /\ \A f \in Events \ {e} : event'[f] = event[f]
  BY DEF WebhookTypeOK
<1>3. /\ applied' \in [Events -> Nat] /\ applied'[e] = n
      /\ \A f \in Events \ {e} : applied'[f] = applied[f]
  BY DEF WebhookTypeOK
<1>4. \A d \in Callers \ {c} : handling[d] # None => handling[d].event # e /\ handling[d].event \in Events
  BY DEF HooksHold, WebhookTypeOK, Handlings
<1>5. WebhookTypeOK'
  <2>1. ASSUME NEW d \in Callers, handling'[d] # None
        PROVE  call'[d] # None <=> handling'[d].stage = "write"
    <3>1. CASE d = c
      BY <1>1, <2>1, <3>1 DEF HookGoes
    <3>2. CASE d # c
      BY <1>1, <2>1, <3>2 DEF WebhookTypeOK
    <3>. QED BY <3>1, <3>2
  <2>2. delivered' \in [Events -> 0..MaxDeliveries] /\ refused' \subseteq Events
    BY DEF WebhookTypeOK
  <2>. QED BY <1>1, <1>2, <1>3, <2>1, <2>2 DEF WebhookTypeOK
<1>6. EventsOnce'
  <2>1. \A f \in Events : applied'[f] <= 1
    BY <1>3 DEF HooksHold, EventsOnce, AppliedOnce
  <2>2. \A f \in Events : event'[f] = "PROCESSED" => (applied'[f] = 1 <=> EventType[f] # "other")
    BY <1>2, <1>3 DEF HooksHold, EventsOnce, ProcessedMeansApplied, HookGoes
  <2>. QED BY <2>1, <2>2 DEF EventsOnce, AppliedOnce, ProcessedMeansApplied
<1>7. \A d, b \in Callers :
        handling'[d] # None /\ handling'[b] # None /\ handling'[d].event = handling'[b].event => d = b
  BY <1>1, <1>4 DEF HooksHold, HookGoes
<1>8. ASSUME NEW d \in Callers, handling'[d] # None
      PROVE  LET f == handling'[d].event IN
             /\ event'[f] = "RECEIVED"
             /\ call'[d] # None => call'[d].op = "status"
             /\ handling'[d].stage \in {"apply", "write"} => applied'[f] = 0 /\ EventType[f] # "other"
             /\ handling'[d].stage \in {"notify", "mark"} => (applied'[f] = 1 <=> EventType[f] # "other")
  <2>1. CASE d = c
    BY <1>1, <1>2, <1>3, <1>8, <2>1 DEF HookGoes
  <2>2. CASE d # c
    <3>1. handling'[d] = handling[d] /\ handling[d] # None /\ call'[d] = call[d]
      BY <1>1, <1>8, <2>2
    <3>2. event'[handling[d].event] = event[handling[d].event] /\ applied'[handling[d].event] = applied[handling[d].event]
      BY <1>2, <1>3, <1>4, <2>2, <3>1
    <3>. QED BY <3>1, <3>2 DEF HooksHold
  <2>. QED BY <2>1, <2>2
<1>9. \A f \in Events : event'[f] = "none" => applied'[f] = 0
  BY <1>2, <1>3 DEF HooksHold
<1>. QED BY <1>5, <1>6, <1>7, <1>8, <1>9 DEF HooksHold

\* A delivery is recorded by the one caller that finds no row.
LEMMA DeliverStep ==
  ASSUME WebhookTypeOK, HooksHold, NEW c \in Callers, NEW e \in Events, Deliver(c, e)
  PROVE  WebhookTypeOK' /\ HooksHold'
<1>1. /\ call[c] = None /\ UNCHANGED <<call, applied>> /\ handling[c] = None
      /\ delivered' \in [Events -> 0..MaxDeliveries]
  BY WebhookAssumption DEF Deliver, WebhookTypeOK, subVars
<1>2. CASE ~FirstDelivery(e)
  <2>1. UNCHANGED <<event, handling>> /\ refused' \subseteq Events
    BY <1>2 DEF Deliver, WebhookTypeOK
  <2>2. WebhookTypeOK'
    BY <1>1, <2>1 DEF WebhookTypeOK
  <2>3. EventsOnce'
    BY <1>1, <2>1 DEF HooksHold, EventsOnce, AppliedOnce, ProcessedMeansApplied
  <2>4. HooksHold'
    BY <1>1, <2>1, <2>3 DEF HooksHold
  <2>. QED BY <2>2, <2>4
<1>3. CASE FirstDelivery(e)
  <2>. DEFINE k == [event |-> e, stage |-> FirstStage(e)]
  <2>1. /\ event[e] = "none" /\ event' = [event EXCEPT ![e] = "RECEIVED"]
        /\ handling' = [handling EXCEPT ![c] = k] /\ refused' = refused
    BY <1>3 DEF Deliver, FirstDelivery
  <2>2. /\ k \in Handlings /\ k.event = e /\ k.stage = (IF EventType[e] = "other" THEN "mark" ELSE "apply")
    BY DEF FirstStage, Handlings
  <2>. HIDE DEF k
  <2>3. /\ handling' \in [Callers -> Handlings \cup {None}] /\ handling'[c] = k
        /\ \A d \in Callers \ {c} : handling'[d] = handling[d]
    BY <2>1, <2>2 DEF WebhookTypeOK
  <2>4. /\ event' \in [Events -> EventStatuses] /\ event'[e] = "RECEIVED"
        /\ \A f \in Events \ {e} : event'[f] = event[f]
    BY <2>1 DEF WebhookTypeOK, EventStatuses
  <2>5. \A d \in Callers : handling[d] # None => handling[d].event # e /\ handling[d].event \in Events
    BY <2>1 DEF HooksHold, WebhookTypeOK, Handlings
  <2>6. applied[e] = 0
    BY <2>1 DEF HooksHold
  <2>7. WebhookTypeOK'
    <3>1. \A d \in Callers : handling'[d] # None => (call'[d] # None <=> handling'[d].stage = "write")
      BY <1>1, <2>2, <2>3 DEF WebhookTypeOK
    <3>2. applied' \in [Events -> Nat] /\ refused' \subseteq Events
      BY <1>1, <2>1 DEF WebhookTypeOK
    <3>. QED BY <1>1, <2>3, <2>4, <3>1, <3>2 DEF WebhookTypeOK
  <2>8. EventsOnce'
    BY <1>1, <2>4 DEF HooksHold, EventsOnce, AppliedOnce, ProcessedMeansApplied
  <2>9. \A d, b \in Callers :
          handling'[d] # None /\ handling'[b] # None /\ handling'[d].event = handling'[b].event => d = b
    BY <2>2, <2>3, <2>5 DEF HooksHold
  <2>10. ASSUME NEW d \in Callers, handling'[d] # None
         PROVE  LET f == handling'[d].event IN
                /\ event'[f] = "RECEIVED"
                /\ call'[d] # None => call'[d].op = "status"
                /\ handling'[d].stage \in {"apply", "write"} => applied'[f] = 0 /\ EventType[f] # "other"
                /\ handling'[d].stage \in {"notify", "mark"} => (applied'[f] = 1 <=> EventType[f] # "other")
    <3>1. CASE d = c
      BY <1>1, <2>2, <2>3, <2>4, <2>6, <3>1
    <3>2. CASE d # c
      <4>1. handling'[d] = handling[d] /\ handling[d] # None /\ event'[handling[d].event] = event[handling[d].event]
        BY <2>3, <2>4, <2>5, <2>10, <3>2
      <4>. QED BY <1>1, <4>1 DEF HooksHold
    <3>. QED BY <3>1, <3>2
  <2>11. \A f \in Events : event'[f] = "none" => applied'[f] = 0
    BY <1>1, <2>4, <2>6 DEF HooksHold
  <2>. QED BY <2>7, <2>8, <2>9, <2>10, <2>11 DEF HooksHold
<1>. QED BY <1>2, <1>3

\* What the caller of an event may count on.
LEMMA HookIs ==
  ASSUME WebhookTypeOK, HooksHold, NEW c \in Callers, handling[c] # None
  PROVE  LET e == handling[c].event IN
         /\ handling[c] \in Handlings /\ e \in Events /\ event[e] = "RECEIVED" /\ applied[e] \in {0, 1}
         /\ call[c] # None <=> handling[c].stage = "write"
         /\ call[c] # None => call[c].op = "status"
         /\ handling[c].stage \in {"apply", "write"} => applied[e] = 0 /\ EventType[e] # "other"
         /\ handling[c].stage \in {"notify", "mark"} => (applied[e] = 1 <=> EventType[e] # "other")
         /\ event = [event EXCEPT ![e] = "RECEIVED"] /\ applied = [applied EXCEPT ![e] = applied[e]]
         /\ \A t \in {"apply", "write", "notify", "mark"} : LET k == [handling[c] EXCEPT !.stage = t] IN
              k \in Handlings /\ k.stage = t /\ k.event = e
<1>. DEFINE e == handling[c].event
<1>1. handling[c] \in Handlings /\ e \in Events
  BY DEF WebhookTypeOK, Handlings
<1>2. event[e] = "RECEIVED"
  BY DEF HooksHold
<1>3. applied[e] \in {0, 1}
  <2>1. applied[e] \in Nat /\ applied[e] <= 1
    BY <1>1 DEF WebhookTypeOK, HooksHold, EventsOnce, AppliedOnce
  <2>. QED BY <2>1
<1>4. event = [event EXCEPT ![e] = "RECEIVED"] /\ applied = [applied EXCEPT ![e] = applied[e]]
  BY <1>1, <1>2 DEF WebhookTypeOK
<1>5. /\ call[c] # None <=> handling[c].stage = "write"
      /\ call[c] # None => call[c].op = "status"
      /\ handling[c].stage \in {"apply", "write"} => applied[e] = 0 /\ EventType[e] # "other"
      /\ handling[c].stage \in {"notify", "mark"} => (applied[e] = 1 <=> EventType[e] # "other")
  BY DEF WebhookTypeOK, HooksHold
<1>6. \A x \in Handlings, t \in {"apply", "write", "notify", "mark"} :
        LET k == [x EXCEPT !.stage = t] IN k \in Handlings /\ k.stage = t /\ k.event = x.event
  BY DEF Handlings
<1>. QED BY <1>1, <1>2, <1>3, <1>4, <1>5, <1>6

\* The event is applied: its workspace's subscription is read, then written.
LEMMA ApplyStep ==
  ASSUME SubInv, WebhookTypeOK, HooksHold, NEW c \in Callers, Apply(c)
  PROVE  SubInv' /\ WebhookTypeOK' /\ HooksHold'
<1>. DEFINE e == handling[c].event
            k == [handling[c] EXCEPT !.stage = "write"]
            to == MappedStatus(e)
<1>1. /\ handling[c] # None /\ handling[c].stage = "apply" /\ ReadForStatus(c, EventFor[e], to)
      /\ handling' = [handling EXCEPT ![c] = k] /\ UNCHANGED <<event, delivered, applied, refused>>
  BY DEF Apply, HandleTo
<1>2. /\ e \in Events /\ applied[e] = 0 /\ EventType[e] # "other"
      /\ k \in Handlings /\ k.stage = "write" /\ k.event = e
      /\ event = [event EXCEPT ![e] = "RECEIVED"] /\ applied = [applied EXCEPT ![e] = 0]
  BY <1>1, HookIs
<1>3. to \in {"ACTIVE", "PAST_DUE", "CANCELED"}
  BY <1>2, WebhookAssumption DEF MappedStatus
<1>4. SubInv'
  BY <1>1, <1>3, ReadForStatusStep
<1>5. call'[c] # None /\ call'[c].op = "status" /\ \A d \in Callers \ {c} : call'[d] = call[d]
  <2>. DEFINE w == EventFor[e]
              r == Write("status", w, Current(w), to, 0)
  <2>1. Current(w) # 0 /\ call' = [call EXCEPT ![c] = r]
    BY <1>1 DEF ReadForStatus, LegalTargets, Decide
  <2>2. w \in Workspaces /\ Current(w) \in 0..MaxRows
    BY <2>1, CurrentTyped DEF SubInv
  <2>3. to \in Statuses /\ "status" \in Ops /\ 0 \in Plans
    BY <1>3, SubscriptionAssumption DEF Statuses, Ops, Plans
  <2>4. r # None /\ r.op = "status"
    BY <2>2, <2>3, WriteIs
  <2>. HIDE DEF r, w
  <2>. QED BY <2>1, <2>4 DEF SubInv, SubscriptionTypeOK
<1>6. "RECEIVED" \in EventStatuses \ {"none"}
  BY DEF EventStatuses
<1>. HIDE DEF k, to
<1>7. handling[c].event = e
  BY DEF e
<1>8. /\ event' = [event EXCEPT ![e] = "RECEIVED"] /\ applied' = [applied EXCEPT ![e] = 0]
      /\ k \in Handlings \cup {None} /\ 0 \in {0, 1} /\ UNCHANGED <<delivered, refused>>
  BY <1>1, <1>2
<1>9. HookGoes(c, e, k, "RECEIVED", 0)
  BY <1>2, <1>5 DEF HookGoes
<1>10. PICK x \in Handlings \cup {None}, n \in {0, 1} :
         /\ handling' = [handling EXCEPT ![c] = x] /\ applied' = [applied EXCEPT ![e] = n]
         /\ HookGoes(c, e, x, "RECEIVED", n)
  BY <1>1, <1>6, <1>8, <1>9
<1>11. /\ e \in Events /\ handling[c] # None /\ handling[c].event = e /\ UNCHANGED <<delivered, refused>>
       /\ event' = [event EXCEPT ![e] = "RECEIVED"]
       /\ \A d \in Callers \ {c} : handling[d] # None => call'[d] = call[d]
  BY <1>1, <1>2, <1>5, <1>7, <1>8
<1>12. WebhookTypeOK' /\ HooksHold'
  BY <1>6, <1>10, <1>11, HookMoves
<1>. QED BY <1>4, <1>12

LEMMA ApplyWriteStep ==
  ASSUME SubInv, WebhookTypeOK, HooksHold, NEW c \in Callers, ApplyWrite(c)
  PROVE  SubInv' /\ WebhookTypeOK' /\ HooksHold'
<1>. DEFINE e == handling[c].event
            t == IF EventType[e] = "failed" THEN "notify" ELSE "mark"
            k == [handling[c] EXCEPT !.stage = t]
<1>1. /\ handling[c] # None /\ handling[c].stage = "write" /\ CommitWrite(c)
      /\ handling' = [handling EXCEPT ![c] = k] /\ applied' = [applied EXCEPT ![e] = @ + 1]
      /\ UNCHANGED <<event, delivered, refused>>
  BY DEF ApplyWrite, HandleTo
<1>2. /\ e \in Events /\ applied[e] = 0 /\ EventType[e] # "other" /\ call[c] # None /\ call[c].op = "status"
      /\ k \in Handlings /\ k.stage = t /\ k.event = e
      /\ event = [event EXCEPT ![e] = "RECEIVED"]
  <2>1. t \in {"apply", "write", "notify", "mark"}
    OBVIOUS
  <2>. HIDE DEF t
  <2>. QED BY <1>1, <2>1, HookIs
<1>3. SubInv'
  BY <1>1, CommitStep
<1>4. call'[c] = None /\ \A d \in Callers \ {c} : call'[d] = call[d]
  BY <1>1, <1>2 DEF CommitWrite, Decide, AfterWrite, SubInv, SubscriptionTypeOK
<1>5. "RECEIVED" \in EventStatuses \ {"none"} /\ t \in {"notify", "mark"}
  BY DEF EventStatuses
<1>6. applied' = [applied EXCEPT ![e] = 1]
  BY <1>1, <1>2
<1>. HIDE DEF k, t
<1>7. handling[c].event = e
  BY DEF e
<1>8. /\ event' = [event EXCEPT ![e] = "RECEIVED"] /\ k \in Handlings \cup {None} /\ 1 \in {0, 1}
      /\ UNCHANGED <<delivered, refused>>
  BY <1>1, <1>2
<1>9. HookGoes(c, e, k, "RECEIVED", 1)
  BY <1>2, <1>4, <1>5 DEF HookGoes
<1>10. PICK x \in Handlings \cup {None}, n \in {0, 1} :
         /\ handling' = [handling EXCEPT ![c] = x] /\ applied' = [applied EXCEPT ![e] = n]
         /\ HookGoes(c, e, x, "RECEIVED", n)
  BY <1>1, <1>6, <1>8, <1>9
<1>11. /\ e \in Events /\ handling[c] # None /\ handling[c].event = e /\ UNCHANGED <<delivered, refused>>
       /\ event' = [event EXCEPT ![e] = "RECEIVED"]
       /\ \A d \in Callers \ {c} : handling[d] # None => call'[d] = call[d]
  BY <1>1, <1>2, <1>4, <1>7, <1>8
<1>12. WebhookTypeOK' /\ HooksHold'
  BY <1>5, <1>10, <1>11, HookMoves
<1>. QED BY <1>3, <1>12

\* The customer is told, and the row marked.
LEMMA MarkSteps ==
  ASSUME SubInv, WebhookTypeOK, HooksHold, NEW c \in Callers, NotifyPayment(c) \/ MarkProcessed(c)
  PROVE  SubInv' /\ WebhookTypeOK' /\ HooksHold'
<1>. DEFINE e == handling[c].event
            k == [handling[c] EXCEPT !.stage = "mark"]
<1>1. /\ handling[c] # None /\ handling[c].stage \in {"notify", "mark"}
      /\ UNCHANGED <<subs, trials, created, call, changes, crashes, delivered, applied, refused>>
  BY DEF NotifyPayment, MarkProcessed, subVars
<1>2. /\ e \in Events /\ applied[e] \in {0, 1} /\ (applied[e] = 1 <=> EventType[e] # "other") /\ call[c] = None
      /\ k \in Handlings /\ k.stage = "mark" /\ k.event = e
      /\ event = [event EXCEPT ![e] = "RECEIVED"] /\ applied = [applied EXCEPT ![e] = applied[e]]
  BY <1>1, HookIs
<1>3. SubInv'
  BY <1>1, SubFrame
<1>4. {"RECEIVED", "PROCESSED"} \subseteq EventStatuses \ {"none"}
  BY DEF EventStatuses
<1>. HIDE DEF k
<1>5. CASE NotifyPayment(c)
  <2>1. handling' = [handling EXCEPT ![c] = k] /\ event' = event
    BY <1>5 DEF NotifyPayment, HandleTo, k
  <2>2. event' = [event EXCEPT ![e] = "RECEIVED"] /\ applied' = [applied EXCEPT ![e] = applied[e]]
        /\ k \in Handlings \cup {None} /\ call' = call
    BY <1>1, <1>2, <2>1
  <2>3. HookGoes(c, e, k, "RECEIVED", applied[e])
    BY <1>2, <2>2 DEF HookGoes
  <2>4. PICK x \in Handlings \cup {None} :
          handling' = [handling EXCEPT ![c] = x] /\ HookGoes(c, e, x, "RECEIVED", applied[e])
    BY <2>1, <2>2, <2>3
  <2>5. WebhookTypeOK' /\ HooksHold'
    BY <1>1, <1>2, <1>4, <2>2, <2>4, HookMoves
  <2>. QED BY <1>3, <2>5
<1>6. CASE MarkProcessed(c)
  <2>1. handling' = [handling EXCEPT ![c] = None] /\ event' = [event EXCEPT ![e] = "PROCESSED"]
    BY <1>6 DEF MarkProcessed, Answer
  <2>2. HookGoes(c, e, None, "PROCESSED", applied[e])
    BY <1>2 DEF HookGoes
  <2>3. WebhookTypeOK' /\ HooksHold'
    BY <1>1, <1>2, <1>4, <2>1, <2>2, HookMoves
  <2>. QED BY <1>3, <2>3
<1>. QED BY <1>1, <1>5, <1>6

\* Processing is cut short, with its row FAILED or as it was.
LEMMA HookEnds ==
  ASSUME SubInv, WebhookTypeOK, HooksHold, NEW c \in Callers, MarkFailed(c) \/ CrashHandling(c)
  PROVE  SubInv' /\ WebhookTypeOK' /\ HooksHold'
<1>. DEFINE e == handling[c].event
<1>1. /\ handling[c] # None /\ handling' = [handling EXCEPT ![c] = None]
      /\ Decide(c, None) /\ UNCHANGED <<subs, trials, created, changes, delivered, applied, refused>>
      /\ crashes' = crashes \/ (crashes < MaxCrashes /\ crashes' = crashes + 1)
      /\ event' = event \/ event' = [event EXCEPT ![e] = "FAILED"]
  BY DEF MarkFailed, CrashHandling, Answer
<1>2. /\ e \in Events /\ applied[e] \in {0, 1} /\ (call[c] # None => call[c].op = "status")
      /\ event = [event EXCEPT ![e] = "RECEIVED"] /\ applied = [applied EXCEPT ![e] = applied[e]]
  BY <1>1, HookIs
<1>3. crashes' \in 0..MaxCrashes /\ crashes' >= crashes /\ changes' \in 0..MaxChanges
  BY <1>1, SubscriptionAssumption DEF SubInv, SubscriptionTypeOK
<1>4. MayGoOn(c, None)
  BY DEF MayGoOn
<1>5. SubInv'
  BY <1>1, <1>2, <1>3, <1>4, DecideKeeps
<1>6. \A d \in Callers \ {c} : call'[d] = call[d]
  BY <1>1 DEF Decide, SubInv, SubscriptionTypeOK
<1>7. {"RECEIVED", "FAILED"} \subseteq EventStatuses \ {"none"}
  BY DEF EventStatuses
<1>8. PICK s \in {"RECEIVED", "FAILED"} : event' = [event EXCEPT ![e] = s]
  BY <1>1, <1>2
<1>9. HookGoes(c, e, None, s, applied[e])
  BY DEF HookGoes
<1>10. WebhookTypeOK' /\ HooksHold'
  BY <1>1, <1>2, <1>6, <1>7, <1>8, <1>9, HookMoves
<1>. QED BY <1>5, <1>10

\* So whatever an event's processing does.
LEMMA HooksKeep ==
  ASSUME SubInv, WebhookTypeOK, HooksHold, NEW c \in Callers,
         (\E e \in Events : Deliver(c, e)) \/ HookStep(c) \/ CrashHandling(c)
  PROVE  SubInv' /\ WebhookTypeOK' /\ HooksHold'
<1>1. CASE \E e \in Events : Deliver(c, e)
  <2>1. UNCHANGED <<subs, trials, created, call, changes, crashes>>
    BY <1>1 DEF Deliver, subVars
  <2>2. SubInv'
    BY <2>1, SubFrame
  <2>3. WebhookTypeOK' /\ HooksHold'
    BY <1>1, DeliverStep
  <2>. QED BY <2>2, <2>3
<1>2. CASE HookStep(c)
  BY <1>2, ApplyStep, ApplyWriteStep, MarkSteps, HookEnds DEF HookStep
<1>. QED BY <1>1, <1>2, HookEnds

-------------------------------------------------------------------------------
(***************************************************************************)
(* All of it.                                                              *)
(***************************************************************************)

\* Each works on its own call.
LEMMA OwnCall ==
  ASSUME SubscriptionTypeOK, NEW c \in Callers,
         \/ UserCall(c) \/ CallStep(c) \/ CrashCall(c)
         \/ (\E e \in Events : Deliver(c, e)) \/ HookStep(c) \/ CrashHandling(c)
  PROVE  \A d \in Callers \ {c} : call'[d] = call[d]
<1>1. (\E x : Decide(c, x)) => \A d \in Callers \ {c} : call'[d] = call[d]
  BY DEF Decide, SubscriptionTypeOK
<1>2. UserCall(c) => \E x : Decide(c, x)
  BY DEF UserCall, CreateWorkspace, ReadForPlan, ReadForCancel, CheckEligible, ReadForConvert, ReadForExpire
<1>3. CallStep(c) \/ CrashCall(c) => \E x : Decide(c, x)
  BY DEF CallStep, ReadForTrial, CommitWrite, CreateFree, GrantInitial, CrashCall
<1>4. (\E e \in Events : Deliver(c, e)) => call' = call
  BY DEF Deliver, subVars
<1>5. HookStep(c) \/ CrashHandling(c) => call' = call \/ \E x : Decide(c, x)
  BY DEF HookStep, Apply, ReadForStatus, ApplyWrite, CommitWrite, NotifyPayment, MarkProcessed, MarkFailed,
         CrashHandling, subVars
<1>. QED BY <1>1, <1>2, <1>3, <1>4, <1>5

LEMMA UserKeeps == ASSUME CommerceInv, NEW c \in Callers, UserStep(c) PROVE CommerceInv'
<1>. USE DEF CommerceInv
<1>1. /\ job[c] = None /\ handling[c] = None /\ UNCHANGED grantVars /\ UNCHANGED hookVars
      /\ UserCall(c) \/ CallStep(c) \/ CrashCall(c)
  BY DEF UserStep, Free
<1>2. \A d \in Callers \ {c} : call'[d] = call[d]
  BY <1>1, OwnCall DEF SubInv
<1>3. /\ \A d \in Callers : job[d] # None => call'[d] = call[d]
      /\ \A d \in Callers : handling[d] # None => call'[d] = call[d]
  BY <1>1, <1>2
<1>4. SubInv'
  BY <1>1, UserSubs
<1>5. GrantTypeOK' /\ JobsHold'
  BY <1>1, <1>3, RowsSameUnless, GrantFrame, GrantsOverCreation
<1>6. WebhookTypeOK' /\ HooksHold'
  BY <1>1, <1>3, HookFrame
<1>. QED BY <1>4, <1>5, <1>6

LEMMA GrantKeeps == ASSUME CommerceInv, NEW c \in Callers, GrantStep(c) PROVE CommerceInv'
<1>. USE DEF CommerceInv
<1>1. UNCHANGED hookVars /\ (BatchStart(c) \/ JobStep(c) \/ CrashJob(c))
  BY DEF GrantStep
<1>2. SubInv' /\ GrantTypeOK' /\ JobsHold'
  BY <1>1, GrantsKeep
<1>3. call' = call
  BY <1>1 DEF BatchStart, JobStart, JobStep, ClaimSlot, ReadDue, LookForGrant, GrantByJob, CloseSlot, FailSlot,
              CrashJob, subVars
<1>4. WebhookTypeOK' /\ HooksHold'
  BY <1>1, <1>3, HookFrame
<1>. QED BY <1>2, <1>4

LEMMA WebhookKeeps == ASSUME CommerceInv, NEW c \in Callers, WebhookStep(c) PROVE CommerceInv'
<1>. USE DEF CommerceInv
<1>1. /\ job[c] = None /\ UNCHANGED grantVars
      /\ (\E e \in Events : Deliver(c, e)) \/ HookStep(c) \/ CrashHandling(c)
  BY DEF WebhookStep
<1>2. \A d \in Callers \ {c} : call'[d] = call[d]
  BY <1>1, OwnCall DEF SubInv
<1>3. \A d \in Callers : job[d] # None => call'[d] = call[d]
  BY <1>1, <1>2
<1>4. SubInv' /\ WebhookTypeOK' /\ HooksHold'
  BY <1>1, HooksKeep
<1>5. RowsSame
  <2>1. UNCHANGED subs \/ CommitWrite(c)
    BY <1>1 DEF Deliver, HookStep, Apply, ReadForStatus, ApplyWrite, NotifyPayment, MarkProcessed, MarkFailed,
                CrashHandling, subVars
  <2>2. CASE UNCHANGED subs
    BY <2>2 DEF RowsSame, RowsOf
  <2>3. CASE CommitWrite(c)
    BY <2>3, CommitIs DEF RowsSame
  <2>. QED BY <2>1, <2>2, <2>3
<1>6. GrantTypeOK' /\ JobsHold'
  BY <1>1, <1>3, <1>5, GrantFrame
<1>. QED BY <1>4, <1>6

LEMMA TimeKeeps == ASSUME CommerceInv, TimeStep PROVE CommerceInv'
<1>. USE DEF CommerceInv
<1>1. TrialRunsOut /\ UNCHANGED grantVars /\ UNCHANGED hookVars /\ call' = call
  BY DEF TimeStep, TrialRunsOut
<1>2. SubInv'
  BY <1>1, TrialRunsOutStep
<1>3. RowsSame
  <2>1. PICK i \in DOMAIN subs : subs' = [subs EXCEPT ![i].trial = "past"]
    BY <1>1 DEF TrialRunsOut
  <2>. DEFINE r == [subs[i] EXCEPT !.trial = "past"]
  <2>2. subs[i] \in Rows
    BY RowIs DEF SubInv, SubscriptionTypeOK
  <2>3. r \in Rows /\ r.ws = subs[i].ws /\ r.grants = subs[i].grants /\ subs' = [subs EXCEPT ![i] = r]
    BY <2>1, <2>2 DEF Rows
  <2>. HIDE DEF r
  <2>4. /\ DOMAIN subs' = DOMAIN subs /\ \A w : RowsOf(w)' = RowsOf(w)
        /\ \A j \in DOMAIN subs : subs'[j] = IF j = i THEN r ELSE subs[j]
    BY <2>3, UpdateRow DEF SubInv, SubscriptionTypeOK
  <2>. QED BY <2>3, <2>4 DEF RowsSame
<1>4. GrantTypeOK' /\ JobsHold'
  BY <1>1, <1>3, GrantFrame
<1>5. WebhookTypeOK' /\ HooksHold'
  BY <1>1, HookFrame
<1>. QED BY <1>2, <1>4, <1>5

LEMMA CommerceStep == ASSUME CommerceInv, [CommerceNext]_commerceVars PROVE CommerceInv'
<1>1. CASE CommerceNext
  BY <1>1, UserKeeps, GrantKeeps, WebhookKeeps, TimeKeeps DEF CommerceNext
<1>2. CASE UNCHANGED commerceVars
  <2>1. UNCHANGED <<subs, trials, created, call, changes, crashes>> /\ UNCHANGED grantVars /\ UNCHANGED hookVars
    BY <1>2 DEF commerceVars, subVars
  <2>. USE DEF CommerceInv
  <2>2. SubInv'
    BY <2>1, SubFrame
  <2>3. RowsSame
    BY <2>1 DEF RowsSame, RowsOf
  <2>4. GrantTypeOK' /\ JobsHold'
    BY <2>1, <2>3, GrantFrame
  <2>5. WebhookTypeOK' /\ HooksHold'
    BY <2>1, HookFrame
  <2>. QED BY <2>2, <2>4, <2>5
<1>. QED BY <1>1, <1>2

LEMMA CommerceStart == CommerceInit => CommerceInv
<1>. SUFFICES ASSUME CommerceInit PROVE CommerceInv
  OBVIOUS
<1>1. /\ subs = << >> /\ trials = << >> /\ created = {} /\ call = [c \in Callers |-> None]
      /\ changes = 0 /\ crashes = 0
  BY DEF CommerceInit, SubscriptionInit
<1>2. \A w : RowsOf(w) = {}
  BY <1>1 DEF RowsOf
<1>3. SubscriptionTypeOK
  BY <1>1, SubscriptionAssumption DEF SubscriptionTypeOK
<1>4. CallsHold
  BY <1>1 DEF CallsHold
<1>5. TrialsCounted
  <2>1. Starting = {} /\ Len(trials) = 0
    BY <1>1 DEF Starting
  <2>2. Cardinality(Starting) = 0 /\ Cardinality(Trialers) \in Nat
    BY <2>1, FS_EmptySet, FS_CardinalityType, SubscriptionAssumption
  <2>. QED BY <2>1, <2>2 DEF TrialsCounted
<1>6. OrphansCounted
  <2>1. Orphaned = {}
    BY <1>1 DEF Orphaned
  <2>. QED BY <1>1, <2>1, FS_EmptySet DEF OrphansCounted, NeverWithoutSubscription
<1>7. GrantTypeOK
  BY <1>1 DEF CommerceInit, GrantInit, GrantTypeOK, SlotStatuses, Claimed
<1>8. JobsHold
  BY <1>1, <1>2 DEF CommerceInit, GrantInit, JobsHold, Single
<1>9. WebhookTypeOK
  BY WebhookAssumption DEF CommerceInit, WebhookInit, WebhookTypeOK, EventStatuses
<1>10. HooksHold
  BY DEF CommerceInit, WebhookInit, HooksHold, EventsOnce, AppliedOnce, ProcessedMeansApplied
<1>. QED BY <1>3, <1>4, <1>5, <1>6, <1>7, <1>8, <1>9, <1>10 DEF CommerceInv, SubInv

\* What the invariant says of trials, and of the rows a set has one of.
LEMMA CommerceSays ==
  CommerceInv => CommerceTypeOK /\ SubscriptionsHold /\ JobGrantsOnce /\ EventsOnce
<1>. SUFFICES ASSUME CommerceInv PROVE CommerceTypeOK /\ SubscriptionsHold /\ JobGrantsOnce /\ EventsOnce
  OBVIOUS
<1>1. SubInv /\ GrantTypeOK /\ JobsHold /\ WebhookTypeOK /\ HooksHold
  BY DEF CommerceInv
<1>2. CommerceTypeOK
  BY <1>1 DEF SubInv, CommerceTypeOK
<1>3. TrialsLimited
  <2>1. Cardinality(Starting) \in Nat /\ Cardinality(Trialers) \in Nat
    BY <1>1, StartingIs DEF SubInv
  <2>2. Len(trials) \in Nat
    BY <1>1, LenProperties DEF SubInv, SubscriptionTypeOK
  <2>. QED BY <1>1, <2>1, <2>2 DEF SubInv, TrialsCounted, TrialsLimited
<1>4. ASSUME NEW w \in Workspaces, Cardinality(RowsOf(w)) = 1 PROVE jobGrants[w] <= 1
  <2>1. RowsOf(w) \subseteq DOMAIN subs /\ DOMAIN subs = 1..Len(subs) /\ Len(subs) \in Nat
    BY <1>1, LenProperties DEF SubInv, SubscriptionTypeOK, RowsOf
  <2>2. IsFiniteSet(DOMAIN subs)
    BY <2>1, FS_Interval
  <2>3. IsFiniteSet(RowsOf(w))
    BY <2>1, <2>2, FS_Subset
  <2>4. \E i : RowsOf(w) = {i}
    BY <1>4, <2>3, FS_Singleton
  <2>5. Single(w)
    BY <2>1, <2>4 DEF Single
  <2>. QED BY <1>1, <2>5 DEF JobsHold
<1>5. SubscriptionsHold
  BY <1>1, <1>3 DEF SubInv, OrphansCounted, SubscriptionsHold
<1>6. JobGrantsOnce
  BY <1>4 DEF JobGrantsOnce
<1>. QED BY <1>1, <1>2, <1>5, <1>6 DEF HooksHold

-------------------------------------------------------------------------------
(***************************************************************************)
(* The notices, and the notification centre that walks them.               *)
(***************************************************************************)

\* A row has an id and an event of its own.
NoticesTyped ==
  /\ notices \subseteq [id : NoticeIds, event : Occasions, at : 0..MaxTime, read : BOOLEAN]
  /\ \A r, s \in notices : r.id = s.id => r = s
  /\ now \in 0..MaxTime
  /\ writer \in [Writers -> [event : Occasions, at : 0..MaxTime] \cup {Resting}]
  /\ marks \in 0..MaxMarks /\ disorder \in BOOLEAN /\ missed \in BOOLEAN

IdsOf(R) == {r.id : r \in R}

\* The rows a page leaves to the next; an answer under cursor c: rows behind c, in order, and
\* with the next cursor all of them, as long as new rows come first.
Rest(p) == IF p.next = First THEN {} ELSE IdsOf(Beyond(p.next))
Fills(c, p) == (IF c = First THEN p.had ELSE IdsOf(Beyond(c))) \subseteq ItemsOf(p) \cup Rest(p)
PageOK(c, p) ==
  /\ c = First \/ c \in Taken
  /\ Len(p.items) <= PageSize /\ ItemsOf(p) \subseteq Taken /\ p.had \subseteq Taken
  /\ p.next = First \/ p.next \in ItemsOf(p)
  /\ c # First => \A j \in ItemsOf(p) : Before(RowOf(c), RowOf(j))
  /\ ~disorder => Fills(c, p)
PagesHold ==
  /\ pages = [c \in DOMAIN pages |-> pages[c]]
  /\ \A c \in DOMAIN pages : PageOK(c, pages[c])
  /\ outdated \subseteq DOMAIN pages

\* A way to a page follows the cursors of the pages before it, and these leave out no row.
Covered(q, i) == \A x \in pages[First].had :
  (\E j \in 1..i : x \in ItemsOf(pages[q[j]])) \/ x \in Rest(pages[q[i]])
WayOK(q) ==
  /\ q \in Seq(Cursors) /\ Len(q) >= 1 /\ q[1] = First
  /\ \A i \in 2..Len(q) : q[i] \in Taken
  /\ \A i \in 1..(Len(q) - 1) : q[i] \in DOMAIN pages /\ q[i + 1] = pages[q[i]].next
  /\ \A i, j \in 2..Len(q) : i < j => Before(RowOf(q[i]), RowOf(q[j]))
  /\ ~disorder => \A i \in 1..(Len(q) - 1) : Covered(q, i)
TrailHolds == trail # Away =>
  /\ WayOK(trail) /\ Here \in DOMAIN pages
  /\ ~disorder => Covered(trail, Len(trail))

NoticeInv == NoticesTyped /\ OneNoticeEach /\ PagesHold /\ TrailHolds

\* The order of the rows is total.
LEMMA BeforeIs ==
  NoticesTyped => \A r, s, t \in notices :
    /\ ~Before(r, r) /\ (Before(r, s) \/ Before(s, r) \/ r = s)
    /\ Before(r, s) /\ Before(s, t) => Before(r, t)
<1>. SUFFICES ASSUME NoticesTyped, NEW r \in notices, NEW s \in notices, NEW t \in notices
     PROVE  /\ ~Before(r, r) /\ (Before(r, s) \/ Before(s, r) \/ r = s)
            /\ Before(r, s) /\ Before(s, t) => Before(r, t)
  OBVIOUS
<1>1. \A x \in notices : x.id \in Nat /\ x.at \in Nat
  BY NotificationAssumption DEF NoticesTyped, NoticeIds
<1>2. r.id = s.id => r = s
  BY DEF NoticesTyped
<1>. QED BY <1>1, <1>2 DEF Before

\* Ids tell rows apart, so the rows are finitely many.
LEMMA NoticesFinite ==
  ASSUME NoticesTyped, NEW R, R \subseteq notices
  PROVE  IsFiniteSet(R) /\ Cardinality(R) \in Nat /\ Cardinality(IdsOf(R)) = Cardinality(R)
<1>. DEFINE f == [r \in R |-> r.id]
<1>1. \A r \in R : r.id \in 1..MaxNotices
  BY DEF NoticesTyped, NoticeIds
<1>2. \A r, s \in R : r.id = s.id => r = s
  BY DEF NoticesTyped
<1>3. f \in [R -> IdsOf(R)] /\ \A r, s \in R : f[r] = f[s] => r = s
  BY <1>2 DEF IdsOf
<1>4. \A i \in IdsOf(R) : \E r \in R : f[r] = i
  BY DEF IdsOf
<1>. HIDE DEF f
<1>5. f \in Bijection(R, IdsOf(R)) /\ f \in Injection(R, IdsOf(R))
  BY <1>3, <1>4 DEF Bijection, Injection, Surjection, IsInjective
<1>6. IsFiniteSet(IdsOf(R))
  <2>1. IsFiniteSet(1..MaxNotices)
    BY NotificationAssumption, FS_Interval
  <2>2. IdsOf(R) \in SUBSET (1..MaxNotices)
    BY <1>1 DEF IdsOf
  <2>. QED BY <2>1, <2>2, FS_Subset
<1>7. IsFiniteSet(R)
  BY <1>5, <1>6, FS_Injection
<1>8. ExistsBijection(R, IdsOf(R))
  BY <1>5 DEF ExistsBijection
<1>. QED BY <1>7, <1>8, FS_Bijection, FS_CardinalityType

\* A row's rank counts the rows up to it.
LEMMA RankIs ==
  ASSUME NoticesTyped, NEW R, R \subseteq notices
  PROVE  /\ \A r \in R : Rank(r, R) \in 1..Cardinality(R)
         /\ \A r, s \in R : Before(r, s) => Rank(r, R) < Rank(s, R)
<1>1. IsFiniteSet(R) /\ Cardinality(R) \in Nat
  BY NoticesFinite
<1>2. \A r \in R : /\ IsFiniteSet({s \in R : Before(s, r)}) /\ Cardinality({s \in R : Before(s, r)}) \in Nat
  <2>1. \A r \in R : {s \in R : Before(s, r)} \in SUBSET R
    OBVIOUS
  <2>. QED BY <1>1, <2>1, FS_Subset, FS_CardinalityType
<1>3. ASSUME NEW r \in R PROVE Rank(r, R) \in 1..Cardinality(R)
  <2>. DEFINE A == {s \in R : Before(s, r)}
  <2>1. A \in SUBSET (R \ {r})
    BY BeforeIs
  <2>2. IsFiniteSet(R \ {r}) /\ Cardinality(R \ {r}) = Cardinality(R) - 1
    BY <1>1, FS_RemoveElement
  <2>3. Cardinality(A) \in Nat
    BY <1>2
  <2>. HIDE DEF A
  <2>4. Cardinality(A) <= Cardinality(R) - 1
    BY <2>1, <2>2, FS_Subset
  <2>5. Rank(r, R) = 1 + Cardinality(A)
    BY DEF Rank, A
  <2>. QED BY <1>1, <2>3, <2>4, <2>5
<1>4. ASSUME NEW r \in R, NEW s \in R, Before(r, s) PROVE Rank(r, R) < Rank(s, R)
  <2>. DEFINE A == {x \in R : Before(x, r)}
              B == {x \in R : Before(x, s)}
  <2>1. A \in SUBSET (B \ {r}) /\ r \in B
    BY <1>4, BeforeIs
  <2>2. IsFiniteSet(B) /\ Cardinality(A) \in Nat /\ Cardinality(B) \in Nat
    BY <1>2
  <2>. HIDE DEF A, B
  <2>3. IsFiniteSet(B \ {r}) /\ Cardinality(B \ {r}) = Cardinality(B) - 1
    BY <2>1, <2>2, FS_RemoveElement
  <2>4. Cardinality(A) <= Cardinality(B) - 1
    BY <2>1, <2>3, FS_Subset
  <2>5. Rank(r, R) = 1 + Cardinality(A) /\ Rank(s, R) = 1 + Cardinality(B)
    BY DEF Rank, A, B
  <2>. QED BY <2>2, <2>4, <2>5
<1>. QED BY <1>3, <1>4

\* A function on 1..n is a sequence of that length.
LEMMA SeqIs ==
  ASSUME NEW n \in Nat, NEW S, NEW f \in [1..n -> S]
  PROVE  f \in Seq(S) /\ Len(f) = n
<1>1. f \in Seq(S)
  BY SeqDef
<1>2. 1..Len(f) = 1..n /\ Len(f) \in Nat
  BY <1>1, LenProperties
<1>3. (n >= 1 => n \in 1..Len(f)) /\ (Len(f) >= 1 => Len(f) \in 1..n)
  BY <1>2
<1>. QED BY <1>1, <1>2, <1>3

\* So the rows in order are all of them, one at each rank.
LEMMA InOrderIs ==
  ASSUME NoticesTyped, NEW R, R \subseteq notices
  PROVE  /\ InOrder(R) \in Seq(R) /\ Len(InOrder(R)) = Cardinality(R)
         /\ \A i \in 1..Cardinality(R) : InOrder(R)[i] \in R /\ Rank(InOrder(R)[i], R) = i
         /\ \A r \in R : InOrder(R)[Rank(r, R)] = r
<1>. DEFINE n == Cardinality(R)
            f == [r \in R |-> Rank(r, R)]
<1>1. IsFiniteSet(R) /\ n \in Nat
  BY NoticesFinite
<1>2. /\ \A r \in R : Rank(r, R) \in 1..n /\ Rank(r, R) \in Int
      /\ \A r, s \in R : Before(r, s) => Rank(r, R) < Rank(s, R)
  BY <1>1, RankIs
<1>3. \A r, s \in R : Rank(r, R) = Rank(s, R) => r = s
  <2>1. \A r, s \in R : Before(r, s) \/ Before(s, r) \/ r = s
    BY BeforeIs
  <2>. QED BY <1>2, <2>1
<1>4. f \in Injection(R, 1..n)
  BY <1>2, <1>3 DEF Injection, IsInjective
<1>5. IsFiniteSet(1..n) /\ Cardinality(1..n) = n
  BY <1>1, FS_Interval
<1>6. f \in Surjection(R, 1..n)
  <2>. HIDE DEF f
  <2>. QED BY <1>4, <1>5, FS_Injection
<1>7. \A i \in 1..n : \E r \in R : Rank(r, R) = i
  BY <1>6 DEF Surjection
<1>8. \A i \in 1..n : InOrder(R)[i] \in R /\ Rank(InOrder(R)[i], R) = i
  <2>1. ASSUME NEW i \in 1..n
        PROVE  (CHOOSE r \in R : Rank(r, R) = i) \in R /\ Rank(CHOOSE r \in R : Rank(r, R) = i, R) = i
    BY <1>7
  <2>. QED BY <2>1 DEF InOrder
<1>9. \A r \in R : InOrder(R)[Rank(r, R)] = r
  BY <1>2, <1>3, <1>8
<1>10. InOrder(R) \in [1..n -> R]
  <2>1. DOMAIN InOrder(R) = 1..n /\ InOrder(R) = [i \in 1..n |-> InOrder(R)[i]]
    BY DEF InOrder
  <2>. QED BY <1>8, <2>1
<1>11. InOrder(R) \in Seq(R) /\ Len(InOrder(R)) = n
  BY <1>1, <1>10, SeqIs
<1>. QED BY <1>8, <1>9, <1>11

\* An id finds its row.
LEMMA RowOfIs ==
  NoticesTyped =>
    /\ \A r \in notices : RowOf(r.id) = r
    /\ \A i \in Taken : RowOf(i) \in notices /\ RowOf(i).id = i /\ i \in NoticeIds
<1>. SUFFICES ASSUME NoticesTyped PROVE
       /\ \A r \in notices : RowOf(r.id) = r
       /\ \A i \in Taken : RowOf(i) \in notices /\ RowOf(i).id = i /\ i \in NoticeIds
  OBVIOUS
<1>1. ASSUME NEW r \in notices PROVE RowOf(r.id) = r
  <2>1. \A s \in notices : s.id = r.id => s = r
    BY DEF NoticesTyped
  <2>. QED BY <2>1 DEF RowOf
<1>2. \A r \in notices : r.id \in NoticeIds
  BY DEF NoticesTyped
<1>. QED BY <1>1, <1>2 DEF Taken

LEMMA RowOfIsNext ==
  NoticesTyped' =>
    /\ \A r \in notices' : RowOf(r.id)' = r
    /\ \A i \in Taken' : RowOf(i)' \in notices' /\ RowOf(i)'.id = i
<1>1. (NoticesTyped =>
         /\ \A r \in notices : RowOf(r.id) = r
         /\ \A i \in Taken : RowOf(i) \in notices /\ RowOf(i).id = i /\ i \in NoticeIds)'
  BY RowOfIs, PTL
<1>. QED BY <1>1

\* What an answer of the API holds: under cursor c, the rows behind c from the first on, and
\* a next cursor when there are more.
LEMMA ListedIs ==
  ASSUME NoticesTyped, NEW c, c = First \/ c \in Taken
  PROVE  PageOK(c, Listed(c))
<1>. DEFINE R == IF c = First THEN notices ELSE Beyond(c)
            n == Cardinality(R)
            found == InOrder(R)
            more == Len(found) > PageSize
            page == IF more THEN SubSeq(found, 1, PageSize) ELSE found
            m == Len(page)
            p == Listed(c)
<1>1. R \subseteq notices
  BY DEF Beyond
<1>2. n \in Nat /\ PageSize \in Nat \ {0} /\ First \notin Nat
  BY <1>1, NoticesFinite, NotificationAssumption
<1>3. /\ found \in Seq(R) /\ Len(found) = n
      /\ \A i \in 1..n : found[i] \in R /\ Rank(found[i], R) = i
      /\ \A r \in R : found[Rank(r, R)] = r
  BY <1>1, InOrderIs
<1>4. \A r \in R : Rank(r, R) \in 1..n
  BY <1>1, RankIs
<1>5. /\ p.items = [i \in DOMAIN page |-> page[i].id]
      /\ p.next = IF more THEN page[m].id ELSE First
      /\ p.had = IF c = First THEN Taken ELSE {}
  BY DEF Listed
<1>. HIDE DEF R, p, n
<1>6. /\ page \in Seq(R) /\ m = (IF n > PageSize THEN PageSize ELSE n)
      /\ \A i \in 1..m : page[i] = found[i]
  <2>1. CASE more
    <3>1. \A i \in 1..PageSize : found[i] \in R
      BY <1>2, <1>3, <2>1
    <3>. QED BY <1>2, <1>3, <2>1, <3>1, SubSeqProperties
  <2>2. CASE ~more
    BY <1>2, <1>3, <2>2, LenProperties
  <2>. QED BY <2>1, <2>2
<1>7. DOMAIN page = 1..m /\ m \in Nat
  BY <1>6, LenProperties
<1>8. more <=> n > PageSize
  BY <1>3
<1>. HIDE DEF page, found, more, m
<1>9. \A i \in 1..m : page[i] \in R /\ Rank(page[i], R) = i /\ page[i].id \in Taken /\ page[i].id \in Nat
  <2>1. m <= n
    BY <1>2, <1>6
  <2>2. \A i \in 1..m : page[i] \in R /\ Rank(page[i], R) = i
    BY <1>2, <1>3, <1>6, <1>7, <2>1
  <2>. QED BY <1>1, <2>2 DEF Taken, NoticesTyped, NoticeIds
<1>10. p.items \in [1..m -> Taken] /\ \A i \in 1..m : p.items[i] = page[i].id
  BY <1>5, <1>7, <1>9
<1>11. Len(p.items) = m /\ DOMAIN p.items = 1..m
  BY <1>7, <1>10, SeqIs
<1>12. ItemsOf(p) = {page[i].id : i \in 1..m}
  BY <1>10, <1>11 DEF ItemsOf
<1>13. m <= PageSize /\ (more => m = PageSize /\ m \in 1..m)
  BY <1>2, <1>6, <1>7, <1>8
<1>14. p.next = First \/ p.next \in ItemsOf(p)
  BY <1>5, <1>12, <1>13
<1>15. c # First => \A j \in ItemsOf(p) : Before(RowOf(c), RowOf(j))
  <2>1. ASSUME c # First, NEW i \in 1..m PROVE Before(RowOf(c), RowOf(page[i].id))
    <3>1. page[i] \in R /\ R = Beyond(c)
      BY <1>9, <2>1 DEF R
    <3>2. page[i] \in notices /\ Before(RowOf(c), page[i])
      BY <3>1 DEF Beyond
    <3>. QED BY <3>2, RowOfIs
  <2>. QED BY <1>12, <2>1
<1>16. ASSUME NEW r \in R PROVE r.id \in ItemsOf(p) \cup Rest(p)
  <2>1. Rank(r, R) \in 1..n /\ found[Rank(r, R)] = r
    BY <1>3, <1>4
  <2>2. CASE Rank(r, R) <= m
    <3>1. Rank(r, R) \in 1..m /\ page[Rank(r, R)] = r
      BY <1>6, <1>7, <2>1, <2>2
    <3>. QED BY <1>12, <3>1
  <2>3. CASE ~(Rank(r, R) <= m)
    <3>1. more /\ Rank(r, R) > m
      BY <1>2, <1>6, <1>7, <1>8, <2>1, <2>3
    <3>2. page[m] \in R /\ Rank(page[m], R) = m /\ p.next = page[m].id /\ p.next \in Nat
      BY <1>5, <1>9, <1>13, <3>1
    <3>3. ~Before(r, page[m]) /\ r # page[m]
      <4>1. Before(r, page[m]) => Rank(r, R) < m
        BY <1>1, <3>2, RankIs
      <4>. QED BY <1>7, <2>1, <3>1, <3>2, <4>1
    <3>4. Before(page[m], r) /\ r \in notices /\ RowOf(p.next) = page[m]
      BY <1>1, <3>2, <3>3, BeforeIs, RowOfIs
    <3>5. r \in Beyond(p.next) /\ p.next # First
      BY <1>2, <3>2, <3>4 DEF Beyond
    <3>. QED BY <3>5 DEF Rest, IdsOf
  <2>. QED BY <2>2, <2>3
<1>17. Fills(c, p)
  <2>1. (IF c = First THEN p.had ELSE IdsOf(Beyond(c))) = IdsOf(R)
    BY <1>5 DEF R, IdsOf, Taken
  <2>. QED BY <1>16, <2>1 DEF Fills, IdsOf
<1>18. ItemsOf(p) \subseteq Taken /\ p.had \subseteq Taken
  BY <1>5, <1>9, <1>12
<1>. QED BY <1>11, <1>13, <1>14, <1>15, <1>17, <1>18 DEF PageOK, p

\* The rows there were stay where they were; without disorder none comes behind another.
RowsGo ==
  /\ \A i \in Taken : i \in Taken' /\ RowOf(i)'.at = RowOf(i).at
  /\ ~disorder' => ~disorder /\ \A i \in Taken : IdsOf(Beyond(i))' = IdsOf(Beyond(i))

LEMMA BeforeKeeps ==
  ASSUME NoticesTyped, NoticesTyped', RowsGo
  PROVE  \A i, j \in Taken : Before(RowOf(i), RowOf(j)) => Before(RowOf(i), RowOf(j))'
<1>1. \A i \in Taken : RowOf(i).id = i
  BY RowOfIs
<1>2. /\ \A r \in notices' : RowOf(r.id)' = r
      /\ \A i \in Taken' : RowOf(i)' \in notices' /\ RowOf(i)'.id = i
  BY RowOfIsNext
<1>3. \A i \in Taken : RowOf(i)'.id = i /\ RowOf(i)'.at = RowOf(i).at
  BY <1>2 DEF RowsGo
<1>. QED BY <1>1, <1>3 DEF Before

\* So an answer stays as good as it was.
LEMMA PageKeeps ==
  ASSUME NoticesTyped, NoticesTyped', RowsGo, NEW c, NEW p, PageOK(c, p)
  PROVE  PageOK(c, p)' /\ (~disorder' => Rest(p)' = Rest(p))
<1>1. ItemsOf(p)' = ItemsOf(p) /\ ItemsOf(p) \subseteq Taken /\ p.had \subseteq Taken
      /\ (c = First \/ c \in Taken) /\ (p.next = First \/ p.next \in Taken)
  BY DEF PageOK, ItemsOf
<1>2. Taken \subseteq Taken'
  BY DEF RowsGo
<1>3. c # First => \A j \in ItemsOf(p) : Before(RowOf(c), RowOf(j))'
  BY <1>1, BeforeKeeps DEF PageOK
<1>4. ~disorder' => Rest(p)' = Rest(p)
  BY <1>1 DEF Rest, RowsGo
<1>5. ~disorder' => Fills(c, p)'
  BY <1>1, <1>4 DEF RowsGo, PageOK, Fills
<1>. QED BY <1>1, <1>2, <1>3, <1>4, <1>5 DEF PageOK

\* A page shows at the end of a way to it.
LEMMA ScreenGoes ==
  ASSUME NoticesTyped, NoticesTyped', RowsGo, PagesHold, NEW q, NEW p, WayOK(q), PageOK(q[Len(q)], p),
         Shows(q, p), outdated' \subseteq DOMAIN pages \cup {q[Len(q)]}
  PROVE  PagesHold' /\ TrailHolds'
<1>. DEFINE L == Len(q)
            c == q[L]
<1>1. L \in Nat /\ L >= 1 /\ c \in Cursors /\ q[1] = First
  <2>1. q \in Seq(Cursors) /\ L >= 1 /\ q[1] = First
    BY DEF WayOK
  <2>2. L \in Nat
    BY <2>1, LenProperties
  <2>. QED BY <2>1, <2>2, ElementOfSeq
<1>2. /\ trail' = q /\ DOMAIN pages' = DOMAIN pages \cup {c}
      /\ \A d \in DOMAIN pages' : pages'[d] = IF d = c THEN p ELSE pages[d]
  BY DEF Shows
<1>. HIDE DEF L
<1>3. \A i \in 2..L : q[i] \in Taken /\ q[i] # First
  <2>1. \A i \in 2..L : q[i] \in Taken
    BY DEF WayOK, L
  <2>2. \A i \in Taken : i \in Nat
    BY NotificationAssumption, RowOfIs DEF NoticeIds
  <2>. QED BY <2>1, <2>2, NotificationAssumption
<1>4. \A i \in 1..(L - 1) : q[i] \in DOMAIN pages /\ q[i + 1] = pages[q[i]].next /\ q[i] # c
  <2>1. ASSUME NEW i \in 1..(L - 1) PROVE q[i] # c
    <3>1. L \in 2..L /\ c \in Taken /\ c # First
      BY <1>1, <1>3
    <3>2. CASE i = 1
      BY <1>1, <3>1, <3>2
    <3>3. CASE i # 1
      <4>1. i \in 2..L /\ i < L
        BY <1>1, <3>3
      <4>2. Before(RowOf(q[i]), RowOf(c))
        BY <3>1, <4>1 DEF WayOK, L
      <4>3. ~Before(RowOf(c), RowOf(c))
        BY <3>1, RowOfIs, BeforeIs
      <4>. QED BY <4>2, <4>3
    <3>. QED BY <3>2, <3>3
  <2>2. \A i \in 1..(L - 1) : q[i] \in DOMAIN pages /\ q[i + 1] = pages[q[i]].next
    BY DEF WayOK, L
  <2>. QED BY <2>1, <2>2
<1>5. \A i \in 1..(L - 1) : q[i] \in DOMAIN pages' /\ pages'[q[i]] = pages[q[i]]
  BY <1>2, <1>4
<1>6. c \in DOMAIN pages' /\ pages'[c] = p
  BY <1>2
<1>7. ASSUME NEW d \in DOMAIN pages'
      PROVE  PageOK(d, pages[d])' /\ (~disorder' => Rest(pages[d])' = Rest(pages'[d]))
  <2>1. PICK x : x = pages'[d]
    OBVIOUS
  <2>2. PageOK(d, x)
    BY <1>2, <1>7, <2>1 DEF PagesHold, L
  <2>3. PageOK(d, x)' /\ (~disorder' => Rest(x)' = Rest(x))
    BY <2>2, PageKeeps
  <2>. QED BY <2>1, <2>3
<1>8. PagesHold'
  <2>1. pages' = [d \in DOMAIN pages' |-> pages'[d]]
    BY DEF Shows
  <2>. QED BY <1>2, <1>7, <2>1 DEF PagesHold, L
<1>9. \A i \in 2..L : q[i] \in Taken'
  BY <1>3 DEF RowsGo
<1>10. \A i, j \in 2..L : i < j => Before(RowOf(q[i]), RowOf(q[j]))'
  BY <1>3, BeforeKeeps DEF WayOK, L
<1>11. ASSUME ~disorder', NEW i \in 1..L PROVE Covered(q, i)'
  <2>1. ~disorder
    BY <1>11 DEF RowsGo
  <2>2. \A j \in 1..L : q[j] \in DOMAIN pages'
    BY <1>1, <1>5, <1>6
  <2>3. \A j \in 1..L : Rest(pages[q[j]])' = Rest(pages'[q[j]])
    BY <1>7, <1>11, <2>2
  <2>4. CASE i # L
    <3>1. i \in 1..(L - 1) /\ 1 \in 1..(L - 1) /\ \A j \in 1..i : j \in 1..(L - 1)
      BY <1>1, <2>4
    <3>2. pages'[First] = pages[First] /\ \A j \in 1..i : pages'[q[j]] = pages[q[j]]
      BY <1>1, <1>5, <3>1
    <3>3. Covered(q, i)
      BY <2>1, <3>1 DEF WayOK, L
    <3>4. Rest(pages[q[i]])' = Rest(pages[q[i]])
      BY <1>5, <2>3, <3>1
    <3>5. ASSUME NEW x \in pages'[First].had
          PROVE  (\E j \in 1..i : x \in ItemsOf(pages'[q[j]])) \/ x \in Rest(pages[q[i]])'
      BY <3>2, <3>3, <3>4, <3>5 DEF Covered
    <3>. QED BY <3>5 DEF Covered, ItemsOf
  <2>5. CASE i = L
    <3>1. ASSUME NEW x \in pages'[First].had
          PROVE  (\E j \in 1..i : x \in ItemsOf(pages'[q[j]])) \/ x \in Rest(p)
      <4>1. CASE L = 1
        <5>1. c = First /\ x \in p.had
          BY <1>1, <1>6, <3>1, <4>1
        <5>2. x \in ItemsOf(p) \cup Rest(p)
          BY <2>1, <5>1 DEF PageOK, Fills, L
        <5>. QED BY <1>1, <1>6, <2>5, <5>2
      <4>2. CASE L # 1
        <5>1. L - 1 \in 1..(L - 1) /\ 1 \in 1..(L - 1) /\ L \in 2..L
          BY <1>1, <4>2
        <5>2. pages'[First] = pages[First]
          BY <1>1, <1>5, <5>1
        <5>3. Covered(q, L - 1)
          BY <2>1, <5>1 DEF WayOK, L
        <5>4. (\E j \in 1..(L - 1) : x \in ItemsOf(pages[q[j]])) \/ x \in Rest(pages[q[L - 1]])
          BY <3>1, <5>2, <5>3 DEF Covered
        <5>5. CASE \E j \in 1..(L - 1) : x \in ItemsOf(pages[q[j]])
          <6>1. PICK j \in 1..(L - 1) : x \in ItemsOf(pages[q[j]])
            BY <5>5
          <6>2. j \in 1..i /\ pages'[q[j]] = pages[q[j]]
            BY <1>1, <1>5, <2>5
          <6>. QED BY <6>1, <6>2
        <5>6. CASE x \in Rest(pages[q[L - 1]])
          <6>1. pages[q[L - 1]].next = c
            BY <1>1, <1>4, <5>1
          <6>2. c # First /\ x \in IdsOf(Beyond(c))
            BY <1>3, <5>1, <5>6, <6>1 DEF Rest
          <6>3. x \in ItemsOf(p) \cup Rest(p)
            BY <2>1, <6>2 DEF PageOK, Fills, L
          <6>. QED BY <1>1, <1>6, <2>5, <6>3
        <5>. QED BY <5>4, <5>5, <5>6
      <4>. QED BY <4>1, <4>2
    <3>2. Rest(pages[q[i]])' = Rest(p)
      BY <1>1, <1>6, <2>3, <2>5
    <3>. QED BY <3>1, <3>2 DEF Covered, ItemsOf
  <2>. QED BY <2>4, <2>5
<1>12. WayOK(q)'
  <2>1. q \in Seq(Cursors) /\ L >= 1 /\ q[1] = First
    BY <1>1 DEF WayOK
  <2>2. \A i \in 1..(L - 1) : q[i] \in DOMAIN pages' /\ q[i + 1] = pages'[q[i]].next
    BY <1>4, <1>5
  <2>3. \A i \in 1..(L - 1) : i \in 1..L
    BY <1>1
  <2>. QED BY <1>9, <1>10, <1>11, <2>1, <2>2, <2>3 DEF WayOK, L
<1>13. ~disorder' => Covered(q, L)'
  BY <1>1, <1>11
<1>14. TrailHolds'
  BY <1>2, <1>6, <1>12, <1>13 DEF TrailHolds, Here, L
<1>. QED BY <1>8, <1>14

\* The screen stays as it is.
LEMMA ScreenStays ==
  ASSUME NoticesTyped, NoticesTyped', RowsGo, PagesHold, TrailHolds, UNCHANGED screenVars
  PROVE  PagesHold' /\ TrailHolds'
<1>1. UNCHANGED <<trail, pages, outdated>>
  BY DEF screenVars
<1>2. CASE trail = Away
  <2>1. ASSUME NEW d \in DOMAIN pages PROVE PageOK(d, pages[d])'
    <3>1. PICK x : x = pages[d]
      OBVIOUS
    <3>2. PageOK(d, x)'
      BY <2>1, <3>1, PageKeeps DEF PagesHold
    <3>. QED BY <1>1, <3>1, <3>2
  <2>. QED BY <1>1, <1>2, <2>1 DEF PagesHold, TrailHolds
<1>3. CASE trail # Away
  <2>1. PICK q : q = trail
    OBVIOUS
  <2>2. WayOK(q) /\ q[Len(q)] \in DOMAIN pages
    BY <1>3, <2>1 DEF TrailHolds, Here
  <2>3. PICK p : p = pages[q[Len(q)]]
    OBVIOUS
  <2>4. PageOK(q[Len(q)], p) /\ outdated \subseteq DOMAIN pages
    BY <2>2, <2>3 DEF PagesHold
  <2>5. Shows(q, p)
    BY <1>1, <2>1, <2>2, <2>3 DEF PagesHold, Shows
  <2>. QED BY <1>1, <2>2, <2>4, <2>5, ScreenGoes
<1>. QED BY <1>2, <1>3

\* The same rows, but for what has been read.
LEMMA SameRows ==
  ASSUME NoticesTyped, NoticesTyped', UNCHANGED disorder,
         \A r \in notices : \E s \in notices' : s.id = r.id /\ s.at = r.at,
         \A s \in notices' : \E r \in notices : s.id = r.id /\ s.at = r.at
  PROVE  RowsGo
<1>1. /\ \A r \in notices : RowOf(r.id) = r
      /\ \A i \in Taken : RowOf(i) \in notices /\ RowOf(i).id = i
  BY RowOfIs
<1>2. /\ \A r \in notices' : RowOf(r.id)' = r
      /\ \A i \in Taken' : RowOf(i)' \in notices' /\ RowOf(i)'.id = i
  BY RowOfIsNext
<1>3. \A s \in notices' : RowOf(s.id)' = s
  BY <1>2
<1>4. ASSUME NEW i \in Taken
      PROVE  /\ i \in Taken' /\ RowOf(i)'.at = RowOf(i).at /\ RowOf(i)'.id = RowOf(i).id
             /\ IdsOf(Beyond(i))' = IdsOf(Beyond(i))
  <2>1. PICK s \in notices' : s.id = i /\ s.at = RowOf(i).at
    BY <1>1
  <2>2. RowOf(i)' = s /\ i \in Taken'
    BY <1>3, <2>1 DEF Taken
  <2>3. RowOf(i).id = i
    BY <1>1
  <2>4. \A r, t : r.id = t.id /\ r.at = t.at => (Before(RowOf(i), r) <=> Before(s, t))
    BY <2>1, <2>3 DEF Before
  <2>5. \A r \in notices : Before(RowOf(i), r) => \E t \in notices' : t.id = r.id /\ Before(s, t)
    BY <2>4
  <2>6. \A t \in notices' : Before(s, t) => \E r \in notices : t.id = r.id /\ Before(RowOf(i), r)
    BY <2>4
  <2>7. Beyond(i)' = {t \in notices' : Before(s, t)}
    BY <2>2 DEF Beyond, Before
  <2>8. IdsOf(Beyond(i))' = IdsOf(Beyond(i))
    BY <2>5, <2>6, <2>7 DEF IdsOf, Beyond
  <2>. QED BY <2>1, <2>2, <2>3, <2>8
<1>. QED BY <1>4 DEF RowsGo

\* Nothing happens to the rows.
LEMMA NoRows ==
  ASSUME NoticesTyped, OneNoticeEach, UNCHANGED <<notices, disorder>>, NoticesTyped'
  PROVE  OneNoticeEach' /\ RowsGo
<1>1. OneNoticeEach'
  BY DEF OneNoticeEach
<1>2. RowsGo
  BY SameRows
<1>. QED BY <1>1, <1>2

\* A call notifies; the clock goes on.
LEMMA NotifySteps ==
  ASSUME NoticeInv, Tick \/ \E w \in Writers, e \in Occasions : Notify(w, e)
  PROVE  NoticeInv'
<1>. USE DEF NoticeInv
<1>1. UNCHANGED <<notices, disorder, marks, missed, screenVars>>
  BY DEF Tick, Notify
<1>2. now' \in 0..MaxTime
  BY NotificationAssumption DEF Tick, Notify, NoticesTyped
<1>3. writer' \in [Writers -> [event : Occasions, at : 0..MaxTime] \cup {Resting}]
  BY DEF Tick, Notify, NoticesTyped
<1>4. NoticesTyped'
  BY <1>1, <1>2, <1>3 DEF NoticesTyped
<1>5. OneNoticeEach' /\ RowsGo
  BY <1>1, <1>4, NoRows
<1>6. PagesHold' /\ TrailHolds'
  BY <1>1, <1>4, <1>5, ScreenStays
<1>. QED BY <1>4, <1>5, <1>6

\* A row is inserted, unless its event has one.
LEMMA InsertStep == ASSUME NoticeInv, NEW w \in Writers, Insert(w) PROVE NoticeInv'
<1>. USE DEF NoticeInv
<1>. DEFINE e == writer[w].event
<1>1. /\ writer[w] \in [event : Occasions, at : 0..MaxTime] /\ UNCHANGED <<now, marks, screenVars>>
      /\ writer' = [writer EXCEPT ![w] = Resting]
  BY DEF Insert, NoticesTyped
<1>2. writer' \in [Writers -> [event : Occasions, at : 0..MaxTime] \cup {Resting}]
  BY <1>1 DEF NoticesTyped
<1>3. CASE Exists(e)
  <2>1. UNCHANGED <<notices, disorder>> /\ missed' \in BOOLEAN
    BY <1>3 DEF Insert, NoticesTyped
  <2>2. NoticesTyped'
    BY <1>1, <1>2, <2>1 DEF NoticesTyped
  <2>3. OneNoticeEach' /\ RowsGo
    BY <2>1, <2>2, NoRows
  <2>4. PagesHold' /\ TrailHolds'
    BY <1>1, <2>2, <2>3, ScreenStays
  <2>. QED BY <2>2, <2>3, <2>4
<1>4. CASE ~Exists(e)
  <2>1. PICK i \in NoticeIds \ Taken :
          LET row == [id |-> i, event |-> e, at |-> writer[w].at, read |-> FALSE] IN
          /\ notices' = notices \cup {row}
          /\ disorder' = (disorder \/ \E r \in notices : Before(r, row))
          /\ UNCHANGED missed
    BY <1>4 DEF Insert
  <2>. DEFINE row == [id |-> i, event |-> e, at |-> writer[w].at, read |-> FALSE]
  <2>2. /\ row \in [id : NoticeIds, event : Occasions, at : 0..MaxTime, read : BOOLEAN]
        /\ row.id = i /\ row.event = e
    BY <1>1
  <2>3. /\ notices' = notices \cup {row} /\ missed' = missed
        /\ disorder' = (disorder \/ \E r \in notices : Before(r, row))
    BY <2>1
  <2>. HIDE DEF row
  <2>4. \A r \in notices : r.id # row.id /\ r.event # row.event
    BY <1>4, <2>2 DEF Taken, Exists
  <2>5. NoticesTyped'
    <3>1. \A r, s \in notices' : r.id = s.id => r = s
      BY <2>3, <2>4 DEF NoticesTyped
    <3>2. disorder' \in BOOLEAN /\ missed' \in BOOLEAN
      BY <2>3 DEF NoticesTyped
    <3>. QED BY <1>1, <1>2, <2>2, <2>3, <3>1, <3>2 DEF NoticesTyped
  <2>6. OneNoticeEach'
    BY <2>3, <2>4 DEF OneNoticeEach
  <2>7. \A j \in Taken : RowOf(j) \in notices /\ RowOf(j).id = j
    BY RowOfIs
  <2>8. \A r \in notices' : RowOf(r.id)' = r
    BY <2>5, RowOfIsNext
  <2>9. \A j \in Taken : j \in Taken' /\ RowOf(j)' = RowOf(j)
    <3>1. \A j \in Taken : RowOf(j) \in notices' /\ RowOf(j).id = j
      BY <2>3, <2>7
    <3>. QED BY <2>3, <2>5, <2>8, <3>1 DEF Taken
  <2>10. ASSUME ~disorder', NEW j \in Taken PROVE IdsOf(Beyond(j))' = IdsOf(Beyond(j))
    <3>1. ~Before(RowOf(j), row)
      BY <2>3, <2>7, <2>10
    <3>2. Beyond(j)' = {r \in notices' : Before(RowOf(j), r)}
      BY <2>9 DEF Beyond, Before
    <3>3. Beyond(j)' = Beyond(j)
      BY <2>3, <3>1, <3>2 DEF Beyond
    <3>. QED BY <3>3 DEF IdsOf
  <2>11. RowsGo
    BY <2>3, <2>9, <2>10 DEF RowsGo
  <2>12. PagesHold' /\ TrailHolds'
    BY <1>1, <2>5, <2>11, ScreenStays
  <2>. QED BY <2>5, <2>6, <2>12
<1>. QED BY <1>3, <1>4

\* The centre is left, or opened, and a page turned: a page from the cache or read again is as
\* good as the way to it.
LEMMA Answered ==
  ASSUME NoticesTyped, PagesHold, NEW c, c = First \/ c \in Taken, NEW p \in Answers(c)
  PROVE  PageOK(c, p)
BY ListedIs DEF Answers, PagesHold

LEMMA SomePage ==
  ASSUME NoticeInv, NEW q, WayOK(q), \E p \in Answers(q[Len(q)]) : Shows(q, p),
         q[Len(q)] = First \/ q[Len(q)] \in Taken, UNCHANGED noticeVars,
         outdated' = outdated \ {q[Len(q)]}
  PROVE  NoticeInv'
<1>. USE DEF NoticeInv
<1>1. NoticesTyped'
  BY DEF NoticesTyped, noticeVars
<1>2. UNCHANGED <<notices, disorder>>
  BY DEF noticeVars
<1>3. OneNoticeEach' /\ RowsGo
  BY <1>1, <1>2, NoRows
<1>4. PICK p \in Answers(q[Len(q)]) : Shows(q, p)
  OBVIOUS
<1>5. PageOK(q[Len(q)], p)
  BY Answered
<1>6. outdated' \subseteq DOMAIN pages \cup {q[Len(q)]}
  BY DEF PagesHold
<1>7. PagesHold' /\ TrailHolds'
  BY <1>1, <1>3, <1>4, <1>5, <1>6, ScreenGoes
<1>. QED BY <1>1, <1>3, <1>7

\* The ways a page is turned to.
LEMMA WayIs ==
  ASSUME NoticeInv, trail # Away
  PROVE  /\ trail \in Seq(Cursors) /\ Len(trail) \in Nat /\ Len(trail) >= 1 /\ trail[1] = First
         /\ \A i \in 2..Len(trail) : trail[i] \in Taken
         /\ \A i \in 1..Len(trail) : trail[i] = First \/ trail[i] \in Taken
         /\ Here \in DOMAIN pages /\ PageOK(Here, pages[Here])
<1>1. WayOK(trail) /\ Here \in DOMAIN pages
  BY DEF NoticeInv, TrailHolds
<1>2. trail \in Seq(Cursors) /\ Len(trail) >= 1 /\ trail[1] = First
      /\ \A i \in 2..Len(trail) : trail[i] \in Taken
  BY <1>1 DEF WayOK
<1>3. Len(trail) \in Nat
  BY <1>2, LenProperties
<1>4. PageOK(Here, pages[Here])
  BY <1>1 DEF NoticeInv, PagesHold
<1>5. \A i \in 1..Len(trail) : trail[i] = First \/ trail[i] \in Taken
  <2>1. \A i \in 1..Len(trail) : i = 1 \/ i \in 2..Len(trail)
    BY <1>3
  <2>. QED BY <1>2, <2>1
<1>. QED BY <1>1, <1>2, <1>3, <1>4, <1>5

LEMMA OpenStep == ASSUME NoticeInv, OpenCentre PROVE NoticeInv'
<1>1. << First >> \in Seq(Cursors) /\ Len(<< First >>) = 1 /\ << First >>[1] = First
  BY DEF Cursors
<1>2. PICK q \in Seq(Cursors) : q = << First >>
  BY <1>1
<1>3. Len(q) = 1 /\ q[1] = First /\ q[Len(q)] = First
  BY <1>1, <1>2
<1>4. WayOK(q)
  BY <1>3 DEF WayOK
<1>5. /\ \E p \in Answers(q[Len(q)]) : Shows(q, p)
      /\ outdated' = outdated \ {q[Len(q)]} /\ UNCHANGED noticeVars
  BY <1>2, <1>3 DEF OpenCentre
<1>. QED BY <1>3, <1>4, <1>5, SomePage

LEMMA LeaveStep == ASSUME NoticeInv, LeaveCentre PROVE NoticeInv'
<1>. USE DEF NoticeInv
<1>1. UNCHANGED <<notices, disorder>> /\ NoticesTyped' /\ trail' = Away /\ UNCHANGED <<pages, outdated>>
  BY DEF LeaveCentre, noticeVars, NoticesTyped
<1>2. OneNoticeEach' /\ RowsGo
  BY <1>1, NoRows
<1>3. ASSUME NEW d \in DOMAIN pages PROVE PageOK(d, pages[d])'
  <2>1. PICK x : x = pages[d]
    OBVIOUS
  <2>2. PageOK(d, x)'
    BY <1>1, <1>2, <1>3, <2>1, PageKeeps DEF PagesHold
  <2>. QED BY <1>1, <2>1, <2>2
<1>4. PagesHold' /\ TrailHolds'
  BY <1>1, <1>3 DEF PagesHold, TrailHolds
<1>. QED BY <1>1, <1>2, <1>4

LEMMA NextStep == ASSUME NoticeInv, NextPage PROVE NoticeInv'
<1>. DEFINE L == Len(trail)
            c == pages[Here].next
<1>1. /\ trail # Away /\ c # First /\ \E p \in Answers(c) : Shows(Append(trail, c), p)
      /\ outdated' = outdated \ {c} /\ UNCHANGED noticeVars
  BY DEF NextPage
<1>2. /\ trail \in Seq(Cursors) /\ L \in Nat /\ L >= 1 /\ trail[1] = First
      /\ \A i \in 2..L : trail[i] \in Taken
      /\ Here \in DOMAIN pages /\ PageOK(Here, pages[Here])
  BY <1>1, WayIs
<1>3. c \in ItemsOf(pages[Here]) /\ c \in Taken /\ c \in Cursors
  <2>1. c \in ItemsOf(pages[Here]) /\ c \in Taken
    BY <1>1, <1>2 DEF PageOK
  <2>. QED BY <2>1, RowOfIs DEF Cursors, NoticeInv
<1>4. PICK q \in Seq(Cursors) : q = Append(trail, c)
  BY <1>2, <1>3, AppendProperties
<1>5. /\ Len(q) = L + 1 /\ q[L + 1] = c /\ q[Len(q)] = c
      /\ \A i \in 1..L : q[i] = trail[i]
  BY <1>2, <1>3, <1>4, AppendProperties
<1>6. /\ WayOK(trail) /\ trail[L] = Here
      /\ ~disorder => Covered(trail, L)
  BY <1>1 DEF NoticeInv, TrailHolds, Here
<1>. HIDE DEF L, c
<1>7. \A i \in 1..L : q[i] \in DOMAIN pages /\ q[i + 1] = pages[q[i]].next
  <2>1. ASSUME NEW i \in 1..L PROVE q[i] \in DOMAIN pages /\ q[i + 1] = pages[q[i]].next
    <3>1. CASE i = L
      BY <1>2, <1>5, <1>6, <3>1 DEF c
    <3>2. CASE i # L
      <4>1. i \in 1..(L - 1) /\ i + 1 \in 1..L
        BY <1>2, <3>2
      <4>2. trail[i] \in DOMAIN pages /\ trail[i + 1] = pages[trail[i]].next
        BY <1>6, <4>1 DEF WayOK, L
      <4>. QED BY <1>5, <4>1, <4>2
    <3>. QED BY <3>1, <3>2
  <2>. QED BY <2>1
<1>8. \A i \in 2..(L + 1) : q[i] \in Taken
  <2>1. \A i \in 2..(L + 1) : i = L + 1 \/ (i \in 2..L /\ i \in 1..L)
    BY <1>2
  <2>. QED BY <1>2, <1>3, <1>5, <2>1
<1>9. ASSUME NEW i \in 2..(L + 1), NEW j \in 2..(L + 1), i < j PROVE Before(RowOf(q[i]), RowOf(q[j]))
  <2>1. i \in 2..L /\ i \in 1..L
    BY <1>2, <1>9
  <2>2. CASE j # L + 1
    <3>1. j \in 2..L /\ j \in 1..L
      BY <1>2, <2>2
    <3>. QED BY <1>5, <1>6, <1>9, <2>1, <3>1 DEF WayOK, L
  <2>3. CASE j = L + 1
    <3>1. Here \in Taken /\ Here # First
      <4>1. L \in 2..L
        BY <1>2, <2>1
      <4>2. Here \in Taken
        BY <1>2, <1>6, <4>1
      <4>3. Here \in Nat
        BY <4>2, RowOfIs, NotificationAssumption DEF NoticeInv, NoticeIds
      <4>. QED BY <4>2, <4>3, NotificationAssumption
    <3>2. Before(RowOf(Here), RowOf(c))
      BY <1>2, <1>3, <3>1 DEF PageOK
    <3>3. CASE i = L
      BY <1>5, <1>6, <2>1, <2>3, <3>2, <3>3
    <3>4. CASE i # L
      <4>1. i < L /\ L \in 2..L
        BY <1>2, <2>1, <3>4
      <4>2. Before(RowOf(trail[i]), RowOf(Here))
        BY <1>6, <2>1, <4>1 DEF WayOK, L
      <4>3. RowOf(trail[i]) \in notices /\ RowOf(Here) \in notices /\ RowOf(c) \in notices
        BY <1>2, <1>3, <2>1, <3>1, RowOfIs DEF NoticeInv
      <4>4. Before(RowOf(trail[i]), RowOf(c))
        BY <3>2, <4>2, <4>3, BeforeIs DEF NoticeInv
      <4>. QED BY <1>5, <2>1, <2>3, <4>4
    <3>. QED BY <3>3, <3>4
  <2>. QED BY <2>2, <2>3
<1>10. ASSUME ~disorder, NEW i \in 1..L PROVE Covered(q, i)
  <2>1. Covered(trail, i)
    <3>1. i = L \/ i \in 1..(L - 1)
      BY <1>2
    <3>. QED BY <1>6, <1>10, <3>1 DEF WayOK, L
  <2>2. \A j \in 1..i : q[j] = trail[j]
    BY <1>2, <1>5
  <2>3. q[i] = trail[i]
    BY <1>5
  <2>. QED BY <2>1, <2>2, <2>3 DEF Covered
<1>11. WayOK(q)
  <2>1. Len(q) >= 1 /\ q[1] = First /\ Len(q) - 1 = L
    BY <1>2, <1>5
  <2>. QED BY <1>5, <1>7, <1>8, <1>9, <1>10, <2>1 DEF WayOK
<1>. QED BY <1>1, <1>3, <1>4, <1>5, <1>11, SomePage

LEMMA PreviousStep == ASSUME NoticeInv, PreviousPage PROVE NoticeInv'
<1>. DEFINE L == Len(trail)
<1>1. /\ trail # Away /\ L > 1
      /\ LET path == SubSeq(trail, 1, L - 1) c == path[Len(path)] IN
         /\ \E p \in Answers(c) : Shows(path, p)
         /\ outdated' = outdated \ {c}
      /\ UNCHANGED noticeVars
  BY DEF PreviousPage
<1>2. /\ trail \in Seq(Cursors) /\ L \in Nat /\ trail[1] = First
      /\ \A i \in 1..L : trail[i] = First \/ trail[i] \in Taken
  BY <1>1, WayIs
<1>3. \A i \in 1..(L - 1) : trail[i] \in Cursors
  BY <1>2, ElementOfSeq
<1>4. PICK q \in Seq(Cursors) : /\ q = SubSeq(trail, 1, L - 1) /\ Len(q) = L - 1
                               /\ \A i \in 1..(L - 1) : q[i] = trail[i]
  <2>1. PICK k \in Int : k = L - 1 /\ k >= 1
    BY <1>1, <1>2
  <2>2. \A i \in 1..k : trail[i] \in Cursors
    BY <1>3, <2>1
  <2>3. 1 \in Int /\ k - 1 + 1 = k /\ \A i \in 1..k : 1 + i - 1 = i
    OBVIOUS
  <2>4. /\ SubSeq(trail, 1, k) \in Seq(Cursors)
        /\ Len(SubSeq(trail, 1, k)) = IF 1 <= k THEN k - 1 + 1 ELSE 0
        /\ \A i \in 1..(k - 1 + 1) : SubSeq(trail, 1, k)[i] = trail[1 + i - 1]
    BY <2>2, <2>3, SubSeqProperties
  <2>. QED BY <2>1, <2>3, <2>4
<1>5. Len(q) = L - 1 /\ \A i \in 1..(L - 1) : q[i] = trail[i]
  BY <1>4
<1>6. WayOK(trail)
  BY <1>1 DEF NoticeInv, TrailHolds
<1>. HIDE DEF L
<1>7. \A i \in 2..(L - 1) : i \in 2..L /\ i \in 1..(L - 1)
  BY <1>2
<1>8. \A i \in 1..(L - 2) : i \in 1..(L - 1) /\ i + 1 \in 1..(L - 1)
  BY <1>2
<1>9. \A i \in 2..(L - 1) : q[i] \in Taken
  BY <1>5, <1>6, <1>7 DEF WayOK, L
<1>10. \A i \in 1..(L - 2) : q[i] \in DOMAIN pages /\ q[i + 1] = pages[q[i]].next
  BY <1>5, <1>6, <1>8 DEF WayOK, L
<1>11. \A i, j \in 2..(L - 1) : i < j => Before(RowOf(q[i]), RowOf(q[j]))
  BY <1>5, <1>6, <1>7 DEF WayOK, L
<1>12. ASSUME ~disorder, NEW i \in 1..(L - 2) PROVE Covered(q, i)
  <2>1. Covered(trail, i)
    BY <1>6, <1>8, <1>12 DEF WayOK, L
  <2>2. \A j \in 1..i : q[j] = trail[j]
    BY <1>2, <1>5
  <2>3. q[i] = trail[i]
    BY <1>5, <1>8
  <2>. QED BY <2>1, <2>2, <2>3 DEF Covered
<1>13. WayOK(q)
  <2>1. Len(q) >= 1 /\ q[1] = First /\ Len(q) - 1 = L - 2
    BY <1>1, <1>2, <1>5
  <2>. QED BY <1>5, <1>9, <1>10, <1>11, <1>12, <2>1 DEF WayOK
<1>14. q[Len(q)] = First \/ q[Len(q)] \in Taken
  BY <1>1, <1>2, <1>5
<1>15. /\ \E p \in Answers(q[Len(q)]) : Shows(q, p)
       /\ outdated' = outdated \ {q[Len(q)]}
  BY <1>1, <1>4 DEF L
<1>. QED BY <1>1, <1>13, <1>14, <1>15, SomePage

\* Rows are marked as read: the page on screen is read again.
LEMMA MarkStep == ASSUME NoticeInv, NEW I, MarkRead(I) PROVE NoticeInv'
<1>. USE DEF NoticeInv
<1>1. /\ marks < MaxMarks /\ trail # Away /\ marks' = marks + 1
      /\ notices' = {[r EXCEPT !.read = @ \/ r.id \in I] : r \in notices}
      /\ Shows(trail, Listed(Here)) /\ outdated' = DOMAIN pages \ {Here}
      /\ UNCHANGED <<now, writer, disorder, missed>>
  BY DEF MarkRead
<1>2. \A r \in [id : NoticeIds, event : Occasions, at : 0..MaxTime, read : BOOLEAN] :
        LET s == [r EXCEPT !.read = @ \/ r.id \in I] IN
        /\ s \in [id : NoticeIds, event : Occasions, at : 0..MaxTime, read : BOOLEAN]
        /\ s.id = r.id /\ s.event = r.event /\ s.at = r.at
  OBVIOUS
<1>3. \A r \in notices : LET s == [r EXCEPT !.read = @ \/ r.id \in I] IN
        /\ s \in [id : NoticeIds, event : Occasions, at : 0..MaxTime, read : BOOLEAN]
        /\ s.id = r.id /\ s.event = r.event /\ s.at = r.at
  BY <1>2 DEF NoticesTyped
<1>4. \A r \in notices : \E s \in notices' : s.id = r.id /\ s.at = r.at
  <2>1. ASSUME NEW r \in notices PROVE \E s \in notices' : s.id = r.id /\ s.at = r.at
    <3>1. PICK s : s = [r EXCEPT !.read = @ \/ r.id \in I]
      OBVIOUS
    <3>2. s \in notices'
      BY <1>1, <3>1
    <3>3. s.id = r.id /\ s.at = r.at
      BY <1>3, <3>1
    <3>. QED BY <3>2, <3>3
  <2>. QED BY <2>1
<1>5. \A s \in notices' : \E r \in notices :
        /\ s = [r EXCEPT !.read = @ \/ r.id \in I]
        /\ s.id = r.id /\ s.event = r.event /\ s.at = r.at
        /\ s \in [id : NoticeIds, event : Occasions, at : 0..MaxTime, read : BOOLEAN]
  <2>1. ASSUME NEW s \in notices'
        PROVE  \E r \in notices :
                 /\ s = [r EXCEPT !.read = @ \/ r.id \in I]
                 /\ s.id = r.id /\ s.event = r.event /\ s.at = r.at
                 /\ s \in [id : NoticeIds, event : Occasions, at : 0..MaxTime, read : BOOLEAN]
    <3>1. PICK r \in notices : s = [r EXCEPT !.read = @ \/ r.id \in I]
      BY <1>1, <2>1
    <3>2. /\ s.id = r.id /\ s.event = r.event /\ s.at = r.at
          /\ s \in [id : NoticeIds, event : Occasions, at : 0..MaxTime, read : BOOLEAN]
      BY <1>3, <3>1
    <3>. QED BY <3>1, <3>2
  <2>. QED BY <2>1
<1>6. \A s, t \in notices' : s.id = t.id \/ s.event = t.event => s = t
  BY <1>5 DEF NoticesTyped, OneNoticeEach
<1>7. NoticesTyped' /\ OneNoticeEach'
  <2>1. marks' \in 0..MaxMarks
    BY <1>1, NotificationAssumption DEF NoticesTyped
  <2>2. notices' \subseteq [id : NoticeIds, event : Occasions, at : 0..MaxTime, read : BOOLEAN]
    BY <1>5
  <2>. QED BY <1>1, <1>6, <2>1, <2>2 DEF NoticesTyped, OneNoticeEach
<1>8. RowsGo
  BY <1>1, <1>4, <1>5, <1>7, SameRows
<1>9. PICK q : q = trail
  OBVIOUS
<1>10. WayOK(q) /\ q[Len(q)] = Here /\ Here \in DOMAIN pages
  BY <1>1, <1>9 DEF TrailHolds, Here
<1>11. Here = First \/ Here \in Taken
  BY <1>10 DEF PagesHold, PageOK
<1>12. PICK c : c = Here
  OBVIOUS
<1>13. c = First \/ c \in Taken
  BY <1>11, <1>12
<1>14. PageOK(c, Listed(c))
  BY <1>13, ListedIs
<1>15. PICK p : p = Listed(c)
  OBVIOUS
<1>16. PageOK(q[Len(q)], p) /\ Shows(q, p) /\ outdated' \subseteq DOMAIN pages \cup {q[Len(q)]}
  BY <1>1, <1>9, <1>10, <1>12, <1>14, <1>15
<1>17. PagesHold' /\ TrailHolds'
  BY <1>7, <1>8, <1>10, <1>16, ScreenGoes
<1>. QED BY <1>7, <1>17

\* What a step of the notices is.
LEMMA NoticeStep == ASSUME NoticeInv, [NotificationStep]_notificationVars PROVE NoticeInv'
<1>1. CASE UNCHANGED notificationVars
  <2>1. UNCHANGED <<notices, now, writer, marks, disorder, missed, screenVars>>
    BY <1>1 DEF notificationVars, noticeVars
  <2>2. NoticesTyped' /\ UNCHANGED <<notices, disorder>>
    BY <2>1 DEF NoticeInv, NoticesTyped
  <2>3. OneNoticeEach' /\ RowsGo
    BY <2>2, NoRows DEF NoticeInv
  <2>4. PagesHold' /\ TrailHolds'
    BY <2>1, <2>2, <2>3, ScreenStays DEF NoticeInv
  <2>. QED BY <2>2, <2>3, <2>4 DEF NoticeInv
<1>2. CASE NotificationStep
  <2>1. \/ Tick \/ \E w \in Writers, e \in Occasions : Notify(w, e)
        \/ \E w \in Writers : Insert(w)
        \/ OpenCentre \/ LeaveCentre \/ NextPage \/ PreviousPage
        \/ \E I : MarkRead(I)
    BY <1>2 DEF NotificationStep
  <2>2. CASE Tick \/ \E w \in Writers, e \in Occasions : Notify(w, e)
    BY <2>2, NotifySteps
  <2>3. CASE \E w \in Writers : Insert(w)
    BY <2>3, InsertStep
  <2>4. CASE OpenCentre
    BY <2>4, OpenStep
  <2>5. CASE LeaveCentre
    BY <2>5, LeaveStep
  <2>6. CASE NextPage
    BY <2>6, NextStep
  <2>7. CASE PreviousPage
    BY <2>7, PreviousStep
  <2>8. CASE \E I : MarkRead(I)
    BY <2>8, MarkStep
  <2>. QED BY <2>1, <2>2, <2>3, <2>4, <2>5, <2>6, <2>7, <2>8
<1>. QED BY <1>1, <1>2

LEMMA NoticeStart == NotificationInit => NoticeInv
<1>. SUFFICES ASSUME NotificationInit PROVE NoticeInv
  OBVIOUS
<1>1. NoticesTyped /\ OneNoticeEach
  <2>1. notices = {} /\ now = 0 /\ marks = 0 /\ disorder = FALSE /\ missed = FALSE
    BY DEF NotificationInit
  <2>2. 0 \in 0..MaxTime /\ 0 \in 0..MaxMarks
    BY NotificationAssumption
  <2>3. writer \in [Writers -> [event : Occasions, at : 0..MaxTime] \cup {Resting}]
    BY DEF NotificationInit
  <2>. QED BY <2>1, <2>2, <2>3 DEF NoticesTyped, OneNoticeEach
<1>2. DOMAIN pages = {} /\ pages = [c \in DOMAIN pages |-> pages[c]]
  BY DEF NotificationInit
<1>3. PagesHold /\ TrailHolds
  BY <1>2 DEF NotificationInit, PagesHold, TrailHolds
<1>. QED BY <1>1, <1>3 DEF NoticeInv

\* What the invariant says of ids, and of who has walked to the last page.
LEMMA NoticesSay == NoticeInv => NotificationTypeOK /\ NoticesHold
<1>. SUFFICES ASSUME NoticeInv PROVE NotificationTypeOK /\ NoticesHold
  OBVIOUS
<1>. USE DEF NoticeInv
<1>1. Cardinality(Taken) = Cardinality(notices)
  <2>1. Taken = IdsOf(notices) /\ notices \subseteq notices
    BY DEF Taken, IdsOf
  <2>. QED BY <2>1, NoticesFinite
<1>2. DOMAIN pages \subseteq Cursors
  BY RowOfIs DEF PagesHold, PageOK, Cursors
<1>3. ASSUME trail # Away
      PROVE  trail[1] = First /\ \A i \in DOMAIN trail : trail[i] \in DOMAIN pages
  <2>1. /\ trail \in Seq(Cursors) /\ Len(trail) \in Nat /\ Len(trail) >= 1 /\ trail[1] = First
        /\ Here \in DOMAIN pages
    BY <1>3, WayIs
  <2>2. DOMAIN trail = 1..Len(trail)
    BY <2>1, LenProperties
  <2>3. \A i \in 1..Len(trail) : i = Len(trail) \/ i \in 1..(Len(trail) - 1)
    BY <2>1
  <2>. QED BY <1>3, <2>1, <2>2, <2>3 DEF TrailHolds, WayOK, Here
<1>4. NotificationTypeOK
  BY <1>1, <1>2, <1>3 DEF NotificationTypeOK, NoticesTyped, PagesHold, PageOK
<1>5. PagesFollow
  <2>1. ASSUME trail # Away, NEW i \in 2..Len(trail), NEW j \in ItemsOf(pages[trail[i]])
        PROVE  Before(RowOf(trail[i]), RowOf(j))
    <3>1. Len(trail) \in Nat /\ trail[i] \in Taken /\ i \in 1..Len(trail) /\ DOMAIN trail = 1..Len(trail)
      BY <2>1, WayIs, LenProperties
    <3>2. trail[i] # First
      BY <3>1, RowOfIs, NotificationAssumption DEF NoticeIds
    <3>3. trail[i] \in DOMAIN pages
      BY <1>3, <2>1, <3>1
    <3>. QED BY <2>1, <3>2, <3>3 DEF PagesHold, PageOK
  <2>. QED BY <2>1 DEF PagesFollow
<1>6. WalkIsComplete
  <2>1. ASSUME trail # Away, ~disorder, pages[Here].next = First, NEW x \in pages[First].had
        PROVE  x \in UNION {ItemsOf(pages[trail[i]]) : i \in DOMAIN trail}
    <3>1. Len(trail) \in Nat /\ DOMAIN trail = 1..Len(trail)
      BY <2>1, WayIs, LenProperties
    <3>2. Covered(trail, Len(trail))
      BY <2>1 DEF TrailHolds
    <3>3. Rest(pages[Here]) = {}
      BY <2>1 DEF Rest
    <3>4. \E j \in 1..Len(trail) : x \in ItemsOf(pages[trail[j]])
      BY <2>1, <3>2, <3>3 DEF Covered, Here
    <3>. QED BY <3>1, <3>4
  <2>. QED BY <2>1 DEF WalkIsComplete
<1>. QED BY <1>4, <1>5, <1>6 DEF NoticesHold

-------------------------------------------------------------------------------
(***************************************************************************)
(* The two together.                                                       *)
(***************************************************************************)

\* A step of either leaves the other as it is.
LEMMA BillingStep ==
  ASSUME [BillingNext]_billingVars
  PROVE  [CommerceNext]_commerceVars /\ [NotificationStep]_notificationVars
BY DEF BillingNext, billingVars

LEMMA BillingInvariant == BillingSpec => [](CommerceInv /\ NoticeInv)
<1>1. BillingInit => CommerceInv /\ NoticeInv
  BY CommerceStart, NoticeStart DEF BillingInit
<1>2. CommerceInv /\ NoticeInv /\ [BillingNext]_billingVars => (CommerceInv /\ NoticeInv)'
  BY BillingStep, CommerceStep, NoticeStep
<1>. QED BY <1>1, <1>2, PTL DEF BillingSpec

\* Subscriptions, calls of the webhook, rows, cursors and cached pages have their types, and
\* there are as many notices as ids (schema.prisma's models of billing and Notification).
THEOREM BillingIsTyped == BillingSpec => []BillingTypeOK
<1>1. CommerceInv /\ NoticeInv => BillingTypeOK
  BY CommerceSays, NoticesSay DEF BillingTypeOK
<1>. QED BY <1>1, BillingInvariant, PTL

\* Whatever calls race, crash and are retried: a workspace that has a subscription keeps one,
\* no more trials start than the rules allow, nobody's job grants a period twice, and each
\* payment event is applied once (BillingHolds says it exactly).
THEOREM BillingAlwaysHolds == BillingSpec => []BillingHolds
<1>1. CommerceInv /\ NoticeInv => BillingHolds
  BY CommerceSays DEF BillingHolds
<1>. QED BY <1>1, BillingInvariant, PTL

\* An event has one notice, whatever calls race; each page of the notification centre goes on
\* behind the last row of the page before, and who has walked to the last page has seen every
\* row there was when the first page was read, unless rows appeared behind others
\* (notification.service.ts and the centre's cached pages).
THEOREM NoticesAlwaysHold == BillingSpec => []NoticesHold
<1>1. CommerceInv /\ NoticeInv => NoticesHold
  BY NoticesSay
<1>. QED BY <1>1, BillingInvariant, PTL
===============================================================================
