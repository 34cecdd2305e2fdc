---------------------------- MODULE ServingProofs -----------------------------
(***************************************************************************)
(* Proofs about what the service owes a workspace: HttpServer for any number *)
(* of requests, users, addresses and workspaces and any limits, Environment *)
(* for any number of edits between the boots, DataExport for any number of *)
(* requests, workers, attempts, runs and faults.                           *)
(***************************************************************************)
EXTENDS MCServing, CommerceProofs, FiniteSetTheorems, TLAPS

(***************************************************************************)
(* The HTTP server.                                                        *)
(***************************************************************************)

CountsTyped == counted \in [all : Nat, bad : Nat, failed : Nat]

\* Every run that began was asked for under its workspace's key.
BegunWereCounted == \A t \in Tenants : begun[t] <= starts[t]

\* A server that closes, or is gone, was asked to, and only one that is gone cut anything.
ClosingWasAsked == (server # "up" => signals >= 1) /\ (cut # {} => server = "gone")

\* The inductive invariant.
HttpInv ==
  HttpTypeOK /\ CountsTyped /\ BegunWereCounted /\ ClosingWasAsked /\ CallersAreServed

Requests == [user : Users, op : HttpOps, stage : Stages]

LEMMA HttpInitInvariant == HttpInit => HttpInv
<1>. SUFFICES ASSUME HttpInit PROVE HttpInv
  OBVIOUS
<1>1. Handled = {}
  BY DEF HttpInit, Handled, At
<1>2. Cardinality(Handled) = 0
  BY <1>1, FS_EmptySet
<1>3. HttpTypeOK
  BY <1>2, HttpAssumption DEF HttpInit, HttpTypeOK
<1>. QED BY <1>3, HttpAssumption DEF HttpInit, HttpInv, CountsTyped, BegunWereCounted,
             ClosingWasAsked, CallersAreServed, BurstBounded, NoAnswerIsCut

\* The requests being handled can be counted.
LEMMA HandledFinite == IsFiniteSet(Handled) /\ Cardinality(Handled) \in Nat
<1>1. IsFiniteSet(Handled)
  BY HttpAssumption, FS_Subset DEF Handled
<1>. QED BY <1>1, FS_CardinalityType

\* A request takes a free connection.
LEMMA HandleOne ==
  ASSUME HttpTypeOK, NEW s \in Slots, NEW u \in Users, NEW op \in HttpOps,
         connection[s] = Idle, Handle(s, u, op)
  PROVE  /\ connection' \in [Slots -> Requests \cup {Idle}]
         /\ Cardinality(Handled') = Cardinality(Handled) + 1
<1>. DEFINE r == [user |-> u, op |-> op, stage |-> "handled"]
<1>1. r \in Requests /\ r # Idle /\ r.stage = "handled"
  BY HttpAssumption DEF Requests, Stages
<1>2. connection' = [connection EXCEPT ![s] = r]
  BY DEF Handle
<1>. HIDE DEF r
<1>3. connection' \in [Slots -> Requests \cup {Idle}]
  BY <1>1, <1>2 DEF HttpTypeOK, Requests
<1>4. Handled' = Handled \cup {s} /\ s \notin Handled
  BY <1>1, <1>2 DEF HttpTypeOK, Handled, At
<1>. QED BY <1>3, <1>4, HandledFinite, FS_AddElement

\* A handled request is answered: it leaves, or goes on late.
LEMMA AnswerOne ==
  ASSUME HttpTypeOK, NEW s \in Slots, At(s, "handled"),
         \/ connection' = [connection EXCEPT ![s] = Idle]
         \/ connection' = [connection EXCEPT ![s].stage = "late"]
  PROVE  /\ connection' \in [Slots -> Requests \cup {Idle}]
         /\ Cardinality(Handled') = Cardinality(Handled) - 1
<1>1. connection[s] \in Requests /\ connection[s].stage = "handled"
  BY DEF HttpTypeOK, At, Requests
<1>2. /\ connection'[s] \in Requests \cup {Idle}
      /\ connection'[s] = Idle \/ connection'[s].stage = "late"
      /\ \A t \in Slots \ {s} : connection'[t] = connection[t]
      /\ connection' \in [Slots -> Requests \cup {Idle}]
  <2>1. CASE connection' = [connection EXCEPT ![s] = Idle]
    BY <2>1 DEF HttpTypeOK, Requests
  <2>2. CASE connection' = [connection EXCEPT ![s].stage = "late"]
    <3>1. [connection[s] EXCEPT !.stage = "late"] \in Requests
      BY <1>1 DEF Requests, Stages
    <3>. QED BY <2>2, <3>1 DEF HttpTypeOK, Requests
  <2>. QED BY <2>1, <2>2
<1>3. Handled' = Handled \ {s} /\ s \in Handled
  BY <1>1, <1>2 DEF Handled, At
<1>. QED BY <1>2, <1>3, HandledFinite, FS_RemoveElement

\* The clients of some requests leave.
LEMMA LeaveSome ==
  ASSUME HttpTypeOK, NEW T, T \subseteq Handled
  PROVE  /\ Left(T) \in [Slots -> Requests \cup {Idle}]
         /\ \A s \in Slots \ T : Left(T)[s] = connection[s]
         /\ \A s \in T : Left(T)[s] # Idle /\ Left(T)[s].stage = "left"
         /\ IsFiniteSet(T) /\ Cardinality(T) \in Nat
         /\ Cardinality(Handled \ T) = Cardinality(Handled) - Cardinality(T)
<1>1. ASSUME NEW s \in T
      PROVE  /\ [connection[s] EXCEPT !.stage = "left"] \in Requests
             /\ [connection[s] EXCEPT !.stage = "left"].stage = "left"
  <2>1. connection[s] \in Requests
    BY DEF HttpTypeOK, Requests, Handled, At
  <2>. QED BY <2>1 DEF Requests, Stages
<1>2. Idle \notin Requests
  BY HttpAssumption DEF Requests
<1>3. T \subseteq Slots /\ connection \in [Slots -> Requests \cup {Idle}]
  BY DEF Handled, HttpTypeOK, Requests
<1>4. /\ Left(T) \in [Slots -> Requests \cup {Idle}]
      /\ \A s \in Slots \ T : Left(T)[s] = connection[s]
      /\ \A s \in T : Left(T)[s] # Idle /\ Left(T)[s].stage = "left"
  BY <1>1, <1>2, <1>3 DEF Left
<1>5. IsFiniteSet(T) /\ Cardinality(T) \in Nat
  BY HandledFinite, FS_Subset, FS_CardinalityType
<1>6. Handled \cap T = T
  OBVIOUS
<1>7. Cardinality(Handled \ T) = Cardinality(Handled) - Cardinality(T)
  BY <1>6, HandledFinite, FS_Difference
<1>. QED BY <1>4, <1>5, <1>7

\* The metrics count one more answer.
LEMMA CountOne ==
  ASSUME HttpInv, NEW kind \in {"good", "bad", "failed"}
  PROVE  /\ Count(kind) \in [all : Nat, bad : Nat, failed : Nat]
         /\ Count(kind).all = counted.all + 1
         /\ Count(kind).bad + Count(kind).failed <= Count(kind).all
  BY DEF HttpInv, HttpTypeOK, CountsTyped, Count

\* A request reaches its handler: an event always, a run within its workspace's limit.
LEMMA EventStep ==
  ASSUME HttpInv, NEW s \in Slots, NEW u \in Users, Event(s, u) PROVE HttpInv'
<1>. USE DEF HttpInv, Event, limitVars
<1>1. /\ connection' \in [Slots -> Requests \cup {Idle}]
      /\ Cardinality(Handled') = Cardinality(Handled) + 1
  BY HandleOne DEF HttpOps
<1>2. sent' \in 0..MaxSent
  BY HttpAssumption DEF HttpTypeOK
<1>3. HttpTypeOK'
  BY <1>1, <1>2, HandledFinite DEF HttpTypeOK, CountsTyped, Requests
<1>4. /\ CountsTyped' /\ BegunWereCounted' /\ ClosingWasAsked' /\ CallersAreServed'
  BY DEF CountsTyped, BegunWereCounted, ClosingWasAsked, CallersAreServed, BurstBounded,
         NoAnswerIsCut
<1>. QED BY <1>3, <1>4

LEMMA AcceptStep ==
  ASSUME HttpInv, NEW s \in Slots, NEW u \in Users, NEW op \in {"read", "run"}, Accept(s, u, op)
  PROVE  HttpInv'
<1>. USE HttpAssumption DEF HttpInv, Accept
<1>1. /\ connection' \in [Slots -> Requests \cup {Idle}]
      /\ Cardinality(Handled') = Cardinality(Handled) + 1
  BY HandleOne DEF HttpOps
<1>2. sent' = sent + 1 /\ sent' \in 0..MaxSent
  BY DEF HttpTypeOK
<1>3. hits' \in [Addresses -> 0..MaxRequests + 1]
  <2>1. hits[RequestKey(u)] < MaxRequests /\ RequestKey(u) \in Addresses
    BY DEF TooMany, Passes, RequestKey
  <2>. QED BY <2>1 DEF HttpTypeOK
<1>4. /\ starts' \in [Tenants \cup Users -> 0..MaxExecutions + 1]
      /\ begun' \in [Tenants -> Nat]
      /\ \A t \in Tenants : begun'[t] <= starts'[t] /\ begun'[t] <= MaxExecutions
  <2>1. TenantOf[u] \in Tenants /\ RunKey(u) = TenantOf[u]
    BY DEF RunKey
  <2>2. CASE op = "run"
    <3>1. starts[TenantOf[u]] < MaxExecutions
      BY <2>1, <2>2 DEF TooManyRuns, Passes
    <3>2. /\ starts' = [starts EXCEPT ![TenantOf[u]] = @ + 1]
          /\ begun' = [begun EXCEPT ![TenantOf[u]] = @ + 1]
      BY <2>1, <2>2
    <3>. QED BY <2>1, <3>1, <3>2 DEF HttpTypeOK, BegunWereCounted, CallersAreServed, BurstBounded
  <2>3. CASE op # "run"
    BY <2>3 DEF HttpTypeOK, BegunWereCounted, CallersAreServed, BurstBounded
  <2>. QED BY <2>2, <2>3
<1>5. HttpTypeOK'
  BY <1>1, <1>2, <1>3, <1>4, HandledFinite DEF HttpTypeOK, CountsTyped, Requests
<1>6. /\ CountsTyped' /\ BegunWereCounted' /\ ClosingWasAsked' /\ CallersAreServed'
  BY <1>4 DEF CountsTyped, BegunWereCounted, ClosingWasAsked, CallersAreServed, BurstBounded,
              NoAnswerIsCut
<1>. QED BY <1>5, <1>6

\* A request is turned away: it may use up its limits, and begins no run.
LEMMA RejectStep ==
  ASSUME HttpInv, NEW u \in Users, NEW op \in {"read", "run"}, Reject(u, op)
  PROVE  HttpInv'
<1>. USE HttpAssumption DEF HttpInv, Reject
<1>1. Handled' = Handled
  BY DEF Handled, At
<1>2. sent' = sent + 1 /\ sent' \in 0..MaxSent
  BY DEF HttpTypeOK
<1>4. hits' \in [Addresses -> 0..MaxRequests + 1]
  <2>1. hits[RequestKey(u)] + 1 \in Nat
    BY DEF HttpTypeOK, RequestKey
  <2>2. AtMost(hits[RequestKey(u)] + 1, MaxRequests + 1) \in 0..MaxRequests + 1
    BY <2>1 DEF AtMost
  <2>. QED BY <2>2 DEF HttpTypeOK
<1>5. /\ starts' \in [Tenants \cup Users -> 0..MaxExecutions + 1]
      /\ \A t \in Tenants : starts[t] <= starts'[t]
  <2>1. RunKey(u) \in Tenants \cup Users
    BY DEF RunKey
  <2>2. starts[RunKey(u)] \in 0..MaxExecutions + 1
    BY <2>1 DEF HttpTypeOK
  <2>3. /\ AtMost(starts[RunKey(u)] + 1, MaxExecutions + 1) \in 0..MaxExecutions + 1
        /\ starts[RunKey(u)] <= AtMost(starts[RunKey(u)] + 1, MaxExecutions + 1)
    BY <2>2 DEF AtMost
  <2>. QED BY <2>1, <2>2, <2>3 DEF HttpTypeOK
<1>6. /\ counted' \in [all : Nat, bad : Nat, failed : Nat] /\ abandoned' \in Nat
      /\ counted'.bad + counted'.failed <= counted'.all
      /\ \/ counted'.all = counted.all + 1 /\ abandoned' = abandoned
         \/ counted'.all = counted.all /\ abandoned' = abandoned + 1
  <2>1. counted \in [all : Nat, bad : Nat, failed : Nat] /\ abandoned \in Nat
        /\ counted.bad + counted.failed <= counted.all
    BY DEF CountsTyped, HttpTypeOK
  <2>2. CASE counted' = Count("bad") /\ UNCHANGED abandoned
    BY <2>1, <2>2, CountOne
  <2>3. CASE abandoned' = abandoned + 1 /\ UNCHANGED counted
    BY <2>1, <2>3
  <2>. QED BY <2>2, <2>3
<1>7. HttpTypeOK'
  <2>1. "handled" \notin cut' => counted'.all + abandoned' + Cardinality(Handled') = sent'
    BY <1>1, <1>2, <1>6, HandledFinite DEF HttpTypeOK, CountsTyped
  <2>. QED BY <1>2, <1>4, <1>5, <1>6, <2>1 DEF HttpTypeOK
<1>8. BegunWereCounted'
  <2>1. \A t \in Tenants : begun[t] \in Nat /\ starts[t] \in Int /\ starts'[t] \in Int
    BY <1>5 DEF HttpTypeOK
  <2>. QED BY <1>5, <2>1 DEF BegunWereCounted
<1>9. CountsTyped' /\ ClosingWasAsked' /\ CallersAreServed'
  BY <1>6 DEF CountsTyped, ClosingWasAsked, CallersAreServed, BurstBounded, NoAnswerIsCut
<1>. QED BY <1>7, <1>8, <1>9

\* A request is answered by its handler, or by the timeout.
LEMMA AnswerStep ==
  ASSUME HttpInv, NEW s \in Slots, Finish(s) \/ TimeOut(s)
  PROVE  HttpInv'
<1>. USE DEF HttpInv, limitVars
<1>1. /\ connection' \in [Slots -> Requests \cup {Idle}]
      /\ Cardinality(Handled') = Cardinality(Handled) - 1
  BY AnswerOne DEF Finish, TimeOut, MayTimeOut
<1>2. /\ counted' \in [all : Nat, bad : Nat, failed : Nat]
      /\ counted'.all = counted.all + 1 /\ counted'.bad + counted'.failed <= counted'.all
  BY CountOne DEF Finish, TimeOut
<1>3. UNCHANGED <<server, limitVars, sent, abandoned, signals, cut>>
  BY DEF Finish, TimeOut
<1>4. HttpTypeOK'
  <2>1. "handled" \notin cut' => counted'.all + abandoned' + Cardinality(Handled') = sent'
    <3>1. "handled" \notin cut => counted.all + abandoned + Cardinality(Handled) = sent
      BY DEF HttpTypeOK
    <3>2. counted.all \in Nat /\ abandoned \in Nat
      BY DEF CountsTyped, HttpTypeOK
    <3>. QED BY <1>1, <1>2, <1>3, <3>1, <3>2, HandledFinite
  <2>. QED BY <1>1, <1>2, <1>3, <2>1 DEF HttpTypeOK, Requests
<1>5. CountsTyped' /\ BegunWereCounted' /\ ClosingWasAsked' /\ CallersAreServed'
  BY <1>2, <1>3 DEF CountsTyped, BegunWereCounted, ClosingWasAsked, CallersAreServed, BurstBounded,
                    NoAnswerIsCut
<1>. QED BY <1>4, <1>5

\* Some requests lose their clients, and another handler may end: nothing is counted.
LEMMA AbandonStep ==
  ASSUME HttpInv, NEW T \in SUBSET Handled, abandoned' = abandoned + Cardinality(T),
         connection' \in [Slots -> Requests \cup {Idle}], Handled' = Handled \ T,
         UNCHANGED <<server, limitVars, sent, counted, signals, cut>>
  PROVE  HttpInv'
<1>. USE DEF HttpInv, limitVars
<1>1. /\ Cardinality(T) \in Nat
      /\ Cardinality(Handled') = Cardinality(Handled) - Cardinality(T)
  BY LeaveSome
<1>2. HttpTypeOK'
  <2>1. "handled" \notin cut => counted.all + abandoned + Cardinality(Handled) = sent
    BY DEF HttpTypeOK
  <2>2. counted.all \in Nat /\ abandoned \in Nat
    BY DEF CountsTyped, HttpTypeOK
  <2>3. "handled" \notin cut => counted.all + abandoned' + Cardinality(Handled') = sent
    BY <1>1, <2>1, <2>2, HandledFinite
  <2>4. abandoned' \in Nat
    BY <1>1, <2>2
  <2>. QED BY <2>3, <2>4 DEF HttpTypeOK, Requests
<1>3. CountsTyped' /\ BegunWereCounted' /\ ClosingWasAsked' /\ CallersAreServed'
  BY DEF CountsTyped, BegunWereCounted, ClosingWasAsked, CallersAreServed, BurstBounded,
         NoAnswerIsCut
<1>. QED BY <1>2, <1>3

\* A client leaves.
LEMMA ClientLeavesStep == ASSUME HttpInv, NEW s \in Slots, ClientLeaves(s) PROVE HttpInv'
<1>1. {s} \subseteq Handled /\ Cardinality({s}) = 1
  BY FS_Singleton DEF ClientLeaves, Handled
<1>2. connection' = Left({s}) /\ abandoned' = abandoned + 1
      /\ UNCHANGED <<server, limitVars, sent, counted, signals, cut>>
  BY DEF ClientLeaves
<1>3. /\ Left({s}) \in [Slots -> Requests \cup {Idle}]
      /\ \A t \in Slots \ {s} : Left({s})[t] = connection[t]
      /\ Left({s})[s] # Idle /\ Left({s})[s].stage = "left"
  BY <1>1, LeaveSome DEF HttpInv
<1>4. Handled' = Handled \ {s}
  BY <1>2, <1>3 DEF Handled, At
<1>. QED BY <1>1, <1>2, <1>3, <1>4, AbandonStep

\* A handler whose answer nobody waits for ends.
LEMMA LeftEndStep == ASSUME HttpInv, NEW s \in Slots, LeftEnd(s) PROVE HttpInv'
<1>1. connection' \in [Slots -> Requests \cup {Idle}] /\ Handled' = Handled \ {}
  BY DEF HttpInv, LeftEnd, HttpTypeOK, Requests, Handled, At
<1>2. {} \subseteq Handled /\ Cardinality({}) = 0 /\ abandoned' = abandoned + 0
  BY FS_EmptySet DEF HttpInv, LeftEnd, HttpTypeOK
<1>. QED BY <1>1, <1>2, AbandonStep DEF LeftEnd

\* A handler that was overtaken by the timeout ends, and may take others' answers with it.
LEMMA LateEndStep == ASSUME HttpInv, NEW s \in Slots, LateEnd(s) PROVE HttpInv'
<1>1. PICK T \in SUBSET Handled : /\ connection' = [Left(T) EXCEPT ![s] = Idle]
                                 /\ abandoned' = abandoned + Cardinality(T)
  BY DEF LateEnd
<1>2. /\ At(s, "late") /\ s \notin T /\ s \notin Handled
      /\ UNCHANGED <<server, limitVars, sent, counted, signals, cut>>
  BY <1>1 DEF LateEnd, AfterLate, Handled, At
<1>3. /\ Left(T) \in [Slots -> Requests \cup {Idle}]
      /\ \A t \in Slots \ T : Left(T)[t] = connection[t]
      /\ \A t \in T : Left(T)[t] # Idle /\ Left(T)[t].stage = "left"
  BY <1>1, LeaveSome DEF HttpInv
<1>4. connection' \in [Slots -> Requests \cup {Idle}] /\ Handled' = Handled \ T
  BY <1>1, <1>2, <1>3 DEF Handled, At
<1>. QED BY <1>1, <1>2, <1>4, AbandonStep

\* A window ends: what was asked for in it and what began are forgotten together.
LEMMA ResetStep == ASSUME HttpInv, Reset PROVE HttpInv'
<1>. USE HttpAssumption DEF HttpInv, Reset
<1>1. Handled' = Handled
  BY DEF Handled, At
<1>2. /\ hits' \in [Addresses -> 0..MaxRequests + 1]
      /\ starts' \in [Tenants \cup Users -> 0..MaxExecutions + 1]
      /\ begun' \in [Tenants -> Nat]
      /\ \A t \in Tenants : begun'[t] <= starts'[t] /\ begun'[t] <= MaxExecutions
  BY DEF HttpTypeOK, BegunWereCounted, CallersAreServed, BurstBounded
<1>3. HttpTypeOK'
  BY <1>1, <1>2 DEF HttpTypeOK
<1>. QED BY <1>2, <1>3 DEF CountsTyped, BegunWereCounted, ClosingWasAsked, CallersAreServed,
                           BurstBounded, NoAnswerIsCut

\* The server is gone: no connection is left, and a request that was being handled is
\* among what was cut.
LEMMA GoneStep ==
  ASSUME HttpInv, server # "gone", server' = "gone", cut' = {connection[s].stage : s \in Busy},
         connection' = [s \in Slots |-> Idle], UNCHANGED <<limitVars, sent, counted, abandoned>>,
         signals' \in 0..2, signals' >= 1, Handled # {} => signals' = 2
  PROVE  HttpInv'
<1>. USE DEF HttpInv, limitVars
<1>1. Handled' = {} /\ Cardinality(Handled') = 0
  BY FS_EmptySet DEF Handled, At
<1>2. "handled" \in cut' <=> Handled # {}
  BY DEF Handled, At, Busy
<1>3. cut' \subseteq Stages
  BY DEF HttpTypeOK, Busy
<1>4. "handled" \notin cut' => counted.all + abandoned = sent
  <2>1. ASSUME Handled = {} PROVE Cardinality(Handled) = 0
    BY <2>1, FS_EmptySet
  <2>2. counted.all + abandoned + Cardinality(Handled) = sent
    BY DEF HttpTypeOK, ClosingWasAsked
  <2>3. counted.all \in Nat /\ abandoned \in Nat
    BY DEF CountsTyped, HttpTypeOK
  <2>. QED BY <1>2, <2>1, <2>2, <2>3
<1>5. HttpTypeOK'
  <2>1. counted'.all + abandoned' + Cardinality(Handled') = counted.all + abandoned
    BY <1>1 DEF CountsTyped, HttpTypeOK
  <2>. QED BY <1>3, <1>4, <2>1 DEF HttpTypeOK
<1>. QED BY <1>2, <1>5 DEF CountsTyped, BegunWereCounted, ClosingWasAsked, CallersAreServed,
                           BurstBounded, NoAnswerIsCut

LEMMA SignalStep == ASSUME HttpInv, Signal PROVE HttpInv'
<1>. USE DEF HttpInv, Signal, limitVars
<1>1. signals' \in 1..2
  BY DEF HttpTypeOK
<1>2. CASE server = "up"
  <2>1. Handled' = Handled
    BY <1>2 DEF Handled, At
  <2>2. HttpTypeOK'
    <3>1. connection' = connection /\ cut' = cut /\ counted' = counted /\ sent' = sent
          /\ abandoned' = abandoned
      BY <1>2
    <3>. QED BY <1>1, <1>2, <2>1, <3>1 DEF HttpTypeOK
  <2>3. CallersAreServed'
    BY <1>2 DEF ClosingWasAsked, CallersAreServed, BurstBounded, NoAnswerIsCut
  <2>. QED BY <1>1, <1>2, <2>2, <2>3 DEF CountsTyped, BegunWereCounted, ClosingWasAsked
<1>3. CASE server # "up"
  <2>1. signals' = 2
    BY <1>3 DEF HttpTypeOK, ClosingWasAsked
  <2>. QED BY <1>3, <2>1, GoneStep
<1>. QED BY <1>2, <1>3

LEMMA ExitStep == ASSUME HttpInv, Exit PROVE HttpInv'
  BY GoneStep DEF HttpInv, Exit, MayExit, HttpTypeOK, ClosingWasAsked

\* Every step keeps the inductive invariant.
LEMMA HttpNextInvariant == HttpInv /\ [HttpStep]_httpVars => HttpInv'
<1>1. ASSUME HttpInv, UNCHANGED httpVars PROVE HttpInv'
  BY <1>1 DEF httpVars, limitVars, HttpInv, HttpTypeOK, Handled, At, CountsTyped, BegunWereCounted,
              ClosingWasAsked, CallersAreServed, BurstBounded, NoAnswerIsCut
<1>. QED BY <1>1, EventStep, AcceptStep, RejectStep, AnswerStep, ClientLeavesStep, LeftEndStep,
            LateEndStep, ResetStep, SignalStep, ExitStep DEF HttpStep

-------------------------------------------------------------------------------
\* Every request that was sent is under way, was cut off by the exit, lost its client, or was
\* counted once: nobody is counted twice, or without having been answered.
THEOREM EveryRequestIsCounted == HttpSpec => []HttpTypeOK
<1>1. HttpInv => HttpTypeOK
  BY DEF HttpInv
<1>. QED BY HttpInitInvariant, HttpNextInvariant, <1>1, PTL DEF HttpSpec

\* No workspace begins more runs in a window than its limit, and one signal cuts off no
\* request that waits for its answer.
THEOREM CallersAreAlwaysServed == HttpSpec => []CallersAreServed
<1>1. HttpInv => CallersAreServed
  BY DEF HttpInv
<1>. QED BY HttpInitInvariant, HttpNextInvariant, <1>1, PTL DEF HttpSpec

-------------------------------------------------------------------------------
(***************************************************************************)
(* The configuration.                                                      *)
(***************************************************************************)

\* What a process runs with is what the variables said when it came up, and they passed
\* every check; while it runs nobody edits them.
RunsOnValid == env # Down => env = Loaded(settings) /\ Valid(settings)

\* The inductive invariant.
ConfigInv ==
  /\ settings = [n \in Names |-> settings[n]]
  /\ RunsOnValid
  /\ SettingsHold

LEMMA NamesAre ==
  Names = {"NODE_ENV", "CORS_ORIGIN", "DATABASE_URL", "JWT_SECRET", "JWT_REFRESH_SECRET",
           "USE_PGLITE_ADAPTER", "AI_PROVIDER", "OPENAI_API_KEY", "PAYMENT_PROVIDER",
           "STRIPE_SECRET_KEY", "STRIPE_WEBHOOK_SECRET", "BACKUP_ENCRYPTION_KEY", "S3_BUCKET",
           "S3_ACCESS_KEY_ID", "S3_SECRET_ACCESS_KEY", "BACKUP_SCHEDULE_TIME"}
  BY DEF Names, Choices

\* loadEnv changes three variables.
LEMMA LoadedIs ==
  ASSUME settings = [n \in Names |-> settings[n]]
  PROVE  /\ Loaded(settings).NODE_ENV =
              IF settings.NODE_ENV = "unset" THEN "development" ELSE settings.NODE_ENV
         /\ Loaded(settings).USE_PGLITE_ADAPTER = IsTrue(settings.USE_PGLITE_ADAPTER)
         /\ \A n \in Names \ {"NODE_ENV", "CORS_ORIGIN", "USE_PGLITE_ADAPTER"} :
              Loaded(settings)[n] = settings[n]
  BY NamesAre DEF Loaded

LEMMA ConfigInitInvariant == ConfigInit => ConfigInv
<1>. SUFFICES ASSUME ConfigInit PROVE ConfigInv
  OBVIOUS
<1>1. settings = [n \in Names |-> settings[n]]
  <2>1. Example = [n \in Names |-> Example[n]]
    BY DEF Example
  <2>2. Production = [n \in Names |-> Production[n]]
    BY <2>1 DEF Production
  <2>. QED BY <2>1, <2>2 DEF ConfigInit
<1>. QED BY <1>1 DEF ConfigInit, ConfigInv, RunsOnValid, SettingsHold

\* The variables are edited while nothing runs.
LEMMA EditStep == ASSUME ConfigInv, NEW n \in Names, Edit(n) PROVE ConfigInv'
<1>1. env' = Down /\ settings' = [x \in Names |-> settings'[x]]
  BY DEF ConfigInv, Edit
<1>2. SettingsHold'
  BY DEF ConfigInv, Edit, SettingsHold
<1>. QED BY <1>1, <1>2 DEF ConfigInv, RunsOnValid

\* A process comes up with what passed the checks ...
LEMMA BootStep == ASSUME ConfigInv, BootProcess PROVE ConfigInv'
<1>1. SettingsHold' /\ settings' = settings
  BY DEF ConfigInv, BootProcess, SettingsHold
<1>2. RunsOnValid'
  BY <1>1 DEF BootProcess, RunsOnValid, Valid, Present, Parses
<1>. QED BY <1>1, <1>2 DEF ConfigInv

\* ... so it is production that never runs on a database in memory,
LEMMA StopStep == ASSUME ConfigInv, StopProcess PROVE ConfigInv'
<1>1. settings' = settings /\ env' = Down
  BY DEF StopProcess
<1>2. env.NODE_ENV = "production" => ~env.USE_PGLITE_ADAPTER
  BY DEF ConfigInv, StopProcess, RunsOnValid, Valid, FitForProduction
<1>3. "production" \notin lost'
  BY <1>2 DEF ConfigInv, StopProcess, SettingsHold
<1>. QED BY <1>1, <1>3 DEF ConfigInv, StopProcess, RunsOnValid, SettingsHold

\* an adapter that is asked for has its key,
LEMMA UseAiStep == ASSUME ConfigInv, UseAi PROVE ConfigInv'
<1>1. ~AiThrows
  BY DEF ConfigInv, UseAi, RunsOnValid, Valid, Consistent, AiThrows
<1>. QED BY <1>1 DEF ConfigInv, UseAi, RunsOnValid, SettingsHold

\* a charge is made with the environment's kind of key,
LEMMA ChargeStep == ASSUME ConfigInv, Charge PROVE ConfigInv'
<1>1. StripeIsWhole(env) /\ StripeIsOfThisKind(env)
  BY DEF ConfigInv, Charge, RunsOnValid, Valid, Consistent
<1>2. ~BillingThrows
  BY <1>1 DEF BillingThrows, StripeIsWhole
<1>3. payments' = payments \cup {<<env.NODE_ENV, KindOfCharge>>}
  BY <1>2 DEF Charge
<1>4. /\ env.NODE_ENV = "development" => KindOfCharge # "live"
      /\ env.NODE_ENV = "production" => KindOfCharge # "test"
  BY <1>1 DEF StripeIsWhole, StripeIsOfThisKind, KindOfCharge
<1>. QED BY <1>2, <1>3, <1>4 DEF ConfigInv, Charge, RunsOnValid, SettingsHold

\* and a backup is encrypted and copied if any of their variables is set.
LEMMA MakeBackupStep == ASSUME ConfigInv, MakeBackup PROVE ConfigInv'
<1>1. env = Loaded(settings) /\ KeyFits(env) /\ AllOrNothing(env)
  BY DEF ConfigInv, MakeBackup, RunsOnValid, Valid, Consistent
<1>2. /\ env.BACKUP_ENCRYPTION_KEY = settings.BACKUP_ENCRYPTION_KEY
      /\ \A n \in S3Names : env[n] = settings[n]
  BY <1>1, LoadedIs, NamesAre DEF ConfigInv, S3Names
<1>3. S3Configured <=> \E n \in S3Names : settings[n] # "unset"
  BY <1>1, <1>2 DEF AllOrNothing, S3Configured, S3Names
<1>4. ~BackupThrows
  BY <1>1 DEF BackupThrows, KeyFits
<1>5. \A b \in vault' : b.asked = b.done
  <2>1. SUFFICES ASSUME NEW b \in vault', b \notin vault PROVE b.asked = b.done
    BY DEF ConfigInv, SettingsHold
  <2>. DEFINE asked == {a \in Asked :
                 \/ a = "sealed" /\ settings.BACKUP_ENCRYPTION_KEY # "unset"
                 \/ a = "copied" /\ \E n \in S3Names : settings[n] # "unset"}
              done == {a \in Asked :
                 \/ a = "sealed" /\ env.BACKUP_ENCRYPTION_KEY # "unset"
                 \/ a = "copied" /\ S3Configured}
  <2>2. b = [asked |-> asked, done |-> done]
    BY <1>4, <2>1 DEF MakeBackup
  <2>3. asked = done
    BY <1>2, <1>3
  <2>. QED BY <2>2, <2>3
<1>. QED BY <1>4, <1>5 DEF ConfigInv, MakeBackup, RunsOnValid, SettingsHold

\* Every step keeps the inductive invariant.
LEMMA ConfigNextInvariant == ConfigInv /\ [ConfigStep]_configVars => ConfigInv'
<1>1. ASSUME ConfigInv, UNCHANGED configVars PROVE ConfigInv'
  BY <1>1 DEF configVars, ConfigInv, RunsOnValid, SettingsHold
<1>. QED BY <1>1, EditStep, BootStep, StopStep, UseAiStep, ChargeStep, MakeBackupStep DEF ConfigStep

\* What a variable is given is one of its values, and loadEnv makes of them what a process
\* needs.
LEMMA LoadedIsTyped ==
  ASSUME ConfigInv, ConfigTypeOK, Valid(settings)
  PROVE  LET e == Loaded(settings) IN
         /\ e.NODE_ENV \in {"development", "production"} /\ e.DATABASE_URL # "unset"
         /\ e.USE_PGLITE_ADAPTER \in BOOLEAN
<1>1. settings = [n \in Names |-> settings[n]]
  BY DEF ConfigInv
<1>2. settings.NODE_ENV \in {"unset", "production"}
  <2>1. "NODE_ENV" \in Names /\ Choices["NODE_ENV"] = {"unset", "production"}
    BY NamesAre DEF Choices
  <2>. QED BY <2>1 DEF ConfigTypeOK
<1>3. Loaded(settings).DATABASE_URL = settings.DATABASE_URL
  BY <1>1, LoadedIs, NamesAre
<1>4. settings.DATABASE_URL # "unset"
  BY DEF Valid, Present
<1>5. IsTrue(settings.USE_PGLITE_ADAPTER) \in BOOLEAN
  BY DEF IsTrue
<1>. QED BY <1>1, <1>2, <1>3, <1>4, <1>5, LoadedIs

LEMMA ConfigStartsTyped == ConfigInit => ConfigTypeOK
<1>. SUFFICES ASSUME ConfigInit PROVE ConfigTypeOK
  OBVIOUS
<1>1. \A n \in Names : Example[n] \in Choices[n]
  <2>1. ASSUME NEW n \in Names PROVE "unset" \in Choices[n]
    <3>1. /\ "unset" \in Choices.NODE_ENV /\ "unset" \in Choices.CORS_ORIGIN
          /\ "unset" \in Choices.DATABASE_URL /\ "unset" \in Choices.JWT_SECRET
          /\ "unset" \in Choices.JWT_REFRESH_SECRET /\ "unset" \in Choices.USE_PGLITE_ADAPTER
          /\ "unset" \in Choices.AI_PROVIDER /\ "unset" \in Choices.OPENAI_API_KEY
          /\ "unset" \in Choices.PAYMENT_PROVIDER /\ "unset" \in Choices.STRIPE_SECRET_KEY
          /\ "unset" \in Choices.STRIPE_WEBHOOK_SECRET /\ "unset" \in Choices.BACKUP_ENCRYPTION_KEY
          /\ "unset" \in Choices.S3_BUCKET /\ "unset" \in Choices.S3_ACCESS_KEY_ID
          /\ "unset" \in Choices.S3_SECRET_ACCESS_KEY /\ "unset" \in Choices.BACKUP_SCHEDULE_TIME
      BY DEF Choices
    <3>. QED BY <3>1, NamesAre
  <2>2. \A n \in Names \ {"JWT_SECRET", "JWT_REFRESH_SECRET", "CORS_ORIGIN", "DATABASE_URL",
                           "USE_PGLITE_ADAPTER"} : Example[n] = "unset"
    BY DEF Example
  <2>3. /\ Example["JWT_SECRET"] \in Choices["JWT_SECRET"]
        /\ Example["JWT_REFRESH_SECRET"] \in Choices["JWT_REFRESH_SECRET"]
        /\ Example["CORS_ORIGIN"] \in Choices["CORS_ORIGIN"]
        /\ Example["DATABASE_URL"] \in Choices["DATABASE_URL"]
        /\ Example["USE_PGLITE_ADAPTER"] \in Choices["USE_PGLITE_ADAPTER"]
    BY NamesAre DEF Example, Choices
  <2>. QED BY <2>1, <2>2, <2>3
<1>2. \A n \in Names : Production[n] = Example[n] \/
        (n = "NODE_ENV" /\ Production[n] = "production") \/
        (n = "CORS_ORIGIN" /\ Production[n] = "public") \/
        (n = "DATABASE_URL" /\ Production[n] = "remote") \/
        (n = "JWT_SECRET" /\ Production[n] = "s1") \/
        (n = "JWT_REFRESH_SECRET" /\ Production[n] = "s2")
  <2>1. Example = [n \in Names |-> Example[n]]
    BY DEF Example
  <2>. QED BY <2>1 DEF Production
<1>3. \A n \in Names : Production[n] \in Choices[n]
  <2>1. /\ "production" \in Choices["NODE_ENV"] /\ "public" \in Choices["CORS_ORIGIN"]
        /\ "remote" \in Choices["DATABASE_URL"]
        /\ "s1" \in Choices["JWT_SECRET"] /\ "s2" \in Choices["JWT_REFRESH_SECRET"]
    BY DEF Choices
  <2>. QED BY <1>1, <1>2, <2>1
<1>. QED BY <1>1, <1>3, EnvironmentAssumption DEF ConfigInit, ConfigTypeOK

LEMMA ConfigStaysTyped == ConfigInv /\ ConfigTypeOK /\ [ConfigStep]_configVars => ConfigTypeOK'
<1>. SUFFICES ASSUME ConfigInv, ConfigTypeOK, [ConfigStep]_configVars PROVE ConfigTypeOK'
  OBVIOUS
<1>1. CASE UNCHANGED configVars
  BY <1>1 DEF configVars, ConfigTypeOK
<1>2. ASSUME NEW n \in Names, Edit(n) PROVE ConfigTypeOK'
  <2>1. PICK v \in Choices[n] : settings' = [settings EXCEPT ![n] = v]
    BY <1>2 DEF Edit
  <2>2. \A m \in Names : settings'[m] = IF m = n THEN v ELSE settings[m]
    BY <2>1 DEF ConfigInv
  <2>3. \A m \in Names : settings'[m] \in Choices[m]
    BY <2>1, <2>2 DEF ConfigTypeOK
  <2>4. edits' \in 0..MaxEdits
    BY <1>2, EnvironmentAssumption DEF Edit, ConfigTypeOK
  <2>. QED BY <1>2, <2>3, <2>4 DEF Edit, ConfigTypeOK
<1>3. CASE BootProcess
  <2>1. /\ env' = Loaded(settings) /\ Valid(settings)
        /\ schedule' \in {NotScheduled, "03:00", "05:00"}
        /\ UNCHANGED <<settings, vault, payments, threw, lost, edits>>
    BY <1>3 DEF BootProcess, TimeOfDay, ConfigTypeOK
  <2>2. /\ env'.NODE_ENV \in {"development", "production"} /\ env'.DATABASE_URL # "unset"
        /\ env'.USE_PGLITE_ADAPTER \in BOOLEAN
    BY <2>1, LoadedIsTyped
  <2>. QED BY <2>1, <2>2 DEF ConfigTypeOK
<1>4. CASE StopProcess
  BY <1>4 DEF StopProcess, ConfigTypeOK
<1>5. CASE UseAi
  BY <1>5 DEF UseAi, ConfigTypeOK
<1>6. CASE Charge
  <2>1. KindOfCharge \in {"mock", "test", "live"}
    BY DEF KindOfCharge
  <2>2. payments' \subseteq payments \cup {<<env.NODE_ENV, KindOfCharge>>}
    BY <1>6 DEF Charge
  <2>3. env.NODE_ENV \in {"development", "production"}
    BY <1>6 DEF Charge, ConfigTypeOK
  <2>4. payments' \subseteq {"development", "production"} \X {"mock", "test", "live"}
    <3>. HIDE DEF KindOfCharge
    <3>. QED BY <2>1, <2>2, <2>3 DEF ConfigTypeOK
  <2>. QED BY <1>6, <2>4 DEF Charge, ConfigTypeOK
<1>7. CASE MakeBackup
  <2>1. vault' \subseteq [asked : SUBSET Asked, done : SUBSET Asked]
    BY <1>7 DEF MakeBackup, ConfigTypeOK
  <2>. QED BY <1>7, <2>1 DEF MakeBackup, ConfigTypeOK
<1>. QED BY <1>1, <1>2, <1>3, <1>4, <1>5, <1>6, <1>7 DEF ConfigStep

-------------------------------------------------------------------------------
\* A process that came up never finds its configuration wanting, whatever was edited
\* between the boots and however often.
THEOREM SettingsAlwaysHold == ConfigSpec => []SettingsHold
<1>1. ConfigInv => SettingsHold
  BY DEF ConfigInv
<1>. QED BY ConfigInitInvariant, ConfigNextInvariant, <1>1, PTL DEF ConfigSpec

-------------------------------------------------------------------------------
(***************************************************************************)
(* The data exports.                                                       *)
(***************************************************************************)

Work == [for : Exports, row : 0..MaxExportRuns, do : ExportStages, lease : BOOLEAN]
RowType == [status : {"none"}]
             \cup [status : {"RUNNING", "SUCCEEDED", "FAILED"}, for : Exports]

WellTyped ==
  /\ request \in [Exports -> {"none", "enqueued", "audited"}]
  /\ exportJob \in [Exports -> {"none", "queued", "held", "done", "dead"}]
  /\ tries \in [Exports -> 0..MaxTries]
  /\ runRow \in [ExportRuns -> RowType]
  /\ bundle \in [ExportRuns -> {"none", "partial", "whole"}]
  /\ exporter \in [Exporters -> Work \cup {NoWork}]
  /\ exportFaults \in 0..MaxExportFaults

\* Rows are created one after the other.
RowsInOrder == Used = 1..Cardinality(Used)

\* A worker's row is its own export's, running until the success is recorded, and the
\* success is recorded of a whole file.
OwnRow == \A w \in Exporters : exporter[w] # NoWork =>
  /\ exporter[w].do = "create" => exporter[w].row = 0
  /\ exporter[w].do # "create" =>
       /\ exporter[w].row \in ExportRuns
       /\ runRow[exporter[w].row] =
            [status |-> IF exporter[w].do = "complete" THEN "SUCCEEDED" ELSE "RUNNING",
             for |-> exporter[w].for]
  /\ exporter[w].do = "record" => bundle[exporter[w].row] = "whole"

\* No two workers have the same row, not even for the same job.
RowsApart == \A v, w \in Exporters :
  v # w /\ exporter[v] # NoWork /\ exporter[w] # NoWork /\ exporter[v].row = exporter[w].row
    => exporter[w].row = 0

\* A lease is on a job that is held, and nobody else's.
Leased == \A w \in Exporters : exporter[w] # NoWork /\ exporter[w].lease =>
  /\ exportJob[exporter[w].for] = "held"
  /\ \A v \in Exporters : v # w /\ exporter[v] # NoWork /\ exporter[v].for = exporter[w].for
       => ~exporter[v].lease

\* A job that may be tried again has attempts left; before the request there is none.
TriesLeft == \A e \in Exports :
  /\ exportJob[e] \in {"none", "queued", "held"} => tries[e] < MaxTries
  /\ request[e] = "none" => exportJob[e] = "none"

\* Rows left RUNNING.
Orphan(i) == runRow[i].status = "RUNNING" /\
             \A w \in Exporters : exporter[w] # NoWork => exporter[w].row # i
Orphans == {i \in ExportRuns : Orphan(i)}
LeftByFaults == Cardinality(Orphans) <= exportFaults

\* The inductive invariant.
ExportInv ==
  /\ WellTyped /\ RowsInOrder /\ OwnRow /\ RowsApart /\ Leased /\ TriesLeft
  /\ LeftByFaults /\ ExportIsSound

\* ExportTypeOK is part of it.
LEMMA InvIsTyped == ExportInv => ExportTypeOK
<1>. SUFFICES ASSUME ExportInv PROVE ExportTypeOK
  OBVIOUS
<1>1. {i \in ExportRuns : runRow[i].status = "RUNNING"} \ WorkedOn = Orphans
  BY DEF WorkedOn, Orphans, Orphan
<1>2. \A i \in ExportRuns : runRow[i].status \in {"none", "RUNNING", "SUCCEEDED", "FAILED"}
  BY DEF ExportInv, WellTyped, RowType
<1>3. \A w \in Exporters : exporter[w] = NoWork \/
        /\ exporter[w].for \in Exports /\ exporter[w].row \in 0..MaxExportRuns
        /\ exporter[w].do \in ExportStages
        /\ exporter[w].lease => exportJob[exporter[w].for] = "held"
  BY DEF ExportInv, WellTyped, Work, Leased
<1>. QED BY <1>1, <1>2, <1>3 DEF ExportInv, WellTyped, LeftByFaults, ExportTypeOK

\* There are finitely many rows.
LEMMA RowsFinite ==
  /\ \A S \in SUBSET ExportRuns : IsFiniteSet(S) /\ Cardinality(S) \in Nat
  /\ \A S, T \in SUBSET ExportRuns : S \subseteq T => Cardinality(S) <= Cardinality(T)
<1>1. IsFiniteSet(ExportRuns)
  BY ExportAssumption, FS_Interval DEF ExportRuns
<1>. QED BY <1>1, FS_Subset, FS_CardinalityType

\* No new row is left behind, so the count stands.
LEMMA NoneLeft ==
  ASSUME ExportInv, \A i \in ExportRuns : Orphan(i)' => Orphan(i), exportFaults' \in Nat,
         exportFaults <= exportFaults'
  PROVE  LeftByFaults'
<1>1. Orphans' \subseteq Orphans /\ Orphans \subseteq ExportRuns
  BY DEF Orphans
<1>2. Cardinality(Orphans') <= Cardinality(Orphans)
  BY <1>1, RowsFinite
<1>3. Cardinality(Orphans') \in Nat /\ Cardinality(Orphans) \in Nat
  BY <1>1, RowsFinite
<1>. QED BY <1>2, <1>3 DEF ExportInv, WellTyped, LeftByFaults

\* The initial states satisfy the inductive invariant.
LEMMA ExportInitInvariant == ExportInit => ExportInv
<1>. SUFFICES ASSUME ExportInit PROVE ExportInv
  OBVIOUS
<1>1. Used = {} /\ Orphans = {}
  BY DEF ExportInit, Used, Orphans, Orphan
<1>2. Used = 1..Cardinality(Used) /\ Cardinality(Orphans) = 0
  BY <1>1, FS_EmptySet
<1>3. WellTyped
  BY ExportAssumption DEF ExportInit, WellTyped, RowType
<1>. QED BY <1>2, <1>3, ExportAssumption
         DEF ExportInit, ExportInv, RowsInOrder, OwnRow, RowsApart, Leased, TriesLeft, LeftByFaults,
             ExportIsSound, DownloadIsWhole, DoneIsDownloadable

\* Nobody has a lease who had none.
LEMMA LeasesKept ==
  ASSUME ExportInv, UNCHANGED exportJob,
         \A v \in Exporters : exporter'[v] # NoWork =>
           /\ exporter[v] # NoWork /\ exporter'[v].for = exporter[v].for
           /\ exporter'[v].lease => exporter[v].lease
  PROVE  Leased'
  BY DEF ExportInv, Leased

\* A request enqueues its job.
LEMMA TriggerStep == ASSUME ExportInv, NEW e \in Exports, Trigger(e) PROVE ExportInv'
<1>. USE DEF ExportInv, Trigger
<1>1. exportJob' = [exportJob EXCEPT ![e] = "queued"] /\ exportJob[e] = "none"
  BY DEF JobCreated, TriesLeft
<1>2. WellTyped'
  BY <1>1 DEF WellTyped
<1>3. RowsInOrder' /\ OwnRow' /\ RowsApart'
  BY DEF RowsInOrder, Used, OwnRow, RowsApart
<1>4. Leased'
  BY <1>1 DEF WellTyped, Leased, Work
<1>5. TriesLeft'
  BY <1>1 DEF WellTyped, TriesLeft
<1>6. LeftByFaults'
  BY DEF LeftByFaults, Orphans, Orphan
<1>7. ExportIsSound'
  BY <1>1 DEF WellTyped, ExportIsSound, DownloadIsWhole, DoneIsDownloadable, FileOf
<1>. QED BY <1>2, <1>3, <1>4, <1>5, <1>6, <1>7

\* The audit entry changes nothing else.
LEMMA AuditStep == ASSUME ExportInv, NEW e \in Exports, Audit(e) PROVE ExportInv'
<1>. USE DEF ExportInv, Audit
<1>1. WellTyped' /\ RowsInOrder' /\ OwnRow' /\ RowsApart' /\ Leased'
  BY DEF WellTyped, RowsInOrder, Used, OwnRow, RowsApart, Leased
<1>2. TriesLeft' /\ LeftByFaults' /\ ExportIsSound'
  BY DEF WellTyped, TriesLeft, LeftByFaults, Orphans, Orphan, ExportIsSound, DownloadIsWhole,
         DoneIsDownloadable, FileOf
<1>. QED BY <1>1, <1>2

\* A worker takes a job nobody holds.
LEMMA TakeJobStep ==
  ASSUME ExportInv, NEW w \in Exporters, NEW e \in Exports, TakeJob(w, e) PROVE ExportInv'
<1>. USE DEF ExportInv, TakeJob
<1>1. /\ exporter'[w] = [for |-> e, row |-> 0, do |-> "create", lease |-> TRUE]
      /\ \A v \in Exporters \ {w} : exporter'[v] = exporter[v]
      /\ exportJob'[e] = "held" /\ \A d \in Exports \ {e} : exportJob'[d] = exportJob[d]
  BY DEF WellTyped
<1>2. [for |-> e, row |-> 0, do |-> "create", lease |-> TRUE] \in Work
  BY ExportAssumption DEF Work, ExportStages
<1>3. WellTyped'
  BY <1>2 DEF WellTyped
<1>4. RowsInOrder' /\ TriesLeft'
  BY <1>1 DEF RowsInOrder, Used, TriesLeft
<1>5. OwnRow' /\ RowsApart'
  BY <1>1 DEF OwnRow, RowsApart
<1>6. \A v \in Exporters : exporter[v] # NoWork /\ exporter[v].for = e => ~exporter[v].lease
  BY DEF Leased
<1>7. Leased'
  BY <1>1, <1>6 DEF WellTyped, Work, Leased
<1>8. \A i \in ExportRuns : Orphan(i)' => Orphan(i)
  BY <1>1 DEF Orphan
<1>9. LeftByFaults'
  BY <1>8, NoneLeft DEF WellTyped
<1>10. ExportIsSound'
  BY <1>1 DEF ExportIsSound, DownloadIsWhole, DoneIsDownloadable, FileOf
<1>. QED BY <1>3, <1>4, <1>5, <1>7, <1>9, <1>10

\* It creates the next row ...
LEMMA CreateExportStep == ASSUME ExportInv, NEW w \in Exporters, CreateExport(w) PROVE ExportInv'
<1>. USE DEF ExportInv
<1>. DEFINE i == Cardinality(Used) + 1
            e == exporter[w].for
            r == [status |-> "RUNNING", for |-> e]
<1>1. exporter[w] \in Work /\ exporter[w].do = "create"
  BY DEF CreateExport, Working, WellTyped
<1>2. /\ i \in ExportRuns
      /\ runRow' = [runRow EXCEPT ![i] = r]
      /\ exporter' = [exporter EXCEPT ![w].row = i, ![w].do = "open"]
      /\ UNCHANGED <<request, exportJob, tries, bundle, exportFaults>>
  BY DEF CreateExport, AfterCreate
<1>3. i \in Nat /\ Used = 1..(i - 1) /\ i \notin Used /\ i # 0
  <2>1. Cardinality(Used) \in Nat
    BY RowsFinite DEF Used
  <2>. QED BY <2>1 DEF RowsInOrder
<1>4. e \in Exports /\ r \in RowType
  BY <1>1 DEF Work, RowType
<1>. HIDE DEF i, e, r
<1>5. /\ exporter'[w] \in Work /\ exporter'[w].for = e /\ exporter'[w].row = i
      /\ exporter'[w].do = "open" /\ exporter'[w].lease = exporter[w].lease
      /\ \A v \in Exporters \ {w} : exporter'[v] = exporter[v]
      /\ exporter' \in [Exporters -> Work \cup {NoWork}]
  <2>1. i \in 0..MaxExportRuns
    BY <1>2, <1>3 DEF ExportRuns
  <2>2. exporter'[w] = [exporter[w] EXCEPT !.row = i, !.do = "open"]
    BY <1>2 DEF WellTyped
  <2>3. [exporter[w] EXCEPT !.row = i, !.do = "open"] \in Work
    BY <1>1, <2>1 DEF Work, ExportStages
  <2>. QED BY <1>1, <1>2, <2>2, <2>3 DEF WellTyped, Work, e
<1>6. runRow'[i] = r /\ \A j \in ExportRuns \ {i} : runRow'[j] = runRow[j]
  BY <1>2 DEF WellTyped
<1>0. exporter[w] # NoWork /\ exporter'[w] # NoWork
  BY <1>5, ExportAssumption DEF CreateExport, Working, Work
<1>7. WellTyped'
  BY <1>2, <1>4, <1>5 DEF WellTyped
<1>8. RowsInOrder'
  <2>1. Used' = Used \cup {i}
    BY <1>2, <1>6 DEF Used, r
  <2>2. Cardinality(Used') = i
    BY <1>3, <2>1, FS_AddElement, RowsFinite DEF Used, i
  <2>3. 1..i = 1..(i - 1) \cup {i}
    BY <1>3
  <2>. QED BY <1>3, <2>1, <2>2, <2>3 DEF RowsInOrder
<1>9. \A v \in Exporters : exporter[v] # NoWork => exporter[v].row # i
  <2>1. SUFFICES ASSUME NEW v \in Exporters, exporter[v] # NoWork, exporter[v].row = i PROVE FALSE
    OBVIOUS
  <2>2. exporter[v].do # "create"
    BY <1>3, <2>1 DEF OwnRow
  <2>3. runRow[i] = [status |-> IF exporter[v].do = "complete" THEN "SUCCEEDED" ELSE "RUNNING",
                     for |-> exporter[v].for]
    BY <2>1, <2>2 DEF OwnRow
  <2>4. runRow[i].status # "none"
    BY <2>3
  <2>. QED BY <1>2, <1>3, <2>4 DEF Used
<1>10. OwnRow'
  <2>1. SUFFICES ASSUME NEW v \in Exporters, exporter'[v] # NoWork
                 PROVE  /\ exporter'[v].do = "create" => exporter'[v].row = 0
                        /\ exporter'[v].do # "create" =>
                             /\ exporter'[v].row \in ExportRuns
                             /\ runRow'[exporter'[v].row] =
                                  [status |-> IF exporter'[v].do = "complete" THEN "SUCCEEDED" ELSE "RUNNING",
                                   for |-> exporter'[v].for]
                        /\ exporter'[v].do = "record" => bundle[exporter'[v].row] = "whole"
    BY <1>2 DEF OwnRow
  <2>2. CASE v = w
    BY <1>2, <1>5, <1>6, <2>2 DEF r
  <2>3. CASE v # w
    BY <1>5, <1>6, <1>9, <2>1, <2>3 DEF OwnRow
  <2>. QED BY <2>2, <2>3
<1>11. RowsApart'
  BY <1>5, <1>9 DEF RowsApart
<1>12. Leased' /\ TriesLeft'
  <2>1. \A v \in Exporters : exporter'[v] # NoWork =>
          /\ exporter[v] # NoWork /\ exporter'[v].for = exporter[v].for
          /\ exporter'[v].lease => exporter[v].lease
    BY <1>0, <1>5 DEF e
  <2>. QED BY <1>2, <2>1, LeasesKept DEF TriesLeft
<1>13. ASSUME NEW j \in ExportRuns, Orphan(j)' PROVE Orphan(j)
  <2>1. j # i
    BY <1>0, <1>5, <1>13 DEF Orphan
  <2>2. exporter[w].row # j
    <3>1. exporter[w].row = 0
      BY <1>0, <1>1 DEF OwnRow
    <3>. QED BY <3>1, ExportAssumption DEF ExportRuns
  <2>. QED BY <1>5, <1>6, <1>13, <2>1, <2>2 DEF Orphan
<1>14. LeftByFaults'
  BY <1>2, <1>13, NoneLeft DEF WellTyped
<1>15. ExportIsSound'
  <2>1. runRow[i].status = "none"
    BY <1>2, <1>3 DEF Used
  <2>. QED BY <1>2, <1>6, <2>1 DEF r, ExportIsSound, DownloadIsWhole, DoneIsDownloadable, FileOf
<1>. QED BY <1>7, <1>8, <1>10, <1>11, <1>12, <1>14, <1>15

\* A worker goes on to its next step with the same job, row and lease.
LEMMA MovesOn ==
  ASSUME ExportInv, NEW w \in Exporters, exporter[w] # NoWork, NEW do \in ExportStages, NowDo(w, do)
  PROVE  /\ exporter' \in [Exporters -> Work \cup {NoWork}]
         /\ exporter'[w] # NoWork /\ exporter'[w].do = do
         /\ \A v \in Exporters \ {w} : exporter'[v] = exporter[v]
         /\ \A v \in Exporters : exporter'[v] # NoWork =>
              /\ exporter[v] # NoWork /\ exporter'[v].for = exporter[v].for
              /\ exporter'[v].row = exporter[v].row /\ exporter'[v].lease = exporter[v].lease
<1>1. exporter[w] \in Work
  BY DEF ExportInv, WellTyped
<1>2. exporter'[w] = [exporter[w] EXCEPT !.do = do]
  BY DEF ExportInv, WellTyped, NowDo
<1>3. [exporter[w] EXCEPT !.do = do] \in Work
  BY <1>1 DEF Work
<1>4. Work \cap {NoWork} = {}
  BY ExportAssumption DEF Work
<1>. QED BY <1>1, <1>2, <1>3, <1>4 DEF ExportInv, WellTyped, NowDo, Work

\* Rows stay apart while no worker gets another row.
LEMMA ApartKept ==
  ASSUME ExportInv,
         \A v \in Exporters : exporter'[v] # NoWork =>
           exporter[v] # NoWork /\ exporter'[v].row = exporter[v].row
  PROVE  RowsApart'
  BY DEF ExportInv, RowsApart

\* ... writes its file, which nobody downloads before the success is recorded ...
LEMMA FileStep ==
  ASSUME ExportInv, NEW w \in Exporters, OpenFile(w) \/ WriteFile(w) PROVE ExportInv'
<1>. USE DEF ExportInv
<1>1. PICK x \in {"partial", "whole"}, do \in {"write", "record"} :
        /\ do = "record" => x = "whole"
        /\ exporter[w] # NoWork /\ exporter[w].do \in {"open", "write"}
        /\ bundle' = [bundle EXCEPT ![exporter[w].row] = x]
        /\ NowDo(w, do)
        /\ UNCHANGED <<request, exportJob, tries, runRow, exportFaults>>
  BY DEF OpenFile, WriteFile, Working, FileOf, Row
<1>2. /\ exporter' \in [Exporters -> Work \cup {NoWork}]
      /\ exporter'[w] # NoWork /\ exporter'[w].do = do
      /\ \A v \in Exporters \ {w} : exporter'[v] = exporter[v]
      /\ \A v \in Exporters : exporter'[v] # NoWork =>
           /\ exporter[v] # NoWork /\ exporter'[v].for = exporter[v].for
           /\ exporter'[v].row = exporter[v].row /\ exporter'[v].lease = exporter[v].lease
  BY <1>1, MovesOn DEF ExportStages
<1>3. /\ exporter[w].row \in ExportRuns
      /\ runRow[exporter[w].row] = [status |-> "RUNNING", for |-> exporter[w].for]
  BY <1>1 DEF OwnRow
<1>4. /\ bundle' \in [ExportRuns -> {"none", "partial", "whole"}]
      /\ bundle'[exporter[w].row] = x
      /\ \A i \in ExportRuns \ {exporter[w].row} : bundle'[i] = bundle[i]
  BY <1>1, <1>3 DEF WellTyped
<1>5. WellTyped' /\ RowsInOrder'
  BY <1>1, <1>2, <1>4 DEF WellTyped, RowsInOrder, Used
<1>6. OwnRow'
  <2>1. CASE exporter'[w].do = "write" \/ exporter'[w].do = "record"
    <3>1. \A v \in Exporters \ {w} : exporter[v] # NoWork => exporter[v].row # exporter[w].row
      BY <1>1, <1>3, ExportAssumption DEF RowsApart, ExportRuns
    <3>2. \A v \in Exporters \ {w} : exporter[v] # NoWork /\ exporter[v].do = "record" =>
            bundle'[exporter[v].row] = "whole"
      <4>1. SUFFICES ASSUME NEW v \in Exporters \ {w}, exporter[v] # NoWork, exporter[v].do = "record"
                     PROVE  bundle'[exporter[v].row] = "whole"
        OBVIOUS
      <4>2. exporter[v].row \in ExportRuns /\ bundle[exporter[v].row] = "whole"
        BY <4>1 DEF OwnRow
      <4>. QED BY <1>4, <3>1, <4>1, <4>2
    <3>. QED BY <1>1, <1>2, <1>3, <1>4, <3>2 DEF OwnRow
  <2>. QED BY <1>2, <2>1
<1>7. RowsApart' /\ Leased' /\ TriesLeft'
  BY <1>1, <1>2, ApartKept, LeasesKept DEF TriesLeft
<1>8. \A i \in ExportRuns : Orphan(i)' => Orphan(i)
  BY <1>1, <1>2 DEF Orphan
<1>9. LeftByFaults'
  BY <1>1, <1>8, NoneLeft DEF WellTyped
<1>10. ExportIsSound'
  BY <1>1, <1>3, <1>4 DEF ExportIsSound, DownloadIsWhole, DoneIsDownloadable, FileOf
<1>. QED BY <1>5, <1>6, <1>7, <1>9, <1>10

\* ... and records the success.
LEMMA RecordExportStep == ASSUME ExportInv, NEW w \in Exporters, RecordExport(w) PROVE ExportInv'
<1>. USE DEF ExportInv
<1>. DEFINE i == exporter[w].row
<1>1. /\ exporter[w] # NoWork /\ exporter[w].do = "record" /\ NowDo(w, "complete")
      /\ UNCHANGED <<request, exportJob, tries, bundle, exportFaults>>
  BY DEF RecordExport, Working
<1>2. /\ exporter' \in [Exporters -> Work \cup {NoWork}]
      /\ exporter'[w] # NoWork /\ exporter'[w].do = "complete"
      /\ \A v \in Exporters \ {w} : exporter'[v] = exporter[v]
      /\ \A v \in Exporters : exporter'[v] # NoWork =>
           /\ exporter[v] # NoWork /\ exporter'[v].for = exporter[v].for
           /\ exporter'[v].row = exporter[v].row /\ exporter'[v].lease = exporter[v].lease
  BY <1>1, MovesOn DEF ExportStages
<1>3. /\ i \in ExportRuns /\ bundle[i] = "whole"
      /\ runRow[i] = [status |-> "RUNNING", for |-> exporter[w].for]
  BY <1>1 DEF OwnRow
<1>4. /\ runRow'[i] = [status |-> "SUCCEEDED", for |-> exporter[w].for]
      /\ \A j \in ExportRuns \ {i} : runRow'[j] = runRow[j]
      /\ runRow' \in [ExportRuns -> RowType]
  <2>1. exporter[w].for \in Exports
    BY <1>1 DEF WellTyped, Work
  <2>2. [runRow[i] EXCEPT !.status = "SUCCEEDED"] = [status |-> "SUCCEEDED", for |-> exporter[w].for]
    BY <1>3
  <2>3. runRow' = [runRow EXCEPT ![i] = [status |-> "SUCCEEDED", for |-> exporter[w].for]]
    BY <2>2 DEF RecordExport, Record, Row
  <2>. QED BY <1>3, <2>1, <2>3 DEF WellTyped, RowType
<1>. HIDE DEF i
<1>5. WellTyped'
  BY <1>1, <1>2, <1>4 DEF WellTyped
<1>6. RowsInOrder'
  <2>1. Used' = Used
    BY <1>3, <1>4 DEF Used
  <2>. QED BY <2>1 DEF RowsInOrder
<1>7. OwnRow'
  <2>1. \A v \in Exporters \ {w} : exporter[v] # NoWork => exporter[v].row # i
    BY <1>1, <1>3, ExportAssumption DEF RowsApart, ExportRuns, i
  <2>2. SUFFICES ASSUME NEW v \in Exporters, exporter'[v] # NoWork
                 PROVE  /\ exporter'[v].do = "create" => exporter'[v].row = 0
                        /\ exporter'[v].do # "create" =>
                             /\ exporter'[v].row \in ExportRuns
                             /\ runRow'[exporter'[v].row] =
                                  [status |-> IF exporter'[v].do = "complete" THEN "SUCCEEDED" ELSE "RUNNING",
                                   for |-> exporter'[v].for]
                        /\ exporter'[v].do = "record" => bundle[exporter'[v].row] = "whole"
    BY <1>1 DEF OwnRow
  <2>3. CASE v = w
    BY <1>1, <1>2, <1>3, <1>4, <2>3 DEF i
  <2>4. CASE v # w
    BY <1>2, <1>4, <2>1, <2>2, <2>4 DEF OwnRow
  <2>. QED BY <2>3, <2>4
<1>8. RowsApart' /\ Leased' /\ TriesLeft'
  BY <1>1, <1>2, ApartKept, LeasesKept DEF TriesLeft
<1>9. \A j \in ExportRuns : Orphan(j)' => Orphan(j)
  BY <1>2, <1>3, <1>4 DEF Orphan
<1>10. LeftByFaults'
  BY <1>1, <1>9, NoneLeft DEF WellTyped
<1>11. ExportIsSound'
  BY <1>1, <1>3, <1>4 DEF ExportIsSound, DownloadIsWhole, DoneIsDownloadable, FileOf
<1>. QED BY <1>5, <1>6, <1>7, <1>8, <1>10, <1>11

\* A worker that lets go of its job, settled or not, and maybe goes on without the lease.
LeavesJob(w, j) ==
  /\ exportJob' = IF exporter[w].lease THEN [exportJob EXCEPT ![exporter[w].for] = j] ELSE exportJob
  /\ Stop(w) \/ exporter' = [exporter EXCEPT ![w].lease = FALSE]

\* Whatever becomes of the job, the other leases are on other jobs.
LEMMA LetsGo ==
  ASSUME ExportInv, NEW w \in Exporters, exporter[w] # NoWork,
         NEW j \in {"queued", "done", "dead"}, LeavesJob(w, j)
  PROVE  /\ exporter' \in [Exporters -> Work \cup {NoWork}]
         /\ exportJob' \in [Exports -> {"none", "queued", "held", "done", "dead"}]
         /\ \A v \in Exporters \ {w} : exporter'[v] = exporter[v]
         /\ exporter'[w] # NoWork =>
              /\ exporter'[w].for = exporter[w].for /\ exporter'[w].row = exporter[w].row
              /\ exporter'[w].do = exporter[w].do /\ ~exporter'[w].lease
         /\ RowsApart' /\ Leased'
<1>. USE DEF ExportInv
<1>1. exporter[w] \in Work
  BY DEF WellTyped
<1>2. [exporter[w] EXCEPT !.lease = FALSE] \in Work
  BY <1>1 DEF Work
<1>3. /\ exporter' \in [Exporters -> Work \cup {NoWork}]
      /\ exportJob' \in [Exports -> {"none", "queued", "held", "done", "dead"}]
      /\ \A v \in Exporters \ {w} : exporter'[v] = exporter[v]
  <2>1. PICK x \in Work \cup {NoWork} : exporter' = [exporter EXCEPT ![w] = x]
    <3>1. CASE Stop(w)
      BY <3>1 DEF Stop
    <3>2. CASE exporter' = [exporter EXCEPT ![w].lease = FALSE]
      BY <1>2, <3>2
    <3>. QED BY <3>1, <3>2 DEF LeavesJob
  <2>2. exporter' \in [Exporters -> Work \cup {NoWork}]
        /\ \A v \in Exporters \ {w} : exporter'[v] = exporter[v]
    BY <2>1 DEF WellTyped
  <2>3. exportJob \in [Exports -> {"none", "queued", "held", "done", "dead"}]
        /\ exporter[w].for \in Exports
    BY <1>1 DEF WellTyped, Work
  <2>4. CASE exporter[w].lease
    <3>1. exportJob' = [exportJob EXCEPT ![exporter[w].for] = j]
      BY <2>4 DEF LeavesJob
    <3>. QED BY <2>2, <2>3, <3>1
  <2>5. CASE ~exporter[w].lease
    BY <2>2, <2>3, <2>5 DEF LeavesJob
  <2>. QED BY <2>4, <2>5
<1>4. exporter'[w] # NoWork =>
        /\ exporter'[w].for = exporter[w].for /\ exporter'[w].row = exporter[w].row
        /\ exporter'[w].do = exporter[w].do /\ ~exporter'[w].lease
  BY <1>1 DEF LeavesJob, Stop, WellTyped, Work
<1>5. RowsApart'
  BY <1>3, <1>4, ApartKept
<1>6. Leased'
  <2>1. SUFFICES ASSUME NEW v \in Exporters, exporter'[v] # NoWork, exporter'[v].lease
                 PROVE  /\ exportJob'[exporter'[v].for] = "held"
                        /\ \A u \in Exporters : u # v /\ exporter'[u] # NoWork /\ exporter'[u].for = exporter'[v].for
                             => ~exporter'[u].lease
    BY DEF Leased
  <2>2. v # w /\ exporter'[v] = exporter[v] /\ exporter[v].for \in Exports
    BY <1>3, <1>4, <2>1 DEF WellTyped, Work
  <2>3. exportJob[exporter[v].for] = "held"
    BY <2>1, <2>2 DEF Leased
  <2>4. exporter[w].lease => exporter[v].for # exporter[w].for
    BY <2>1, <2>2 DEF Leased
  <2>5. exportJob'[exporter[v].for] = "held"
    BY <2>2, <2>3, <2>4 DEF LeavesJob, WellTyped
  <2>6. \A u \in Exporters : u # v /\ exporter'[u] # NoWork /\ exporter'[u].for = exporter[v].for
          => ~exporter'[u].lease
    BY <1>3, <1>4, <2>1, <2>2 DEF Leased
  <2>. QED BY <2>2, <2>5, <2>6
<1>. QED BY <1>3, <1>4, <1>5, <1>6

\* The rows of the others are as they were.
LEMMA OwnRowKept ==
  ASSUME ExportInv, NEW w \in Exporters, UNCHANGED bundle,
         \A v \in Exporters \ {w} : exporter'[v] = exporter[v],
         exporter'[w] = NoWork,
         exporter[w] # NoWork,
         \A i \in ExportRuns : i # exporter[w].row => runRow'[i] = runRow[i]
  PROVE  OwnRow'
<1>. USE DEF ExportInv
<1>1. SUFFICES ASSUME NEW v \in Exporters, exporter'[v] # NoWork
               PROVE  /\ exporter'[v].do = "create" => exporter'[v].row = 0
                      /\ exporter'[v].do # "create" =>
                           /\ exporter'[v].row \in ExportRuns
                           /\ runRow'[exporter'[v].row] =
                                [status |-> IF exporter'[v].do = "complete" THEN "SUCCEEDED" ELSE "RUNNING",
                                 for |-> exporter'[v].for]
                      /\ exporter'[v].do = "record" => bundle[exporter'[v].row] = "whole"
  BY DEF OwnRow
<1>2. v # w /\ exporter'[v] = exporter[v]
  BY <1>1
<1>3. CASE exporter[v].do = "create"
  <2>1. exporter[v].row = 0
    BY <1>1, <1>2, <1>3 DEF OwnRow
  <2>. QED BY <1>2, <1>3, <2>1
<1>4. CASE exporter[v].do # "create"
  <2>1. exporter[v].row \in ExportRuns
    BY <1>1, <1>2, <1>4 DEF OwnRow
  <2>2. exporter[v].row # 0
    BY <2>1, ExportAssumption DEF ExportRuns
  <2>3. exporter[v].row # exporter[w].row
    BY <1>1, <1>2, <2>2 DEF RowsApart
  <2>4. runRow'[exporter[v].row] = runRow[exporter[v].row]
    BY <2>1, <2>3
  <2>. QED BY <1>1, <1>2, <1>4, <2>1, <2>4 DEF OwnRow
<1>. QED BY <1>3, <1>4

\* The job is done, if the worker still holds it; its bundle is there.
LEMMA CompleteExportStep ==
  ASSUME ExportInv, NEW w \in Exporters, CompleteExport(w) PROVE ExportInv'
<1>. USE DEF ExportInv
<1>1. /\ exporter[w] # NoWork /\ exporter[w].do = "complete" /\ LeavesJob(w, "done")
      /\ exporter'[w] = NoWork
      /\ UNCHANGED <<request, tries, runRow, bundle, exportFaults>>
  BY DEF CompleteExport, Working, LeavesJob, Settles, Stop, WellTyped
<1>2. /\ exporter' \in [Exporters -> Work \cup {NoWork}]
      /\ exportJob' \in [Exports -> {"none", "queued", "held", "done", "dead"}]
      /\ \A v \in Exporters \ {w} : exporter'[v] = exporter[v]
      /\ RowsApart' /\ Leased'
  BY <1>1, LetsGo
<1>3. /\ exporter[w].row \in ExportRuns
      /\ runRow[exporter[w].row] = [status |-> "SUCCEEDED", for |-> exporter[w].for]
  BY <1>1 DEF OwnRow
<1>4. WellTyped' /\ RowsInOrder' /\ OwnRow'
  <2>1. OwnRow'
    BY <1>1, <1>2, OwnRowKept
  <2>. QED BY <1>1, <1>2, <2>1 DEF WellTyped, RowsInOrder, Used
<1>5. \A e \in Exports : exportJob'[e] = exportJob[e]
                         \/ (e = exporter[w].for /\ exportJob'[e] = "done" /\ exportJob[e] = "held")
  <2>1. CASE exporter[w].lease
    <3>1. exportJob' = [exportJob EXCEPT ![exporter[w].for] = "done"]
      BY <1>1, <2>1 DEF LeavesJob
    <3>2. exportJob[exporter[w].for] = "held"
      BY <1>1, <2>1 DEF Leased
    <3>3. exportJob \in [Exports -> {"none", "queued", "held", "done", "dead"}]
      BY DEF WellTyped
    <3>. QED BY <3>1, <3>2, <3>3
  <2>2. CASE ~exporter[w].lease
    BY <1>1, <2>2 DEF LeavesJob
  <2>. QED BY <2>1, <2>2
<1>6. TriesLeft'
  BY <1>1, <1>5 DEF TriesLeft
<1>7. \A i \in ExportRuns : Orphan(i)' => Orphan(i)
  BY <1>1, <1>2, <1>3 DEF Orphan
<1>8. LeftByFaults'
  BY <1>1, <1>7, NoneLeft DEF WellTyped
<1>9. ExportIsSound'
  BY <1>1, <1>3, <1>5 DEF ExportIsSound, DownloadIsWhole, DoneIsDownloadable, FileOf
<1>. QED BY <1>2, <1>4, <1>6, <1>8, <1>9

\* A failure is recorded and counted, by the holder: the job is tried again or dead.
LEMMA ExportFailsStep == ASSUME ExportInv, NEW w \in Exporters, ExportFails(w) PROVE ExportInv'
<1>. USE DEF ExportInv
<1>. DEFINE i == exporter[w].row
            e == exporter[w].for
<1>1. /\ exporter[w] # NoWork /\ exporter[w].do \in {"create", "open", "write", "record"}
      /\ exporter[w] \in Work /\ e \in Exports
  BY DEF ExportFails, Working, WellTyped, Work
<1>2. PICK j \in {"queued", "dead"} :
        /\ j = JobAfterFailure(e) /\ LeavesJob(w, j) /\ exporter'[w] = NoWork
  BY <1>1 DEF ExportFails, JobAfterFailure, Settles, LeavesJob, Stop, WellTyped
<1>3. /\ exporter' \in [Exporters -> Work \cup {NoWork}]
      /\ exportJob' \in [Exports -> {"none", "queued", "held", "done", "dead"}]
      /\ \A v \in Exporters \ {w} : exporter'[v] = exporter[v]
      /\ RowsApart' /\ Leased'
  BY <1>1, <1>2, LetsGo
<1>4. /\ exporter[w].do = "create" => runRow' = runRow
      /\ exporter[w].do # "create" =>
           /\ i \in ExportRuns /\ runRow[i] = [status |-> "RUNNING", for |-> e]
           /\ runRow' = [runRow EXCEPT ![i].status = "FAILED"]
  <2>1. exporter[w].do # "create" => i \in ExportRuns /\ runRow[i] = [status |-> "RUNNING", for |-> e]
    BY <1>1 DEF OwnRow
  <2>. QED BY <1>1, <2>1 DEF ExportFails, Working, Record, Row
<1>5. /\ runRow' \in [ExportRuns -> RowType]
      /\ \A k \in ExportRuns :
           \/ runRow'[k] = runRow[k]
           \/ /\ k = i /\ runRow[k] = [status |-> "RUNNING", for |-> e]
              /\ runRow'[k] = [status |-> "FAILED", for |-> e]
  <2>1. CASE exporter[w].do = "create"
    BY <1>4, <2>1 DEF WellTyped
  <2>2. CASE exporter[w].do # "create"
    <3>1. [runRow[i] EXCEPT !.status = "FAILED"] = [status |-> "FAILED", for |-> e]
      BY <1>4, <2>2
    <3>2. runRow' = [runRow EXCEPT ![i] = [status |-> "FAILED", for |-> e]]
      BY <1>4, <2>2, <3>1
    <3>. QED BY <1>1, <1>4, <2>2, <3>2 DEF WellTyped, RowType
  <2>. QED BY <2>1, <2>2
<1>6. /\ exportFaults' = exportFaults + 1 /\ exportFaults' \in 0..MaxExportFaults
      /\ UNCHANGED <<request, bundle>>
  BY ExportAssumption DEF ExportFails, WellTyped
<1>7. /\ \A d \in Exports : d # e \/ ~exporter[w].lease =>
           exportJob'[d] = exportJob[d] /\ tries'[d] = tries[d]
      /\ exporter[w].lease =>
           /\ exportJob[e] = "held" /\ exportJob'[e] = j /\ tries'[e] = tries[e] + 1
           /\ tries[e] < MaxTries
  BY <1>1, <1>2 DEF ExportFails, Settles, LeavesJob, WellTyped, Leased, TriesLeft
<1>8. tries' \in [Exports -> 0..MaxTries]
  <2>1. tries[e] \in 0..MaxTries
    BY <1>1 DEF WellTyped
  <2>2. CASE exporter[w].lease
    <3>1. tries' = [tries EXCEPT ![e] = @ + 1] /\ tries[e] + 1 \in 0..MaxTries
      BY <1>7, <2>1, <2>2, ExportAssumption DEF ExportFails, Settles
    <3>. QED BY <3>1 DEF WellTyped
  <2>3. CASE ~exporter[w].lease
    BY <2>3 DEF ExportFails, Settles, WellTyped
  <2>. QED BY <2>2, <2>3
<1>. HIDE DEF i, e
<1>9. WellTyped' /\ RowsInOrder' /\ OwnRow'
  <2>1. OwnRow'
    BY <1>1, <1>2, <1>3, <1>5, <1>6, OwnRowKept DEF i
  <2>2. Used' = Used
    BY <1>5 DEF Used
  <2>3. WellTyped'
    BY <1>3, <1>5, <1>6, <1>8 DEF WellTyped
  <2>. QED BY <2>1, <2>2, <2>3 DEF RowsInOrder
<1>10. e \in Exports /\ tries[e] \in 0..MaxTries /\ MaxTries \in Nat /\ j = JobAfterFailure(e)
  BY <1>1, <1>2, ExportAssumption DEF e, WellTyped
<1>11. /\ j = "queued" => tries[e] + 1 < MaxTries
       /\ j = "dead" /\ tries[e] < MaxTries => tries[e] + 1 = MaxTries
  BY <1>10 DEF JobAfterFailure
<1>12. TriesLeft'
  BY <1>6, <1>7, <1>10, <1>11 DEF TriesLeft
<1>13. \A k \in ExportRuns : Orphan(k)' => Orphan(k)
  <2>1. SUFFICES ASSUME NEW k \in ExportRuns, Orphan(k)' PROVE Orphan(k)
    OBVIOUS
  <2>2. runRow'[k] = runRow[k] /\ runRow[k].status = "RUNNING"
    BY <1>5, <2>1 DEF Orphan
  <2>3. k # i
    <3>1. CASE exporter[w].do = "create"
      <4>1. i = 0
        BY <1>1, <3>1 DEF OwnRow, i
      <4>2. k # 0
        BY ExportAssumption DEF ExportRuns
      <4>. QED BY <4>1, <4>2
    <3>2. CASE exporter[w].do # "create"
      BY <1>4, <1>5, <2>2, <3>2 DEF WellTyped
    <3>. QED BY <3>1, <3>2
  <2>. QED BY <1>3, <2>1, <2>2, <2>3 DEF Orphan, i
<1>14. LeftByFaults'
  BY <1>6, <1>13, NoneLeft DEF WellTyped
<1>15. ExportIsSound'
  <2>1. DownloadIsWhole'
    BY <1>5, <1>6 DEF ExportIsSound, DownloadIsWhole, FileOf
  <2>2. \A d \in Exports : (\E k \in ExportRuns : runRow[k] = [status |-> "SUCCEEDED", for |-> d])
          => \E k \in ExportRuns : runRow'[k] = [status |-> "SUCCEEDED", for |-> d]
    BY <1>5
  <2>3. DoneIsDownloadable'
    BY <1>7, <1>10, <1>11, <2>2 DEF ExportIsSound, DoneIsDownloadable
  <2>. QED BY <2>1, <2>3 DEF ExportIsSound
<1>. QED BY <1>3, <1>9, <1>12, <1>14, <1>15

\* The job of a worker that dies or loses its lease is queued again.
LEMMA QueuedAgain ==
  ASSUME ExportInv, NEW w \in Exporters, exporter[w] # NoWork, LeavesJob(w, "queued"),
         UNCHANGED <<request, tries>>
  PROVE  /\ \A e \in Exports : exportJob'[e] = exportJob[e]
                               \/ (exportJob'[e] = "queued" /\ exportJob[e] = "held")
         /\ TriesLeft'
<1>. USE DEF ExportInv
<1>1. \A e \in Exports : exportJob'[e] = exportJob[e]
                         \/ (exportJob'[e] = "queued" /\ exportJob[e] = "held")
  <2>1. CASE exporter[w].lease
    <3>1. exportJob' = [exportJob EXCEPT ![exporter[w].for] = "queued"]
      BY <2>1 DEF LeavesJob
    <3>2. exportJob[exporter[w].for] = "held"
      BY <2>1 DEF Leased
    <3>3. exportJob \in [Exports -> {"none", "queued", "held", "done", "dead"}]
      BY DEF WellTyped
    <3>. QED BY <3>1, <3>2, <3>3
  <2>2. CASE ~exporter[w].lease
    BY <2>2 DEF LeavesJob
  <2>. QED BY <2>1, <2>2
<1>2. TriesLeft'
  BY <1>1 DEF TriesLeft
<1>. QED BY <1>1, <1>2

\* A worker that dies leaves at most its own row RUNNING.
LEMMA ExporterDiesStep == ASSUME ExportInv, NEW w \in Exporters, ExporterDies(w) PROVE ExportInv'
<1>. USE DEF ExportInv
<1>1. /\ exporter[w] # NoWork /\ LeavesJob(w, "queued") /\ exporter'[w] = NoWork
      /\ exportFaults' = exportFaults + 1 /\ exportFaults' \in 0..MaxExportFaults
      /\ UNCHANGED <<request, tries, runRow, bundle>>
  BY ExportAssumption DEF ExporterDies, LeavesJob, Stop, WellTyped
<1>2. /\ exporter' \in [Exporters -> Work \cup {NoWork}]
      /\ exportJob' \in [Exports -> {"none", "queued", "held", "done", "dead"}]
      /\ \A v \in Exporters \ {w} : exporter'[v] = exporter[v]
      /\ RowsApart' /\ Leased'
  BY <1>1, LetsGo
<1>3. /\ \A e \in Exports : exportJob'[e] = exportJob[e]
                            \/ (exportJob'[e] = "queued" /\ exportJob[e] = "held")
      /\ TriesLeft'
  BY <1>1, QueuedAgain
<1>4. OwnRow'
  BY <1>1, <1>2, OwnRowKept
<1>5. WellTyped' /\ RowsInOrder'
  BY <1>1, <1>2 DEF WellTyped, RowsInOrder, Used
<1>6. LeftByFaults'
  <2>1. Orphans' \subseteq Orphans \cup {exporter[w].row}
    BY <1>1, <1>2 DEF Orphans, Orphan
  <2>2. IsFiniteSet(Orphans) /\ Cardinality(Orphans) \in Nat
    BY RowsFinite DEF Orphans
  <2>3. /\ IsFiniteSet(Orphans \cup {exporter[w].row})
        /\ Cardinality(Orphans \cup {exporter[w].row}) <= Cardinality(Orphans) + 1
    <3>1. Cardinality(Orphans \cup {exporter[w].row})
            = IF exporter[w].row \in Orphans THEN Cardinality(Orphans) ELSE Cardinality(Orphans) + 1
      BY <2>2, FS_AddElement
    <3>2. IsFiniteSet(Orphans \cup {exporter[w].row})
      BY <2>2, FS_AddElement
    <3>. QED BY <2>2, <3>1, <3>2
  <2>4. /\ Cardinality(Orphans') <= Cardinality(Orphans \cup {exporter[w].row})
        /\ Cardinality(Orphans') \in Nat /\ Cardinality(Orphans \cup {exporter[w].row}) \in Nat
    BY <2>1, <2>3, FS_Subset, FS_CardinalityType
  <2>. QED BY <1>1, <2>2, <2>3, <2>4 DEF LeftByFaults, WellTyped
<1>7. ExportIsSound'
  BY <1>1, <1>3 DEF ExportIsSound, DownloadIsWhole, DoneIsDownloadable, FileOf
<1>. QED BY <1>2, <1>3, <1>4, <1>5, <1>6, <1>7

\* One that loses its lease goes on with its own row.
LEMMA LeaseLostStep == ASSUME ExportInv, NEW w \in Exporters, LeaseLost(w) PROVE ExportInv'
<1>. USE DEF ExportInv
<1>1. /\ exporter[w] # NoWork /\ LeavesJob(w, "queued")
      /\ exporter' = [exporter EXCEPT ![w].lease = FALSE]
      /\ exportFaults' = exportFaults + 1 /\ exportFaults' \in 0..MaxExportFaults
      /\ UNCHANGED <<request, tries, runRow, bundle>>
  BY ExportAssumption DEF LeaseLost, LeavesJob, WellTyped
<1>2. /\ exporter' \in [Exporters -> Work \cup {NoWork}]
      /\ exportJob' \in [Exports -> {"none", "queued", "held", "done", "dead"}]
      /\ \A v \in Exporters \ {w} : exporter'[v] = exporter[v]
      /\ exporter'[w] # NoWork =>
           /\ exporter'[w].for = exporter[w].for /\ exporter'[w].row = exporter[w].row
           /\ exporter'[w].do = exporter[w].do /\ ~exporter'[w].lease
      /\ RowsApart' /\ Leased'
  BY <1>1, LetsGo
<1>3. /\ \A e \in Exports : exportJob'[e] = exportJob[e]
                            \/ (exportJob'[e] = "queued" /\ exportJob[e] = "held")
      /\ TriesLeft'
  BY <1>1, QueuedAgain
<1>4. exporter'[w] # NoWork
  <2>1. exporter[w] \in Work
    BY <1>1 DEF WellTyped
  <2>2. exporter'[w] = [exporter[w] EXCEPT !.lease = FALSE]
    BY <1>1 DEF WellTyped
  <2>3. [exporter[w] EXCEPT !.lease = FALSE] \in Work
    BY <2>1 DEF Work
  <2>. QED BY <2>2, <2>3, ExportAssumption DEF Work
<1>5. \A v \in Exporters : exporter'[v] # NoWork =>
        /\ exporter[v] # NoWork /\ exporter'[v].for = exporter[v].for
        /\ exporter'[v].row = exporter[v].row /\ exporter'[v].do = exporter[v].do
  BY <1>1, <1>2
<1>6. OwnRow'
  BY <1>1, <1>5 DEF OwnRow
<1>7. WellTyped' /\ RowsInOrder'
  BY <1>1, <1>2 DEF WellTyped, RowsInOrder, Used
<1>8. \A i \in ExportRuns : Orphan(i)' => Orphan(i)
  BY <1>1, <1>2, <1>4 DEF Orphan
<1>9. LeftByFaults'
  BY <1>1, <1>8, NoneLeft DEF WellTyped
<1>10. ExportIsSound'
  BY <1>1, <1>3 DEF ExportIsSound, DownloadIsWhole, DoneIsDownloadable, FileOf
<1>. QED BY <1>2, <1>3, <1>6, <1>7, <1>9, <1>10

\* Every step keeps the inductive invariant.
LEMMA ExportNextInvariant == ExportInv /\ [ExportStep]_exportVars => ExportInv'
<1>. SUFFICES ASSUME ExportInv, [ExportStep]_exportVars PROVE ExportInv'
  OBVIOUS
<1>1. CASE UNCHANGED exportVars
  BY <1>1 DEF exportVars, ExportInv, WellTyped, RowsInOrder, Used, OwnRow, RowsApart, Leased, TriesLeft,
              LeftByFaults, Orphans, Orphan, ExportIsSound, DownloadIsWhole, DoneIsDownloadable, FileOf
<1>2. ASSUME NEW e \in Exports, Trigger(e) \/ Audit(e) PROVE ExportInv'
  BY <1>2, TriggerStep, AuditStep
<1>3. ASSUME NEW w \in Exporters, NEW e \in Exports, TakeJob(w, e) PROVE ExportInv'
  BY <1>3, TakeJobStep
<1>4. ASSUME NEW w \in Exporters, CreateExport(w) PROVE ExportInv'
  BY <1>4, CreateExportStep
<1>5. ASSUME NEW w \in Exporters, OpenFile(w) \/ WriteFile(w) PROVE ExportInv'
  BY <1>5, FileStep
<1>6. ASSUME NEW w \in Exporters, RecordExport(w) \/ CompleteExport(w) PROVE ExportInv'
  BY <1>6, RecordExportStep, CompleteExportStep
<1>7. ASSUME NEW w \in Exporters, ExportFails(w) \/ ExporterDies(w) \/ LeaseLost(w) PROVE ExportInv'
  BY <1>7, ExportFailsStep, ExporterDiesStep, LeaseLostStep
<1>. QED BY <1>1, <1>2, <1>3, <1>4, <1>5, <1>6, <1>7 DEF ExportStep, ExporterGoesOn

-------------------------------------------------------------------------------
\* Rows, files, jobs and workers stay well-formed, and no more rows are left RUNNING than
\* there were failures, crashes and lost leases (runBackgroundExport).
THEOREM ExportIsTyped == ExportSpec => []ExportTypeOK
<1>1. ExportInit => ExportInv
  BY ExportInitInvariant
<1>2. ExportInv /\ [ExportStep]_exportVars => ExportInv'
  BY ExportNextInvariant
<1>3. ExportInv => ExportTypeOK
  BY InvIsTyped
<1>. QED BY <1>1, <1>2, <1>3, PTL DEF ExportSpec

\* However many workers write exports at once, and whichever of them fail, die or lose
\* their lease: what can be downloaded is whole, a job that says done has its bundle, and a
\* dead one used up its attempts.
THEOREM ExportsAreSound == ExportSpec => []ExportIsSound
<1>1. ExportInit => ExportInv
  BY ExportInitInvariant
<1>2. ExportInv /\ [ExportStep]_exportVars => ExportInv'
  BY ExportNextInvariant
<1>3. ExportInv => ExportIsSound
  BY DEF ExportInv
<1>. QED BY <1>1, <1>2, <1>3, PTL DEF ExportSpec

-------------------------------------------------------------------------------
(***************************************************************************)
(* The whole service: a step of one component leaves the others as they    *)
(* are.                                                                    *)
(***************************************************************************)

ServingInv == CommerceInv /\ ExportInv /\ HttpInv /\ ConfigInv /\ ConfigTypeOK

LEMMA ServingStep ==
  ASSUME [ServingNext]_servingVars
  PROVE  /\ [CommerceNext]_commerceVars /\ [ExportStep]_exportVars
         /\ [HttpStep]_httpVars /\ [ConfigStep]_configVars
<1>1. CASE UNCHANGED servingVars
  BY <1>1 DEF servingVars
<1>2. CASE ServingNext
  BY <1>2 DEF ServingNext
<1>. QED BY <1>1, <1>2

LEMMA ServingInvariant == ServingSpec => []ServingInv
<1>1. ServingInit => ServingInv
  BY CommerceStart, ExportInitInvariant, HttpInitInvariant, ConfigInitInvariant, ConfigStartsTyped
  DEF ServingInit, ServingInv
<1>2. ServingInv /\ [ServingNext]_servingVars => ServingInv'
  BY ServingStep, CommerceStep, ExportNextInvariant, HttpNextInvariant, ConfigNextInvariant,
     ConfigStaysTyped DEF ServingInv
<1>. QED BY <1>1, <1>2, PTL DEF ServingSpec

\* Every component of the service keeps to its types: among them that every request is under
\* way, cut off or counted once, that no more exports are left RUNNING than there were faults,
\* and that a process runs only with a database (server.ts, runBackgroundExport, env.ts).
THEOREM ServingIsTyped == ServingSpec => []ServingTypeOK
<1>1. ServingInv => ServingTypeOK
  BY CommerceSays, InvIsTyped DEF ServingInv, HttpInv, ServingTypeOK
<1>. QED BY <1>1, ServingInvariant, PTL

\* However grants, exports, requests and boots interleave: no workspace begins more runs in a
\* window than its limit, one signal cuts off no request that waits for its answer, and a
\* process that came up never finds its configuration wanting.
THEOREM ServiceAlwaysHolds == ServingSpec => []ServiceHolds
<1>1. ServingInv => ServiceHolds
  BY DEF ServingInv, HttpInv, ConfigInv, ServiceHolds
<1>. QED BY <1>1, ServingInvariant, PTL
===============================================================================
