------------------------------ MODULE HttpServer ------------------------------
(***************************************************************************)
(* One API process (src/backend/src/server.ts, app.ts and the              *)
(* middlewares): requests pass the rate limits and are handled; a request  *)
(* that takes too long is answered 503 while its handler goes on, and so   *)
(* does the handler of a client that has gone; a signal, or a failure      *)
(* nobody caught, shuts the server down.                                   *)
(***************************************************************************)
EXTENDS Integers, FiniteSets

CONSTANTS
  Slots,         \* requests under way at once
  Users, Addresses, Tenants,
  AddressOf, TenantOf,  \* of each user: the client address, the workspace of the token
  Idle,
  MaxRequests,   \* RATE_LIMIT_MAX_REQUESTS
  MaxExecutions, \* WORKFLOW_RATE_LIMIT_MAX_EXECUTIONS
  MaxSent        \* bound: requests sent

HttpOps == {"webhook", "read", "run"}
Stages == {"handled", "late", "left"}

ASSUME HttpAssumption ==
  /\ AddressOf \in [Users -> Addresses] /\ TenantOf \in [Users -> Tenants]
  /\ MaxRequests \in Nat /\ MaxExecutions \in Nat /\ MaxSent \in Nat
  /\ IsFiniteSet(Slots) /\ Idle \notin [user : Users, op : HttpOps, stage : Stages]

VARIABLES
  server,     \* "up", "closing" or "gone"
  connection, \* each: who asked, for what, and "handled" or, answered 503, "late" or,
              \* without its client, "left"
  hits,       \* requests of each address in its window
  starts,     \* workflow runs asked for, under each key of their limit, in its window
  begun,      \* workflow runs of each workspace that reached the handler in the window
  sent,       \* requests so far
  counted,    \* the metrics: requests answered, of them 4xx and 5xx
  abandoned,  \* requests whose client was gone before the answer
  signals,    \* shutdowns asked for
  cut         \* history: stages of the requests the exit cut off

limitVars == <<hits, starts, begun>>
httpVars == <<server, connection, limitVars, sent, counted, abandoned, signals, cut>>

Busy == {s \in Slots : connection[s] # Idle}
At(s, stage) == connection[s] # Idle /\ connection[s].stage = stage
Handled == {s \in Slots : At(s, "handled")}

\* Type invariant; every request sent is under way, cut, counted or abandoned, and once.
HttpTypeOK ==
  /\ server \in {"up", "closing", "gone"}
  /\ connection \in [Slots -> [user : Users, op : HttpOps, stage : Stages] \cup {Idle}]
  /\ hits \in [Addresses -> 0..MaxRequests + 1]
  /\ starts \in [Tenants \cup Users -> 0..MaxExecutions + 1] /\ begun \in [Tenants -> Nat]
  /\ sent \in 0..MaxSent /\ signals \in 0..2 /\ cut \subseteq Stages
  /\ counted.bad + counted.failed <= counted.all /\ abandoned \in Nat
  /\ "handled" \notin cut => counted.all + abandoned + Cardinality(Handled) = sent

HttpInit ==
  /\ server = "up" /\ connection = [s \in Slots |-> Idle]
  /\ hits = [a \in Addresses |-> 0]
  /\ starts = [k \in Tenants \cup Users |-> 0] /\ begun = [t \in Tenants |-> 0]
  /\ sent = 0 /\ counted = [all |-> 0, bad |-> 0, failed |-> 0]
  /\ abandoned = 0 /\ signals = 0 /\ cut = {}

-------------------------------------------------------------------------------
\* Faulty variants: runs limited by who calls; no timeout; an exit that waits for nobody; a
\* late handler counted again.
KeyedByUser(u) == u
NeverTimesOut(s) == FALSE
ExitsAtOnce == TRUE
CountsAgain(c, s) == [c EXCEPT !.all = @ + 1]

\* express-rate-limit: the n-th request of a window passes.
Passes(n, limit) == n < limit

\* The keys of generalRateLimit, which comes before anybody is authenticated, and of
\* workflowExecutionRateLimit.
RequestKey(u) == AddressOf[u]
RunKey(u) == TenantOf[u]

\* setTimeout: the response has not started yet.
MayTimeOut(s) == At(s, "handled")

\* server.close calls back when no request is left unanswered.
MayExit == Handled = {}

\* res.on('finish'): the metrics count what was answered; an answer that comes after the
\* 503 throws instead and is not counted.
AfterLate(c, s) == c

\* recordHttpRequest.
Count(kind) ==
  [all |-> counted.all + 1,
   bad |-> counted.bad + (IF kind = "bad" THEN 1 ELSE 0),
   failed |-> counted.failed + (IF kind = "failed" THEN 1 ELSE 0)]

AtMost(n, limit) == IF n > limit THEN limit ELSE n
Left(T) ==
  [t \in Slots |-> IF t \in T THEN [connection[t] EXCEPT !.stage = "left"] ELSE connection[t]]
Handle(s, u, op) == connection' = [connection EXCEPT ![s] = [user |-> u, op |-> op, stage |-> "handled"]]

-------------------------------------------------------------------------------
\* The provider's events are mounted before the limits.
Event(s, u) ==
  /\ server = "up" /\ connection[s] = Idle /\ sent < MaxSent
  /\ sent' = sent + 1
  /\ Handle(s, u, "webhook")
  /\ UNCHANGED <<server, limitVars, counted, abandoned, signals, cut>>

TooMany(u) == ~Passes(hits[RequestKey(u)], MaxRequests)
TooManyRuns(u) == ~Passes(starts[RunKey(u)], MaxExecutions)

\* 429, 401 or 404: no handler runs. The limit of runs comes after authentication. The
\* client may be gone by then.
Reject(u, op) ==
  /\ server = "up" /\ sent < MaxSent
  /\ sent' = sent + 1
  /\ hits' = [hits EXCEPT ![RequestKey(u)] = AtMost(@ + 1, MaxRequests + 1)]
  /\ starts' = IF op = "run" /\ ~TooMany(u) /\ TooManyRuns(u)
               THEN [starts EXCEPT ![RunKey(u)] = AtMost(@ + 1, MaxExecutions + 1)] ELSE starts
  /\ \/ counted' = Count("bad") /\ UNCHANGED abandoned
     \/ abandoned' = abandoned + 1 /\ UNCHANGED counted
  /\ UNCHANGED <<server, connection, begun, signals, cut>>

Accept(s, u, op) ==
  /\ server = "up" /\ connection[s] = Idle /\ sent < MaxSent
  /\ ~TooMany(u) /\ (op = "run" => ~TooManyRuns(u))
  /\ sent' = sent + 1
  /\ hits' = [hits EXCEPT ![RequestKey(u)] = @ + 1]
  /\ IF op = "run" THEN /\ starts' = [starts EXCEPT ![RunKey(u)] = @ + 1]
                        /\ begun' = [begun EXCEPT ![TenantOf[u]] = @ + 1]
     ELSE UNCHANGED <<starts, begun>>
  /\ Handle(s, u, op)
  /\ UNCHANGED <<server, counted, abandoned, signals, cut>>

\* The handler answers, or throws and errorHandler does.
Finish(s) ==
  /\ At(s, "handled")
  /\ \E kind \in {"good", "bad", "failed"} : counted' = Count(kind)
  /\ connection' = [connection EXCEPT ![s] = Idle]
  /\ UNCHANGED <<server, limitVars, sent, abandoned, signals, cut>>

\* requestTimeout answers 503; the handler cannot be stopped.
TimeOut(s) ==
  /\ MayTimeOut(s)
  /\ counted' = Count("failed")
  /\ connection' = [connection EXCEPT ![s].stage = "late"]
  /\ UNCHANGED <<server, limitVars, sent, abandoned, signals, cut>>

\* res.on('close'): the client is gone, the timer cleared, and nothing will be counted; the
\* handler goes on ...
ClientLeaves(s) ==
  /\ At(s, "handled")
  /\ connection' = Left({s}) /\ abandoned' = abandoned + 1
  /\ UNCHANGED <<server, limitVars, sent, counted, signals, cut>>

\* ... and its answer goes nowhere.
LeftEnd(s) ==
  /\ At(s, "left")
  /\ connection' = [connection EXCEPT ![s] = Idle]
  /\ UNCHANGED <<server, limitVars, sent, counted, abandoned, signals, cut>>

\* The answer after the 503 throws, errorHandler's too, and Express destroys the socket:
\* what the client has sent on it since may lose its answer.
LateEnd(s) ==
  /\ At(s, "late")
  /\ counted' = AfterLate(counted, s)
  /\ \E T \in SUBSET {t \in Handled : connection[t].user = connection[s].user} :
       /\ connection' = [Left(T) EXCEPT ![s] = Idle]
       /\ abandoned' = abandoned + Cardinality(T)
  /\ UNCHANGED <<server, limitVars, sent, signals, cut>>

\* A window ends.
Reset ==
  /\ \/ \E a \in Addresses : hits[a] > 0 /\ hits' = [hits EXCEPT ![a] = 0]
                             /\ UNCHANGED <<starts, begun>>
     \/ \E t \in Tenants : /\ starts[t] > 0
                           /\ starts' = [starts EXCEPT ![t] = 0]
                           /\ begun' = [begun EXCEPT ![t] = 0] /\ UNCHANGED hits
  /\ UNCHANGED <<server, connection, sent, counted, abandoned, signals, cut>>

\* shutdown: server.close, which rejects if the server is closing already; the process
\* then exits at once.
Signal ==
  /\ server # "gone" /\ signals < 2
  /\ signals' = signals + 1
  /\ IF server = "up" THEN server' = "closing" /\ UNCHANGED <<connection, cut>>
     ELSE /\ server' = "gone" /\ cut' = {connection[s].stage : s \in Busy}
          /\ connection' = [s \in Slots |-> Idle]
  /\ UNCHANGED <<limitVars, sent, counted, abandoned>>

\* closeServer is done: disconnect and exit, whatever late handlers are at.
Exit ==
  /\ server = "closing" /\ MayExit
  /\ server' = "gone" /\ cut' = {connection[s].stage : s \in Busy}
  /\ connection' = [s \in Slots |-> Idle]
  /\ UNCHANGED <<limitVars, sent, counted, abandoned, signals>>

-------------------------------------------------------------------------------
HttpStep ==
  \/ \E s \in Slots, u \in Users :
       Event(s, u) \/ \E op \in {"read", "run"} : Accept(s, u, op)
  \/ \E u \in Users, op \in {"read", "run"} : Reject(u, op)
  \/ \E s \in Slots : Finish(s) \/ TimeOut(s) \/ ClientLeaves(s) \/ LeftEnd(s) \/ LateEnd(s)
  \/ Reset \/ Signal \/ Exit

HttpSpec == HttpInit /\ [][HttpStep]_httpVars

\* Timers fire and close calls back; handlers may hang for ever.
HttpFairness == WF_httpVars(Exit) /\ \A s \in Slots : WF_httpVars(TimeOut(s))

HttpFairSpec == HttpSpec /\ HttpFairness

-------------------------------------------------------------------------------
\* "Should not be able to fire an unbounded burst of expensive workflow runs" (rate-
\* limit.ts, lines 53-63): whatever members and addresses the calls come from, a
\* workspace starts at most MaxExecutions runs in a window.
BurstBounded == \A t \in Tenants : begun[t] <= MaxExecutions

\* A graceful shutdown cuts off no request whose client still waits for its answer, unless a
\* second signal, or an uncaught failure during the shutdown, ends it.
NoAnswerIsCut == "handled" \in cut => signals = 2

\* What the middlewares and the shutdown owe the callers.
CallersAreServed == BurstBounded /\ NoAnswerIsCut

\* "Must not tie up a server connection forever" (request-timeout.ts, lines 3-10): a
\* shutdown ends though handlers hang.
ShutdownEnds == server = "closing" ~> server = "gone"
===============================================================================
