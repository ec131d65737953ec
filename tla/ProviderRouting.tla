---------------------------- MODULE ProviderRouting ----------------------------
(***************************************************************************)
(* The configured chain of provider endpoints in the daemon: routing a     *)
(* model request of a run to an endpoint, the endpoint's concurrency and   *)
(* request-rate ceilings, its process-lifetime health, and the retries of  *)
(* the run.  Several runs share the endpoints; a call the worker no longer *)
(* waits for keeps its slot until its thread ends.                         *)
(***************************************************************************)
EXTENDS Naturals, Sequences, FiniteSets

CONSTANTS
    Chain,            \* the endpoints, primary first: a sequence
    Adapter,          \* endpoint -> "anthropic", "responses" or "subscription"
    Serves(_, _),     \* Serves(e, r): the endpoint's capabilities meet the run's policy
    RtRuns,           \* runs
    MaximumConcurrentRequests,
    RequestsPerMinute,
    MaxMinute,        \* bound: minutes of the clock
    MaxRouteRetries,  \* retry budget of a run
    MaxRouteRestarts  \* bound: restarts of the daemon

Endpoints == {Chain[i] : i \in DOMAIN Chain}

ASSUME RoutingBounds ==
    /\ Chain \in Seq(Endpoints) /\ Len(Chain) > 0 /\ "none" \notin Endpoints
    /\ \A i, j \in DOMAIN Chain : Chain[i] = Chain[j] => i = j
    /\ MaxMinute \in Nat /\ MaxRouteRetries \in Nat
    /\ MaximumConcurrentRequests \in Nat \ {0} /\ RequestsPerMinute \in Nat \ {0}
    /\ \A e \in Endpoints : Adapter[e] \in {"anthropic", "responses", "subscription"}

VARIABLES
    pins,       \* run -> the owner's provider selection of its turn, or "none"
    minute,     \* the clock, in minutes
    health,     \* endpoint -> process-lifetime health
    inFlight,   \* endpoint -> in_flight
    window,     \* endpoint -> RateWindow
    calls,      \* provider threads: run, endpoint, step, the minute they read
    runs,       \* run -> what its worker is doing
    granted,    \* history: endpoint -> minute -> requests granted
    skewed,     \* history: a thread used a minute that had passed
    sick,       \* history: endpoints that were unhealthy at some time
    lost,       \* history: runs with a call whose outcome is unknown
    restarts

routingVars == <<pins, minute, health, inFlight, window, calls, runs, granted, skewed,
                 sick, lost, restarts>>

ReadyRun == [state |-> "ready", retries |-> 0, endpoint |-> "none", tried |-> <<>>]

RoutingInit ==
    /\ pins \in [RtRuns -> Endpoints \cup {"none"}]
    /\ minute = 0
    /\ health = [e \in Endpoints |-> "configured_unprobed"]
    /\ inFlight = [e \in Endpoints |-> 0]
    /\ window = [e \in Endpoints |-> [minute |-> 0, requests |-> 0]]
    /\ calls = {}
    /\ runs = [r \in RtRuns |-> ReadyRun]
    /\ granted = [e \in Endpoints |-> [m \in 0..MaxMinute |-> 0]]
    /\ skewed = FALSE /\ sick = {} /\ lost = {} /\ restarts = 0

-----------------------------------------------------------------------------
(***************************************************************************)
(* Routing, in prepare_next_model.                                         *)
(***************************************************************************)

\* route_candidates
Available(e) == health[e] # "unhealthy"

\* preferred_provider_ids: the chain rotated to the retry's ordinal.
Rotation(retries) ==
    LET k == IF retries < Len(Chain) THEN retries ELSE Len(Chain) - 1
    IN  [i \in DOMAIN Chain |->
            Chain[IF k + i <= Len(Chain) THEN k + i ELSE k + i - Len(Chain)]]

\* An owner-pinned run has that endpoint as its only candidate.
Candidates(r) ==
    {e \in Endpoints : pins[r] \in {"none", e}}

\* candidate_matches
CandidateMatches(e, r) == Available(e) /\ Serves(e, r)

\* route_provider: the first match in preference order, if there is one.
MatchesOf(r) ==
    {i \in DOMAIN Chain : LET e == Rotation(runs[r].retries)[i]
                         IN  e \in Candidates(r) /\ CandidateMatches(e, r)}

RouteProvider(r) ==
    {Rotation(runs[r].retries)[i] :
        i \in {j \in MatchesOf(r) : \A k \in MatchesOf(r) : j <= k}}

Prepared(run, e) ==
    [run EXCEPT !.state = "prepared", !.endpoint = e, !.tried = Append(@, e)]

PrepareModel(r) ==
    /\ runs[r].state = "ready"
    /\ \/ /\ RouteProvider(r) = {}
          /\ runs' = [runs EXCEPT ![r].state = "failed"]
       \/ \E e \in RouteProvider(r) : runs' = [runs EXCEPT ![r] = Prepared(@, e)]
    /\ UNCHANGED <<minute, health, inFlight, window, calls, granted, skewed, sick,
                   lost, restarts>>

-----------------------------------------------------------------------------
(***************************************************************************)
(* dispatch_bounded, in the provider thread.                               *)
(***************************************************************************)
Call(r, step, m) == [run |-> r, endpoint |-> runs[r].endpoint, step |-> step,
                     attempt |-> runs[r].retries, minute |-> m]

Outcome(class, known, retryable) ==
    [class |-> class, known |-> known, retryable |-> retryable]

Success == Outcome("ok", TRUE, FALSE)
Busy == Outcome("unavailable", TRUE, TRUE)
RateExhausted == Outcome("rate_limited", TRUE, TRUE)

\* observe_health of the HTTP adapters: a cancellation says nothing.
HttpHealth(class, current) ==
    CASE class = "ok" -> "healthy"
      [] class = "rate_limited" -> "rate_limited"
      [] class \in {"unavailable", "timeout", "invalid_response"} -> "degraded"
      [] class = "invalid_request" -> "unhealthy"
      [] OTHER -> current

\* observe_health of the subscription bridge: a cancelled call, or an answer
\* it cannot read, makes the endpoint unhealthy.
SubscriptionHealth(class) ==
    CASE class = "ok" -> "healthy"
      [] class = "rate_limited" -> "rate_limited"
      [] class \in {"unavailable", "timeout"} -> "degraded"
      [] OTHER -> "unhealthy"

HealthAfter(e, class) ==
    IF Adapter[e] = "subscription" THEN SubscriptionHealth(class)
    ELSE HttpHealth(class, health[e])

\* A known retryable failure is retried while the budget lasts; an unknown
\* outcome ends the run.
Retried(run, o) ==
    IF o.known /\ o.retryable /\ run.retries < MaxRouteRetries
    THEN [run EXCEPT !.state = "ready", !.retries = @ + 1]
    ELSE [run EXCEPT !.state = "failed"]

\* The worker gets the thread's result; one that stopped waiting gets nothing.
HandBack(r, c, o) ==
    runs' = [runs EXCEPT ![r] =
        IF @.state # "waiting" \/ @.retries # c.attempt THEN @
        ELSE IF o = Success THEN [@ EXCEPT !.state = "answered"]
        ELSE Retried(@, o)]

SettleCall(c, o) ==
    /\ health' = [health EXCEPT ![c.endpoint] = HealthAfter(c.endpoint, o.class)]
    /\ sick' = sick \cup {e \in Endpoints : health'[e] = "unhealthy"}
    /\ lost' = IF o.known THEN lost ELSE lost \cup {c.run}
    /\ HandBack(c.run, c, o)

\* InFlightGuard::acquire; a refused thread reports the endpoint unavailable.
AcquireSlot(r) ==
    /\ runs[r].state = "prepared"
    /\ LET e == runs[r].endpoint
       IN  \/ /\ inFlight[e] < MaximumConcurrentRequests
              /\ inFlight' = [inFlight EXCEPT ![e] = @ + 1]
              /\ calls' = calls \cup {Call(r, "acquired", 0)}
              /\ runs' = [runs EXCEPT ![r].state = "waiting"]
              /\ UNCHANGED health
           \/ /\ inFlight[e] >= MaximumConcurrentRequests
              /\ health' = [health EXCEPT ![e] = HealthAfter(e, Busy.class)]
              /\ runs' = [runs EXCEPT ![r] = Retried(@, Busy)]
              /\ UNCHANGED <<inFlight, calls>>
    /\ UNCHANGED <<minute, window, granted, skewed, sick, lost, restarts>>

StepCall(c, d) == calls' = (calls \ {c}) \cup {d}

\* Mutant of ReleaseSlot: the slot is not given back.
ReleaseSlotLeaking(c) ==
    /\ UNCHANGED inFlight
    /\ calls' = calls \ {c}

\* InFlightGuard::drop
ReleaseSlot(c) ==
    /\ inFlight' = [inFlight EXCEPT ![c.endpoint] = @ - 1]
    /\ calls' = calls \ {c}

\* reserve_rate_capacity reads the clock before it takes the window's lock.
ReadMinute(c) ==
    /\ c.step = "acquired"
    /\ StepCall(c, [c EXCEPT !.step = "timed", !.minute = minute])
    /\ UNCHANGED <<minute, health, inFlight, window, runs, granted, skewed, sick,
                   lost, restarts>>

\* The window as the thread sees it under the lock.
RateWindow(e, m) ==
    IF window[e].minute = m THEN window[e] ELSE [minute |-> m, requests |-> 0]

CountRequest(w) == [w EXCEPT !.requests = @ + 1]

ReserveRateCapacity(c) ==
    /\ c.step = "timed"
    /\ LET w == RateWindow(c.endpoint, c.minute)
       IN  \/ /\ w.requests < RequestsPerMinute
              /\ window' = [window EXCEPT ![c.endpoint] = CountRequest(w)]
              /\ granted' = [granted EXCEPT ![c.endpoint][c.minute] = @ + 1]
              /\ skewed' = (skewed \/ c.minute < window[c.endpoint].minute)
              /\ StepCall(c, [c EXCEPT !.step = "reserved"])
              /\ UNCHANGED <<health, inFlight, runs, sick, lost>>
           \/ /\ w.requests >= RequestsPerMinute
              /\ window' = [window EXCEPT ![c.endpoint] = w]
              /\ skewed' = (skewed \/ c.minute < window[c.endpoint].minute)
              /\ SettleCall(c, RateExhausted) /\ ReleaseSlot(c)
              /\ UNCHANGED granted
    /\ UNCHANGED <<minute, restarts>>

\* What dispatch_bounded may end with once capacity is reserved.  Before the
\* request leaves: cancellation, the deadline, the request body.
NotSent == {Outcome("cancelled", TRUE, FALSE), Outcome("timeout", TRUE, TRUE),
            Outcome("invalid_request", TRUE, FALSE)}

\* Failures of a request that was sent: statuses and a refused connection are
\* known; a deadline, a broken transport or a cancellation leave it unknown.
HttpFailures ==
    {Outcome("rate_limited", TRUE, TRUE), Outcome("unavailable", TRUE, TRUE),
     Outcome("invalid_response", TRUE, FALSE), Outcome("timeout", FALSE, TRUE),
     Outcome("unavailable", FALSE, TRUE), Outcome("cancelled", FALSE, FALSE)}

\* Anthropic `error' events leave the outcome unknown.
AnthropicOutcomes ==
    {Success} \cup NotSent \cup HttpFailures
    \cup {Outcome("rate_limited", FALSE, TRUE), Outcome("invalid_request", FALSE, FALSE)}

\* Responses `error' and `failed' events are known failures.
ResponsesOutcomes == {Success} \cup NotSent \cup HttpFailures

\* The bridge checks the executable and starts a process; what a started
\* process did is never known.
SubscriptionOutcomes ==
    {Success} \cup NotSent
    \cup {Outcome("unavailable", TRUE, FALSE), Outcome("unavailable", TRUE, TRUE),
          Outcome("unavailable", FALSE, TRUE), Outcome("timeout", FALSE, TRUE),
          Outcome("cancelled", FALSE, FALSE), Outcome("invalid_response", FALSE, FALSE)}

CallOutcomes(e) ==
    CASE Adapter[e] = "anthropic" -> AnthropicOutcomes
      [] Adapter[e] = "responses" -> ResponsesOutcomes
      [] Adapter[e] = "subscription" -> SubscriptionOutcomes

FinishCall(c, o) ==
    /\ c.step = "reserved"
    /\ SettleCall(c, o) /\ ReleaseSlot(c)
    /\ UNCHANGED <<minute, window, granted, skewed, restarts>>

\* recv_timeout: the outcome is unknown and the run fails; its thread goes on.
WorkerTimesOut(r) ==
    /\ runs[r].state = "waiting"
    /\ runs' = [runs EXCEPT ![r].state = "failed"]
    /\ lost' = lost \cup {r}
    /\ UNCHANGED <<minute, health, inFlight, window, calls, granted, skewed, sick,
                   restarts>>

MinutePasses ==
    /\ minute < MaxMinute
    /\ minute' = minute + 1
    /\ UNCHANGED <<health, inFlight, window, calls, runs, granted, skewed, sick,
                   lost, restarts>>

\* A restart rebuilds the adapters; interrupted attempts are recovered.
RtRestart ==
    /\ restarts < MaxRouteRestarts
    /\ restarts' = restarts + 1
    /\ health' = [e \in Endpoints |-> "configured_unprobed"]
    /\ inFlight' = [e \in Endpoints |-> 0]
    /\ window' = [e \in Endpoints |-> [minute |-> 0, requests |-> 0]]
    /\ granted' = [e \in Endpoints |-> [m \in 0..MaxMinute |-> 0]]
    /\ calls' = {}
    /\ runs' = [r \in RtRuns |->
          IF runs[r].state # "waiting" THEN runs[r]
          ELSE IF runs[r].retries < MaxRouteRetries
          THEN [runs[r] EXCEPT !.state = "ready", !.retries = @ + 1]
          ELSE [runs[r] EXCEPT !.state = "failed"]]
    /\ UNCHANGED <<minute, skewed, sick, lost>>

RoutingNext ==
  /\ UNCHANGED pins
  /\ \/ \E r \in RtRuns : PrepareModel(r) \/ AcquireSlot(r) \/ WorkerTimesOut(r)
     \/ \E c \in calls : \/ ReadMinute(c) \/ ReserveRateCapacity(c)
                         \/ \E o \in CallOutcomes(c.endpoint) : FinishCall(c, o)
     \/ MinutePasses \/ RtRestart

RoutingSpec == RoutingInit /\ [][RoutingNext]_routingVars

-----------------------------------------------------------------------------
(***************************************************************************)
(* Properties.                                                             *)
(***************************************************************************)

\* Type correctness.
RoutingTypeOK ==
    /\ health \in [Endpoints -> {"configured_unprobed", "healthy", "rate_limited",
                                 "degraded", "unhealthy"}]
    /\ \A r \in RtRuns :
          /\ runs[r].state \in {"ready", "prepared", "waiting", "answered", "failed"}
          /\ runs[r].retries \in 0..MaxRouteRetries

\* An endpoint's slots are exactly the threads that hold one, abandoned ones
\* included, and never more than maximum_concurrent_requests.
SlotsAreThreads ==
    \A e \in Endpoints :
        /\ inFlight[e] = Cardinality({c \in calls : c.endpoint = e})
        /\ inFlight[e] <= MaximumConcurrentRequests

\* requests_per_minute bounds the requests granted in any minute, as long as
\* no thread came to the window with a minute that had already passed.
RateIsHeld ==
    ~skewed => \A e \in Endpoints, m \in 0..MaxMinute :
                  granted[e][m] <= RequestsPerMinute

\* Retries walk the chain: while no endpoint is unhealthy a run does not come
\* back to an endpoint before it has tried every one that serves it, and a
\* pinned run never leaves its endpoint.
ChainIsWalked ==
    \A r \in RtRuns :
        LET tried   == runs[r].tried
            serving == {e \in Candidates(r) : Serves(e, r)}
        IN  /\ \A i \in DOMAIN tried : tried[i] \in serving
            /\ (sick = {}
                  /\ \A e \in Endpoints : Serves(e, r)) =>
                  \A i, j \in DOMAIN tried :
                      i < j /\ tried[i] = tried[j] =>
                          \/ pins[r] # "none"
                          \/ \A e \in serving : \E k \in 1..(j - 1) : tried[k] = e

\* A run with a call of unknown outcome never dispatches again, whichever
\* thread reports it and when (docs/QUICKSTART.md: "never duplicated
\* automatically"); only a restart recovers an interrupted attempt.
UnknownIsNotRepeated ==
    \A r \in lost : runs[r].state \in {"answered", "failed"}

\* What routing promises to runs that share endpoints: slots are the threads in
\* flight, the rate window holds, retries walk the chain, and an unknown outcome
\* is not repeated.
RoutingSafety ==
  /\ RoutingTypeOK
  /\ SlotsAreThreads
  /\ RateIsHeld
  /\ ChainIsWalked
  /\ UnknownIsNotRepeated
=============================================================================
