------------------------------- MODULE Outbox -------------------------------
(***************************************************************************)
(* Delivery of durable notifications.  A transaction of the work graph     *)
(* inserts a row; a driver claims it, sends it outside any transaction,    *)
(* and records what it saw.  Between the claim and the record the daemon   *)
(* may crash, the record may be refused by the store, and the claim may    *)
(* grow so old that another claim takes the row back.                      *)
(*                                                                         *)
(* Time is relative: age counts from delivery_started_at_ms up to the      *)
(* claim timeout, wait counts down to next_attempt_at_ms.  The daemon      *)
(* starts one driver; the store's contract is written for any number.      *)
(***************************************************************************)
EXTENDS Naturals, FiniteSets

CONSTANTS
    Messages,           \* outbox rows, absent until inserted
    Drivers,            \* outbox drivers, each with its own WorkerId
    Routes,             \* where a session's channel binding may lead
    NoDriver,           \* NULL in delivery_owner_id
    NoMessage,          \* a driver without a claim
    MaximumAttempts,    \* MAXIMUM_ATTEMPTS of drive_outbox_batch
    ClaimTimeout,       \* age at which a claim is stale
    BaseDelay,          \* bounds of the exponential retry delay
    MaximumDelay,
    Seeds               \* jitter seeds

ASSUME OutboxAssumption ==
    /\ NoDriver \notin Drivers
    /\ NoMessage \notin Messages
    /\ MaximumAttempts \in Nat \ {0}
    /\ ClaimTimeout \in Nat \ {0}
    /\ BaseDelay \in Nat \ {0}
    /\ MaximumDelay \in Nat
    /\ BaseDelay <= MaximumDelay
    /\ Seeds \subseteq Nat
    /\ Routes \subseteq {"local", "webhook", "telegram", "discord"}

VARIABLES
    up,         \* the daemon runs and has finished startup recovery
    state,      \* outbox.state
    attempts,   \* outbox.attempts
    owner,      \* outbox.delivery_owner_id
    age,        \* time since outbox.delivery_started_at_ms
    wait,       \* time left until outbox.next_attempt_at_ms
    job,        \* the delivery a driver holds in memory
    result,     \* what the driver saw when it sent the message
    sends,      \* requests that left the daemon under each attempt
    verdicts    \* what drivers saw that forbids another attempt

rowVars == <<state, attempts, owner, age, wait>>
driverVars == <<job, result>>
worldVars == <<sends, verdicts>>
vars == <<up, rowVars, driverVars, worldVars>>

States == {"absent", "pending", "delivering", "delivered", "failed"}
Results == {"none", "in_flight", "delivered", "failed", "failed_after",
            "terminal", "outcome_unknown"}
Jobs == [message : Messages \cup {NoMessage}, attempt : 0..MaximumAttempts,
         route : {"local"} \cup Routes]
NoJob == [message |-> NoMessage, attempt |-> 0, route |-> "local"]
Verdicts == {"delivered", "terminal", "outcome_unknown"}

\* The retry delay has bounds of its own, those of exponential_retry_delay.
TypeOK ==
    /\ up \in BOOLEAN
    /\ state \in [Messages -> States]
    /\ attempts \in [Messages -> 0..MaximumAttempts]
    /\ owner \in [Messages -> Drivers \cup {NoDriver}]
    /\ age \in [Messages -> 0..ClaimTimeout]
    /\ job \in [Drivers -> Jobs]
    /\ result \in [Drivers -> Results]
    /\ sends \in [Messages -> [1..MaximumAttempts -> Nat]]
    /\ verdicts \in [Messages -> SUBSET Verdicts]

Init ==
    /\ up = TRUE
    /\ state = [m \in Messages |-> "absent"]
    /\ attempts = [m \in Messages |-> 0]
    /\ owner = [m \in Messages |-> NoDriver]
    /\ age = [m \in Messages |-> 0]
    /\ wait = [m \in Messages |-> 0]
    /\ job = [d \in Drivers |-> NoJob]
    /\ result = [d \in Drivers |-> "none"]
    /\ sends = [m \in Messages |-> [a \in 1..MaximumAttempts |-> 0]]
    /\ verdicts = [m \in Messages |-> {}]

-----------------------------------------------------------------------------
(***************************************************************************)
(* exponential_retry_delay: doubling from BaseDelay, cut at MaximumDelay,  *)
(* with up to a quarter of jitter on top, cut again.                       *)
(***************************************************************************)
AtMost(n, bound) == IF n <= bound THEN n ELSE bound

Backoff(multiplier, seed) ==
    LET exponential == AtMost(BaseDelay * multiplier, MaximumDelay)
    IN  AtMost(exponential + (seed % ((exponential \div 4) + 1)), MaximumDelay)

RetryDelay(attempt, seed) == Backoff(2^AtMost(attempt - 1, 31), seed)

\* The message was inserted by the transaction that it reports about.
Insert(m) ==
    /\ up /\ state[m] = "absent"
    /\ state' = [state EXCEPT ![m] = "pending"]
    /\ UNCHANGED <<up, attempts, owner, age, wait, driverVars, worldVars>>

-----------------------------------------------------------------------------
(***************************************************************************)
(* The claim takes stale claims back, gives up on exhausted messages, and  *)
(* picks one that is due.                                                  *)
(***************************************************************************)
Stale(m) == state[m] = "delivering" /\ age[m] = ClaimTimeout

Exhausted(m) == attempts[m] >= MaximumAttempts
Due(m) ==
    /\ ~ Exhausted(m)
    /\ Stale(m) \/ (state[m] = "pending" /\ wait[m] = 0)

\* Mutant of Swept: exhausted messages are offered once more.
SweptUnbounded(m) == IF Stale(m) THEN "pending" ELSE state[m]

\* What the first two statements of the claim make of a row.
Swept(m) ==
    IF state[m] = "pending" \/ Stale(m)
    THEN IF Exhausted(m) THEN "failed" ELSE "pending"
    ELSE state[m]

(***************************************************************************)
(* claim_routed_outbox: one transaction sweeps and claims.  The order in   *)
(* which due messages are picked is left open, and so is the route, which  *)
(* the session's bindings decide at this moment.                           *)
(***************************************************************************)
Claim(d, m, route) ==
    /\ up /\ job[d] = NoJob /\ Due(m)
    /\ state' = [n \in Messages |-> IF n = m THEN "delivering" ELSE Swept(n)]
    /\ attempts' = [attempts EXCEPT ![m] = @ + 1]
    /\ owner' = [n \in Messages |->
                  IF n = m THEN d ELSE IF Stale(n) THEN NoDriver ELSE owner[n]]
    /\ age' = [n \in Messages |-> IF n = m \/ Stale(n) THEN 0 ELSE age[n]]
    /\ wait' = [n \in Messages |->
                 IF n = m \/ Swept(n) = "failed" THEN 0 ELSE wait[n]]
    /\ job' = [job EXCEPT ![d] = [message |-> m, attempt |-> attempts[m] + 1,
                                  route |-> route]]
    /\ UNCHANGED <<up, result, worldVars>>

\* Nothing is due: the sweep alone is committed.
Sweep(d) ==
    /\ up /\ job[d] = NoJob /\ \A m \in Messages : ~ Due(m)
    /\ state' = [m \in Messages |-> Swept(m)]
    /\ owner' = [m \in Messages |-> IF Stale(m) THEN NoDriver ELSE owner[m]]
    /\ age' = [m \in Messages |-> IF Stale(m) THEN 0 ELSE age[m]]
    /\ wait' = [m \in Messages |-> IF Swept(m) = "failed" THEN 0 ELSE wait[m]]
    /\ UNCHANGED <<up, attempts, driverVars, worldVars>>

-----------------------------------------------------------------------------
(***************************************************************************)
(* The send happens outside any transaction.                               *)
(***************************************************************************)

\* Endings of a delivery function before a request leaves the daemon.
UnsentResults(route) ==
    CASE route = "local" -> {"delivered", "failed"}
      [] route = "discord" -> {"terminal"}
      [] OTHER -> {"failed"}

\* What the answer to a request, or its absence, is taken for.
AnswerResults(route) ==
    CASE route = "webhook" -> {"delivered", "failed"}
      [] route = "telegram" -> {"delivered", "failed", "outcome_unknown"}
      [] route = "discord" ->
            {"delivered", "failed_after", "terminal", "outcome_unknown"}
      [] OTHER -> {}

Note(m, r) ==
    verdicts' = [verdicts EXCEPT ![m] = @ \cup ({r} \cap Verdicts)]

DeliverUnsent(d) ==
    /\ up /\ job[d] # NoJob /\ result[d] = "none"
    /\ \E r \in UnsentResults(job[d].route) :
          /\ result' = [result EXCEPT ![d] = r]
          /\ Note(job[d].message, r)
    /\ UNCHANGED <<up, rowVars, job, sends>>

Send(d) ==
    /\ up /\ job[d] # NoJob /\ result[d] = "none" /\ job[d].route # "local"
    /\ result' = [result EXCEPT ![d] = "in_flight"]
    /\ sends' = [sends EXCEPT ![job[d].message][job[d].attempt] = @ + 1]
    /\ UNCHANGED <<up, rowVars, job, verdicts>>

Answer(d) ==
    /\ up /\ result[d] = "in_flight"
    /\ \E r \in AnswerResults(job[d].route) :
          /\ result' = [result EXCEPT ![d] = r]
          /\ Note(job[d].message, r)
    /\ UNCHANGED <<up, rowVars, job, sends>>

-----------------------------------------------------------------------------
(***************************************************************************)
(* finish_outbox_delivery: complete_outbox and retry_outbox change the row *)
(* only under the claim of the driver that asks, whatever the attempt.     *)
(***************************************************************************)

\* Mutant of HoldsClaim: any row in delivery may be settled.
HoldsAnyClaim(d) == state[job[d].message] = "delivering"

HoldsClaim(d) ==
    /\ state[job[d].message] = "delivering"
    /\ owner[job[d].message] = d

\* The maximum_attempts argument that finish_outbox_delivery passes on.
Limit(d) ==
    IF result[d] \in {"terminal", "outcome_unknown"}
    THEN job[d].attempt
    ELSE MaximumAttempts

Delays(d) ==
    IF result[d] = "failed_after" THEN 1..MaximumDelay
    ELSE { RetryDelay(job[d].attempt, seed) : seed \in Seeds }

Release(d) ==
    /\ job' = [job EXCEPT ![d] = NoJob]
    /\ result' = [result EXCEPT ![d] = "none"]

Complete(d) ==
    /\ up /\ result[d] = "delivered" /\ HoldsClaim(d)
    /\ state' = [state EXCEPT ![job[d].message] = "delivered"]
    /\ wait' = [wait EXCEPT ![job[d].message] = 0]
    /\ Release(d)
    /\ UNCHANGED <<up, attempts, owner, age, worldVars>>

Retry(d) ==
    /\ up /\ result[d] \in {"failed", "failed_after", "terminal", "outcome_unknown"}
    /\ HoldsClaim(d)
    /\ LET m == job[d].message IN
         /\ owner' = [owner EXCEPT ![m] = NoDriver]
         /\ age' = [age EXCEPT ![m] = 0]
         /\ \/ /\ job[d].attempt >= Limit(d)
               /\ state' = [state EXCEPT ![m] = "failed"]
               /\ wait' = [wait EXCEPT ![m] = 0]
            \/ /\ job[d].attempt < Limit(d)
               /\ state' = [state EXCEPT ![m] = "pending"]
               /\ \E delay \in Delays(d) : wait' = [wait EXCEPT ![m] = delay]
    /\ Release(d)
    /\ UNCHANGED <<up, attempts, worldVars>>

\* The claim is gone (StaleClaim), and the driver drops the delivery.
FinishStale(d) ==
    /\ up /\ result[d] \notin {"none", "in_flight"} /\ ~ HoldsClaim(d)
    /\ Release(d)
    /\ UNCHANGED <<up, rowVars, worldVars>>

\* The route cannot be resolved, or the store fails while the driver settles:
\* the batch ends with an error and the row stays in delivery.
Abandon(d) ==
    /\ up /\ job[d] # NoJob /\ result[d] # "in_flight"
    /\ Release(d)
    /\ UNCHANGED <<up, rowVars, worldVars>>

-----------------------------------------------------------------------------
Crash ==
    /\ up /\ up' = FALSE
    /\ job' = [d \in Drivers |-> NoJob]
    /\ result' = [d \in Drivers |-> "none"]
    /\ UNCHANGED <<rowVars, worldVars>>

\* Startup recovery takes every claim of the previous process back.
Recover ==
    /\ ~ up /\ up' = TRUE
    /\ state' = [m \in Messages |->
                  IF state[m] = "delivering" THEN "pending" ELSE state[m]]
    /\ owner' = [m \in Messages |->
                  IF state[m] = "delivering" THEN NoDriver ELSE owner[m]]
    /\ age' = [m \in Messages |-> IF state[m] = "delivering" THEN 0 ELSE age[m]]
    /\ wait' = [m \in Messages |-> IF state[m] = "delivering" THEN 0 ELSE wait[m]]
    /\ UNCHANGED <<attempts, driverVars, worldVars>>

\* Time passes, for claims and for retries alike, whether or not the daemon
\* runs.
Tick ==
    /\ \E m \in Messages :
          wait[m] > 0 \/ (state[m] = "delivering" /\ age[m] < ClaimTimeout)
    /\ wait' = [m \in Messages |-> IF wait[m] > 0 THEN wait[m] - 1 ELSE 0]
    /\ age' = [m \in Messages |->
                IF state[m] = "delivering" THEN AtMost(age[m] + 1, ClaimTimeout)
                ELSE age[m]]
    /\ UNCHANGED <<up, state, attempts, owner, driverVars, worldVars>>

ClaimStep(d) ==
    \/ \E m \in Messages, route \in Routes : Claim(d, m, route)
    \/ Sweep(d)

DeliverStep(d) == DeliverUnsent(d) \/ Send(d) \/ Answer(d)

FinishStep(d) == Complete(d) \/ Retry(d) \/ FinishStale(d)

Next ==
    \/ \E m \in Messages : Insert(m)
    \/ \E d \in Drivers :
          ClaimStep(d) \/ DeliverStep(d) \/ FinishStep(d) \/ Abandon(d)
    \/ Crash \/ Recover \/ Tick

Spec == Init /\ [][Next]_vars

-----------------------------------------------------------------------------
(***************************************************************************)
(* Properties.                                                             *)
(***************************************************************************)

\* An attempt that the claim counted durably sends at most one request, and no
\* request leaves under an attempt that was not counted: crashes, lost claims,
\* a second driver and retries together never send a message more than
\* MAXIMUM_ATTEMPTS times.
OneSendPerAttempt ==
    \A m \in Messages, a \in 1..MaximumAttempts :
       sends[m][a] <= (IF a <= attempts[m] THEN 1 ELSE 0)

\* A row ends as delivered only if some driver saw it delivered, and as failed
\* only if its attempts are used up or a driver saw an ending that forbids
\* another attempt: no notification is dropped early, whichever driver, sweep
\* or restart ends it.
EndsForCause ==
    \A m \in Messages :
       /\ state[m] = "delivered" => "delivered" \in verdicts[m]
       /\ state[m] = "failed" => \/ attempts[m] = MaximumAttempts
                                 \/ verdicts[m] \cap {"terminal", "outcome_unknown"} # {}

\* The driver that settles a row holds the attempt the row is at.  The
\* statements of complete_outbox and retry_outbox compare the owner alone; a
\* driver that lost its claim to another one must not end the other's attempt.
SettlesOwnAttempt ==
    \A m \in Messages :
       (/\ up /\ state[m] = "delivering" /\ ~ Stale(m)
        /\ state'[m] # "delivering")
       => \E d \in Drivers : /\ job[d].message = m
                             /\ job[d].attempt = attempts[m]
                             /\ job'[d] = NoJob

OwnAttempts == [][SettlesOwnAttempt]_vars

(***************************************************************************)
(* The driver's loop runs while the daemon is up, requests end by the      *)
(* client's timeout, and the daemon is restarted and eventually stays up.  *)
(* Nothing is assumed of answers, of the store when it settles, or of how  *)
(* often the driver abandons a delivery.                                   *)
(***************************************************************************)
Fairness ==
    /\ \A d \in Drivers : WF_vars(ClaimStep(d)) /\ WF_vars(DeliverStep(d))
                                                /\ WF_vars(FinishStep(d))
    /\ WF_vars(Tick) /\ WF_vars(Recover)
    /\ <>[]up

FairSpec == Spec /\ Fairness

\* Every notification reaches an end, delivered or failed: none waits for ever
\* behind a crashed claim, an abandoned delivery, a retry delay or its own
\* used-up attempts.
EveryMessageEnds ==
    \A m \in Messages :
       (state[m] = "pending") ~> (state[m] \in {"delivered", "failed"})
=============================================================================
