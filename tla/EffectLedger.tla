---------------------------- MODULE EffectLedger ----------------------------
(***************************************************************************)
(* The effect ledger: what happens to a governed tool call (a workspace    *)
(* write, a process) between its proposal by the model and the observation *)
(* of its outcome.  The tables effect, approval_request, effect_attempt    *)
(* and agent_effect_observation are added to the work graph, whose actions *)
(* are conjoined with the changes the same transaction makes to them.      *)
(*                                                                         *)
(* A worker drives one effect through several transactions.  Between them  *)
(* it remembers how far it came (variables doing and stage).  The sandbox  *)
(* call itself is not a transaction and no fence guards it: Execute is the *)
(* step in which the outside world changes.                                *)
(*                                                                         *)
(* attempt and attemptToken describe the latest attempt of an effect; an   *)
(* earlier one is always in an interrupted state.  scheduler.rs, release,  *)
(* has no caller in the daemon and is not part of this composition.        *)
(***************************************************************************)
EXTENDS WorkGraph

CONSTANTS
    Effects,        \* identifiers of effects, fresh until proposed
    NoEffect,       \* a worker that drives no effect
    RunOf,          \* the run an effect identifier is used in
    Retryable,      \* effects whose descriptor has recovery strategy Retry
    ApprovalTtl     \* time an approval request stays open

ASSUME EffectAssumption ==
    /\ NoEffect \notin Effects
    /\ RunOf \in [Effects -> Canonical]
    /\ Retryable \subseteq Effects
    /\ ApprovalTtl \in Nat

VARIABLES
    effect,         \* effect.status
    approval,       \* approval_request.status
    approvalTtl,    \* time left until approval_request.expires_at_ms
    attempt,        \* effect_attempt.state of the latest attempt
    attemptToken,   \* effect_attempt.prepared_fencing_token of that attempt
    observed,       \* an agent_effect_observation row exists
    doing,          \* the effect a worker is driving
    stage,          \* how far the worker came with it
    executions      \* times the sandbox really carried the effect out

ledgerVars == <<effect, approval, approvalTtl, attempt, attemptToken, observed>>
memoryVars == <<doing, stage>>
effectVars == <<ledgerVars, memoryVars, executions>>
allVars == <<vars, effectVars>>

Settled == {"denied", "succeeded", "failed", "compensated"}
Reconciled == {"succeeded", "failed"}
EffectStatus == {"none", "awaiting_approval", "authorized", "dispatching",
                 "outcome_unknown"} \cup Settled
ApprovalStatus == {"none", "pending", "approved", "denied", "expired", "revoked"}
AttemptState == {"none", "prepared", "running", "succeeded", "failed",
                 "outcome_unknown", "interrupted_undispatched",
                 "interrupted_retryable"}
Stage == {"idle", "authorized", "prepared", "checked", "dispatched",
          "executed", "unproven", "parking"}

EffectTypeOK ==
    /\ TypeOK
    /\ effect \in [Effects -> EffectStatus]
    /\ approval \in [Effects -> ApprovalStatus]
    /\ approvalTtl \in [Effects -> 0..ApprovalTtl]
    /\ attempt \in [Effects -> AttemptState]
    /\ attemptToken \in [Effects -> Nat]
    /\ observed \in [Effects -> BOOLEAN]
    /\ doing \in [Workers -> Effects \cup {NoEffect}]
    /\ stage \in [Workers -> Stage]
    /\ executions \in [Effects -> Nat]

EffectInit ==
    /\ Init
    /\ effect = [e \in Effects |-> "none"]
    /\ approval = [e \in Effects |-> "none"]
    /\ approvalTtl = [e \in Effects |-> 0]
    /\ attempt = [e \in Effects |-> "none"]
    /\ attemptToken = [e \in Effects |-> 0]
    /\ observed = [e \in Effects |-> FALSE]
    /\ doing = [w \in Workers |-> NoEffect]
    /\ stage = [w \in Workers |-> "idle"]
    /\ executions = [e \in Effects |-> 0]

\* The invocations of a run that have no observation yet.
OpenEffects(r) ==
    {e \in Effects : RunOf[e] = r /\ effect[e] # "none" /\ ~ observed[e]}

\* The worker is not inside the sandbox call.
AtBoundary(w) == stage[w] # "dispatched"

Working(w, e, s) == doing[w] = e /\ stage[w] = s
Advance(w, e, s) ==
    /\ doing' = [doing EXCEPT ![w] = e]
    /\ stage' = [stage EXCEPT ![w] = s]
Forget(w) == Advance(w, NoEffect, "idle")

-----------------------------------------------------------------------------
(***************************************************************************)
(* Proposal and approval.                                                  *)
(***************************************************************************)

\* The policy of every governed tool asks for an approval; the run waits.
ProposeEffect(w, f, e) ==
    /\ stage[w] = "idle"
    /\ RunOf[e] = f.run /\ effect[e] = "none"
    /\ OpenEffects(f.run) = {}
    /\ RecordAgentEffectProposal(w, f)
    /\ effect' = [effect EXCEPT ![e] = "awaiting_approval"]
    /\ approval' = [approval EXCEPT ![e] = "pending"]
    /\ approvalTtl' = [approvalTtl EXCEPT ![e] = ApprovalTtl]
    /\ UNCHANGED <<attempt, attemptToken, observed, memoryVars, executions>>

AfterDecision(decision) ==
    IF decision = "approved" THEN "authorized" ELSE "denied"

\* The owner decides, at the latest when the request expires.
ResolveApproval(e, decision) ==
    /\ up
    /\ approval[e] = "pending" /\ approvalTtl[e] > 0
    /\ effect[e] = "awaiting_approval"
    /\ decision \in {"approved", "denied"}
    /\ approval' = [approval EXCEPT ![e] = decision]
    /\ effect' = [effect EXCEPT ![e] = AfterDecision(decision)]
    /\ UNCHANGED <<vars, approvalTtl, attempt, attemptToken, observed,
                   memoryVars, executions>>

\* The driver selects expired requests of waiting tasks, then expires each in
\* a transaction that checks the request only; the task may have moved on.
ExpireApproval(e) ==
    /\ up
    /\ approval[e] = "pending" /\ approvalTtl[e] = 0
    /\ effect[e] = "awaiting_approval"
    /\ approval' = [approval EXCEPT ![e] = "expired"]
    /\ effect' = [effect EXCEPT ![e] = "denied"]
    /\ UNCHANGED <<vars, approvalTtl, attempt, attemptToken, observed,
                   memoryVars, executions>>

\* What ready_agent_effects looks for.
Ready(e) ==
    /\ ~ observed[e]
    /\ \/ effect[e] \in Settled
       \/ effect[e] = "authorized" /\ approval[e] = "approved"
            /\ approvalTtl[e] > 0

ResumeReadyEffectRun(e) ==
    /\ Ready(e)
    /\ ResumeAgentEffectRun(RunOf[e])
    /\ UNCHANGED effectVars

-----------------------------------------------------------------------------
(***************************************************************************)
(* Dispatch: the worker that resumed the run carries the effect out.       *)
(***************************************************************************)

\* continue_fixture_write finds the open invocation authorized.
ContinueEffect(w, f, e) ==
    /\ up
    /\ stage[w] = "idle"
    /\ Fenced(w, f) /\ task[f.run] = "running" /\ ~ cancel[f.run]
    /\ e \in OpenEffects(f.run)
    /\ effect[e] = "authorized"
    /\ Advance(w, e, "authorized")
    /\ UNCHANGED <<vars, ledgerVars, executions>>

Unsettled == {"prepared", "running", "outcome_unknown"}

PrepareEffectAttempt(w, f, e) ==
    /\ up
    /\ Working(w, e, "authorized")
    /\ Fenced(w, f) /\ RunOf[e] = f.run
    /\ effect[e] = "authorized"
    /\ attempt[e] \notin Unsettled
    /\ attempt' = [attempt EXCEPT ![e] = "prepared"]
    /\ attemptToken' = [attemptToken EXCEPT ![e] = f.token]
    /\ Advance(w, e, "prepared")
    /\ UNCHANGED <<vars, effect, approval, approvalTtl, observed, executions>>

\* executor_request refuses an approval that has expired.
CheckApproval(w, e) ==
    /\ up
    /\ Working(w, e, "prepared")
    /\ approval[e] = "approved" /\ approvalTtl[e] > 0
    /\ Advance(w, e, "checked")
    /\ UNCHANGED <<vars, ledgerVars, executions>>

\* The attempt the worker prepared is still in the given state under fence f.
AttemptHeld(f, e, s) ==
    /\ RunOf[e] = f.run
    /\ attempt[e] = s /\ attemptToken[e] = f.token

MarkEffectAttemptRunning(w, f, e) ==
    /\ up
    /\ Working(w, e, "checked")
    /\ Fenced(w, f) /\ AttemptHeld(f, e, "prepared")
    /\ effect[e] = "authorized"
    /\ effect' = [effect EXCEPT ![e] = "dispatching"]
    /\ attempt' = [attempt EXCEPT ![e] = "running"]
    /\ Advance(w, e, "dispatched")
    /\ UNCHANGED <<vars, approval, approvalTtl, attemptToken, observed,
                   executions>>

\* The sandbox call.  It returns a terminal result, or an error that may hide
\* an execution; nothing in it looks at the lease.
Execute(w, e) ==
    /\ up
    /\ Working(w, e, "dispatched")
    /\ \/ /\ executions' = [executions EXCEPT ![e] = @ + 1]
          /\ \E s \in {"executed", "unproven"} : Advance(w, e, s)
       \/ /\ Advance(w, e, "unproven")
          /\ UNCHANGED executions
    /\ UNCHANGED <<vars, ledgerVars>>

\* executor_outcome_evidence
OutcomeOf(s) ==
    IF s = "executed" THEN {"succeeded", "failed"} ELSE {"outcome_unknown"}

RecordEffectAttemptOutcome(w, f, e) ==
    /\ up
    /\ \E s \in {"executed", "unproven"} : \E o \in OutcomeOf(s) :
        /\ Working(w, e, s)
        /\ effect' = [effect EXCEPT ![e] = o]
        /\ attempt' = [attempt EXCEPT ![e] = o]
        /\ IF o = "outcome_unknown" THEN Advance(w, e, "parking") ELSE Forget(w)
    /\ Fenced(w, f) /\ AttemptHeld(f, e, "running")
    /\ effect[e] = "dispatching"
    /\ UNCHANGED <<vars, approval, approvalTtl, attemptToken, observed,
                   executions>>

\* The outcome becomes the tool result that the model sees next.
RecordAgentEffectObservation(w, f, e) ==
    /\ up
    /\ stage[w] = "idle"
    /\ Fenced(w, f) /\ task[f.run] = "running" /\ ~ cancel[f.run]
    /\ e \in OpenEffects(f.run) /\ effect[e] \in Settled
    /\ observed' = [observed EXCEPT ![e] = TRUE]
    /\ UNCHANGED <<vars, effect, approval, approvalTtl, attempt, attemptToken,
                   memoryVars, executions>>

\* Mutant of ParkUnknownEffect: the outcome is not looked at.
ParkAnyEffect(w, f, e) ==
    /\ stage[w] = "idle" \/ Working(w, e, "parking")
    /\ RunOf[e] = f.run
    /\ ParkAgentEffectRun(w, f)
    /\ Forget(w)
    /\ UNCHANGED <<ledgerVars, executions>>

\* A run whose effect has an unknown outcome waits for its reconciliation.
ParkUnknownEffect(w, f, e) ==
    /\ stage[w] = "idle" \/ Working(w, e, "parking")
    /\ RunOf[e] = f.run /\ effect[e] = "outcome_unknown"
    /\ ParkAgentEffectRun(w, f)
    /\ Forget(w)
    /\ UNCHANGED <<ledgerVars, executions>>

\* The owner establishes what really happened; the attempt row keeps its state.
ReconcileEffectOutcome(e, outcome) ==
    /\ up
    /\ effect[e] = "outcome_unknown" /\ attempt[e] = "outcome_unknown"
    /\ effect' = [effect EXCEPT ![e] = outcome]
    /\ UNCHANGED <<vars, approval, approvalTtl, attempt, attemptToken, observed,
                   memoryVars, executions>>

-----------------------------------------------------------------------------
(***************************************************************************)
(* The other steps of a worker.  While an invocation is open the loop of   *)
(* the run stays at consume_model_result, so the run can neither succeed,  *)
(* call the provider nor delegate; every error path ends in complete_run.  *)
(***************************************************************************)
ClaimRun(w, r) == ClaimNext(w, r) /\ UNCHANGED effectVars

KeepLease(w, f) == AtBoundary(w) /\ Heartbeat(w, f) /\ UNCHANGED effectVars

CompleteRun(w, f, status) ==
    /\ AtBoundary(w)
    /\ status = "succeeded" => OpenEffects(f.run) = {}
    /\ CompleteCanonicalRun(w, f, status) \/ CompleteDelegatedRun(w, f, status)
    /\ Forget(w)
    /\ UNCHANGED <<ledgerVars, executions>>

RetryProvider(w, f) ==
    /\ OpenEffects(f.run) = {}
    /\ RequeueProviderRetry(w, f)
    /\ UNCHANGED effectVars

Delegate(w, f, c) ==
    /\ OpenEffects(f.run) = {}
    /\ LaunchAgentDelegation(w, f, c)
    /\ UNCHANGED effectVars

Abandon(w, f) ==
    /\ AtBoundary(w)
    /\ GiveUp(w, f)
    /\ Forget(w)
    /\ UNCHANGED <<ledgerVars, executions>>

-----------------------------------------------------------------------------
(***************************************************************************)
(* Recovery of a lease classifies the attempt that was prepared under it.  *)
(***************************************************************************)
RecoveryCandidate(e) ==
    \/ attempt[e] = "prepared" /\ effect[e] = "authorized"
    \/ attempt[e] = "running" /\ effect[e] = "dispatching"
    \/ attempt[e] = "outcome_unknown" /\ effect[e] = "outcome_unknown"

Interrupted(S) ==
    {e \in Effects : RecoveryCandidate(e) /\
        \E l \in S : l.run = RunOf[e] /\ l.token = attemptToken[e]}

\* Mutant of Retries: a keyed effect is dispatched again whatever its strategy.
RetriesAlways(e) == attempt[e] = "running"

\* classify_recovery of a running attempt: only the strategy Retry repeats it.
Retries(e) == attempt[e] = "running" /\ e \in Retryable

\* The runs that wait for a reconciliation instead of going back to the queue.
Parked(S) ==
    {RunOf[e] : e \in {x \in Interrupted(S) :
                        attempt[x] # "prepared" /\ ~ Retries(x)}}

AttemptAfterRecovery(S, e) ==
    IF e \notin Interrupted(S) THEN attempt[e]
    ELSE IF attempt[e] = "prepared" THEN "interrupted_undispatched"
    ELSE IF Retries(e) THEN "interrupted_retryable"
    ELSE "outcome_unknown"

EffectAfterRecovery(S, e) ==
    IF e \notin Interrupted(S) THEN effect[e]
    ELSE IF attempt[e] = "prepared" \/ Retries(e) THEN "authorized"
    ELSE "outcome_unknown"

\* More than one candidate under a lease refuses the whole batch.
RecoverEffects(S) ==
    /\ \A l \in S : Cardinality(Interrupted({l})) <= 1
    /\ attempt' = [e \in Effects |-> AttemptAfterRecovery(S, e)]
    /\ effect' = [e \in Effects |-> EffectAfterRecovery(S, e)]
    /\ UNCHANGED <<approval, approvalTtl, attemptToken, observed, memoryVars,
                   executions>>

ReapExpired(S) == RecoverExpiredLeases(S, Parked(S)) /\ RecoverEffects(S)
RecoverAtStartup(S) == RecoverStartup(S, Parked(S)) /\ RecoverEffects(S)
PauseRunning(r) ==
    PauseRunningTask(r, Parked(LeasesOn(r))) /\ RecoverEffects(LeasesOn(r))

-----------------------------------------------------------------------------
(***************************************************************************)
(* Owner commands, failures and time.                                      *)
(***************************************************************************)
Undispatched(r) ==
    {e \in Effects : /\ RunOf[e] = r
                     /\ effect[e] \in {"awaiting_approval", "authorized"}
                     /\ attempt[e] = "none"}

\* The trigger effect_phase3_transition_guard lets an effect become denied
\* only from awaiting_approval; it aborts any other such update.
DenialAllowed(e) == effect[e] = "awaiting_approval"

\* cancel_undispatched_agent_effect revokes the approval the task waits for.
RevokedBy(r) == Undispatched(r)

CancelTask(r) ==
    /\ Cardinality(Undispatched(r)) <= 1
    /\ \A e \in Undispatched(r) : DenialAllowed(e)
    /\ RequestTaskCancellation(r)
    /\ effect' = [e \in Effects |->
                    IF e \in RevokedBy(r) THEN "denied" ELSE effect[e]]
    /\ approval' = [e \in Effects |->
                    IF e \in RevokedBy(r) THEN "revoked" ELSE approval[e]]
    /\ UNCHANGED <<approvalTtl, attempt, attemptToken, observed, memoryVars,
                   executions>>

PauseIdle(r) == PauseIdleTask(r) /\ UNCHANGED effectVars
Unpause(r) == ResumeTask(r) /\ UNCHANGED effectVars

\* The sandbox dies with the daemon; Execute has happened or it never will.
CrashDaemon ==
    /\ Crash
    /\ doing' = [w \in Workers |-> NoEffect]
    /\ stage' = [w \in Workers |-> "idle"]
    /\ UNCHANGED <<ledgerVars, executions>>

TimePasses ==
    /\ \/ Tick
       \/ /\ LiveLeases = {} /\ \A r \in Runs : delay[r] = 0
          /\ \A c \in Delegates : toolTime[c] = 0
          /\ \E e \in Effects : approvalTtl[e] > 0
          /\ UNCHANGED vars
    /\ approvalTtl' = [e \in Effects |-> Less(approvalTtl[e])]
    /\ UNCHANGED <<effect, approval, attempt, attemptToken, observed,
                   memoryVars, executions>>

EffectWorkerStep(w, f) ==
    \/ KeepLease(w, f) \/ RetryProvider(w, f) \/ Abandon(w, f)
    \/ \E status \in Terminal : CompleteRun(w, f, status)
    \/ \E c \in Delegates : Delegate(w, f, c)
    \/ \E e \in Effects :
        \/ ProposeEffect(w, f, e)
        \/ ContinueEffect(w, f, e)
        \/ PrepareEffectAttempt(w, f, e)
        \/ MarkEffectAttemptRunning(w, f, e)
        \/ RecordEffectAttemptOutcome(w, f, e)
        \/ RecordAgentEffectObservation(w, f, e)
        \/ ParkUnknownEffect(w, f, e)

EffectOwnerStep ==
    \/ \E e \in Effects :
        \/ \E d \in {"approved", "denied"} : ResolveApproval(e, d)
        \/ \E o \in Reconciled : ReconcileEffectOutcome(e, o)
    \/ \E r \in Runs : CancelTask(r) \/ PauseIdle(r) \/ PauseRunning(r)
                        \/ Unpause(r)
    \/ \E s \in Sessions :
        /\ \/ \E r \in Runs : PromoteNext(s, r)
           \/ InterruptBeforeClaim(s)
           \/ InterruptRunning(s)
        /\ UNCHANGED effectVars

EffectNext ==
    \/ \E w \in Workers : \E r \in Runs : ClaimRun(w, r)
    \/ \E w \in Workers : \E f \in held[w] : EffectWorkerStep(w, f)
    \/ \E w \in Workers, e \in Effects : CheckApproval(w, e) \/ Execute(w, e)
    \/ \E e \in Effects : ExpireApproval(e) \/ ResumeReadyEffectRun(e)
    \/ EffectOwnerStep
    \/ \E S \in SUBSET leases : ReapExpired(S) \/ RecoverAtStartup(S)
    \/ BecomeReady /\ UNCHANGED effectVars
    \/ CrashDaemon
    \/ TimePasses

EffectSpec == EffectInit /\ [][EffectNext]_allVars

-----------------------------------------------------------------------------
(***************************************************************************)
(* Properties.                                                             *)
(***************************************************************************)

\* An effect without the strategy Retry is carried out at most once, whatever
\* crashes, expired leases, stalled workers and repeated claims come between
\* its proposal and its outcome (docs/IMPLEMENTATION_PLAN.md: "without
\* duplicate non-idempotent mutation").
AtMostOnce == \A e \in Effects \ Retryable : executions[e] <= 1

\* Nothing is carried out, or ready to be, that the owner did not approve, and
\* a denied effect was never tried (agent_effect.rs: "denied agent effect
\* unexpectedly has dispatch evidence").
DispatchWasApproved ==
    \A e \in Effects :
        /\ effect[e] \notin {"none", "awaiting_approval", "denied"} \/ executions[e] > 0
            => approval[e] = "approved"
        /\ effect[e] = "denied" => attempt[e] = "none" /\ executions[e] = 0

\* The effect row and the row of its latest attempt, written by separate
\* statements of many transactions, never contradict each other.
EffectAttemptAgree ==
    \A e \in Effects :
        /\ effect[e] = "dispatching" <=> attempt[e] = "running"
        /\ effect[e] = "outcome_unknown" => attempt[e] = "outcome_unknown"
        /\ attempt[e] = "prepared" => effect[e] = "authorized"
        /\ attempt[e] = "outcome_unknown" =>
            effect[e] \in {"outcome_unknown"} \cup Reconciled

\* A dispatched effect of an open run is always found by recovery: its run is
\* running and the one active lease of that run carries the attempt's token.
\* (A run that ends while its effect is dispatching leaves it behind: see the
\* README.)
DispatchIsLeased ==
    \A e \in Effects :
        attempt[e] \in {"prepared", "running"} /\ run[RunOf[e]] \notin Terminal
            => \E l \in leases : l.run = RunOf[e] /\ l.token = attemptToken[e]

\* A run waits for something that is still going to be decided or observed:
\* an open child, or one open effect that nobody is dispatching.
WaitingIsExplained ==
    \A r \in Canonical : run[r] = "waiting" =>
        IF ActiveChildren(r) = {}
        THEN Cardinality(OpenEffects(r)) = 1 /\
             \A e \in OpenEffects(r) : effect[e] # "dispatching"
        ELSE OpenEffects(r) = {}

\* The owner is asked to approve an effect only while its task waits for the
\* answer: no finished or cancelled task has a pending approval.
PendingIsAwaited ==
    \A e \in Effects : approval[e] = "pending" =>
        /\ effect[e] = "awaiting_approval" /\ attempt[e] = "none"
        /\ run[RunOf[e]] = "waiting" /\ ~ cancel[RunOf[e]]

SettlesOnce ==
    \A e \in Effects :
        /\ effect[e] \in Settled => effect'[e] = effect[e]
        /\ effect[e] = "outcome_unknown" =>
            effect'[e] \in {"outcome_unknown"} \cup Reconciled

\* A settled effect never changes again, and an unknown outcome leaves that
\* state only for one that a reconciliation gives it (ARCHITECTURE.md: "The
\* scheduler never turns it into authorized by timeout alone"; DOMAIN_MODEL.md:
\* "cancellation does not erase unknown effects").
EffectSettlesOnce == [][SettlesOnce]_allVars

\* An effect that no transaction has proposed yet is a new EffectState.
Contract ==
    INSTANCE EffectLifecycle WITH
        Effects <- Effects \ Retryable,
        status <- [e \in Effects \ Retryable |->
                    IF effect[e] = "none" THEN "proposed" ELSE effect[e]]

\* The transactions of the ledger implement the lifecycle of EffectState for
\* every effect that is not retried.  (Recovery returns a retryable effect
\* from dispatching to authorized, an edge that lifecycle does not have.)
ImplementsEffectLifecycle == Contract!Spec
=============================================================================
