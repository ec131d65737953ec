----------------------------- MODULE AgentLoop -----------------------------
(***************************************************************************)
(* One run of the agent loop: what the store records of its model          *)
(* attempts, read tools, delegations and governed effects while leases are *)
(* acquired, lost and released, and the budget the run draws on.           *)
(*                                                                         *)
(* A store operation is one BEGIN IMMEDIATE transaction and one action.    *)
(* The driver of the daemon holds no state of its own between two          *)
(* transactions: it reads run_loop_state.next_action and takes the step it *)
(* names, so the driver is the guard on loop.action.  The time of a        *)
(* transaction is the journal cursor of its first event; every transaction *)
(* appends at least one.                                                   *)
(*                                                                         *)
(* Token, cost and byte limits move with the call counts in every          *)
(* statement and are counted as calls here.                                *)
(***************************************************************************)
EXTENDS Integers, Sequences, FiniteSets

CONSTANTS
    MaximumModelCalls,      \* run_budget_usage.maximum_model_calls
    MaximumToolCalls,       \* run_budget_usage.maximum_tool_calls
    MaximumRetries,         \* run_budget_usage.maximum_retries
    ResponseKinds,          \* what the provider may answer
    MaxLoopAttempts,            \* bound: rows of model_attempt
    MaxDisturbances,        \* bound: lease losses and pauses
    MaxWork,                \* bound: attempts and disturbances together
    MaxProgress             \* bound: output deltas of the run

ASSUME LoopAssumption ==
    /\ MaximumModelCalls \in Nat /\ MaximumToolCalls \in Nat
    /\ MaximumRetries \in Nat /\ MaxLoopAttempts \in Nat
    /\ MaxDisturbances \in Nat /\ MaxWork \in Nat /\ MaxProgress \in Nat
    /\ ResponseKinds \subseteq {"tool", "delegate", "effect", "final"}

VARIABLES
    run,            \* run.status, current_fencing_token, cancellation, delay
    task,           \* task.status
    leases,         \* work_lease rows of the run, oldest first
    loop,           \* run_loop_state
    attempts,       \* model_attempt rows with their budget_reservation
    tools,          \* tool_call rows
    effects,        \* agent_effect_invocation with its effect and observation
    checkpoints,    \* loop_checkpoint rows
    budget,         \* run_budget_usage
    validation,     \* task.validation_id
    log             \* journal_event in cursor order

workVars == <<loop, attempts, tools, effects, checkpoints, budget>>
vars == <<run, task, leases, workVars, validation, log>>

None == 0
Terminal == {"succeeded", "failed", "cancelled"}

Init ==
    /\ run = [status |-> "queued", token |-> 0, cancel |-> FALSE,
              delayed |-> FALSE, elapsed |-> FALSE]
    /\ task = "queued"
    /\ leases = <<>>
    /\ loop = [action |-> "none", iteration |-> 0, attempt |-> None,
               tool |-> None, final |-> None]
    /\ attempts = <<>>
    /\ tools = <<>>
    /\ effects = <<>>
    /\ checkpoints = <<>>
    /\ budget = [calls |-> 0, reservedCalls |-> 0, tools |-> 0,
                 reservedTools |-> 0, retries |-> 0]
    /\ validation = "none"
    /\ log = <<>>

-----------------------------------------------------------------------------
(***************************************************************************)
(* Journal and checkpoints.                                                *)
(***************************************************************************)
Now == Len(log) + 1

Event(kind, id) == [kind |-> kind, id |-> id, at |-> Now]

Append_(events) == log' = log \o events

Checkpoint(action, attempt, tool, reason, class) ==
    [action |-> action, attempt |-> attempt, tool |-> tool,
     reason |-> reason, class |-> class, at |-> Now]

AppendCheckpoint(c) == checkpoints' = Append(checkpoints, c)

CheckpointEvent == Event("agent.loop.checkpoint", Len(checkpoints) + 1)

(***************************************************************************)
(* Leases.  Every release and every expiry moves the fencing token on.     *)
(***************************************************************************)
Fenced == run.status = "running"

Working == Fenced /\ ~run.cancel

EndLease(state) ==
    leases' = [leases EXCEPT ![Len(leases)] =
                  [@ EXCEPT !.state = state, !.ended = Now]]

Disturbances == Cardinality({k \in DOMAIN log :
                    log[k].kind \in {"lease.expired", "task.paused"}})

Disruptible ==
    /\ Disturbances < MaxDisturbances
    /\ Disturbances + Len(attempts) < MaxWork

AcquireLease ==
    /\ run.status = "queued"
    /\ task \in {"queued", "running", "cancelling"}
    /\ ~run.delayed
    /\ run' = [run EXCEPT !.status = "running", !.token = @ + 1]
    /\ task' = IF task = "queued" THEN "running" ELSE task
    /\ leases' = Append(leases, [token |-> run.token + 1, state |-> "active",
                                 at |-> Now, ended |-> 0])
    /\ Append_(<<Event("run.started", run.token + 1)>>)
    /\ UNCHANGED <<workVars, validation>>

RetryDue ==
    /\ run.delayed
    /\ run' = [run EXCEPT !.delayed = FALSE]
    /\ UNCHANGED <<task, leases, workVars, validation, log>>

DeadlineElapses ==
    /\ ~run.elapsed
    /\ loop.action # "none"
    /\ run.status \notin Terminal
    /\ run' = [run EXCEPT !.elapsed = TRUE]
    /\ UNCHANGED <<task, leases, workVars, validation, log>>

-----------------------------------------------------------------------------
(***************************************************************************)
(* Model attempts.                                                         *)
(***************************************************************************)
Current == attempts[loop.attempt]

OwnAttempt == loop.attempt # None /\ Current.token = run.token

RetryOf ==
    IF /\ loop.action = "compile_context"
       /\ loop.attempt # None
       /\ \/ Current.state = "interrupted"
          \/ Current.state = "failed" /\ Current.retryable = "yes"
    THEN loop.attempt ELSE None

ReservationFits ==
    /\ ~run.elapsed
    /\ budget.calls + budget.reservedCalls + 1 <= MaximumModelCalls

PreparedAttempt ==
    [state |-> "prepared", token |-> run.token, retryOf |-> RetryOf,
     retryable |-> "null", retryAfter |-> FALSE, reservation |-> "active",
     dispatched |-> 0, response |-> "none", error |-> "none",
     at |-> Now, done |-> 0]

LoopAtDispatch ==
    [loop EXCEPT !.action = "dispatch_model", !.iteration = @ + 1,
                 !.attempt = Len(attempts) + 1]

PrepareModelAttempt ==
    /\ Working
    /\ Len(attempts) < MaxLoopAttempts
    /\ loop.action \in {"none", "compile_context", "compile_after_tool"}
    /\ ReservationFits
    /\ attempts' = Append(attempts, PreparedAttempt)
    /\ loop' = LoopAtDispatch
    /\ budget' = [budget EXCEPT !.reservedCalls = @ + 1]
    /\ AppendCheckpoint(Checkpoint("dispatch_model", Len(attempts) + 1, None,
                                   "model_attempt_prepared", "none"))
    /\ Append_(<<Event("context.manifest.created", Len(attempts) + 1),
                 Event("model.attempt.prepared", Len(attempts) + 1),
                 CheckpointEvent>>)
    /\ UNCHANGED <<run, task, leases, tools, effects, validation>>

DispatchModelAttempt ==
    /\ Working
    /\ loop.action = "dispatch_model"
    /\ OwnAttempt /\ Current.state = "prepared"
    /\ attempts' = [attempts EXCEPT ![loop.attempt] =
                       [@ EXCEPT !.state = "dispatching", !.dispatched = Now]]
    /\ Append_(<<Event("model.attempt.dispatched", loop.attempt)>>)
    /\ UNCHANGED <<run, task, leases, loop, tools, effects, checkpoints,
                   budget, validation>>

WindowReasons == {"provider_dispatch_deadline_elapsed",
                  "provider_dispatch_window_exhausted"}

RetireUnviableModelDispatch(reason) ==
    /\ Working
    /\ loop.action = "dispatch_model"
    /\ OwnAttempt /\ Current.state = "prepared"
    /\ attempts' = [attempts EXCEPT ![loop.attempt] =
                       [@ EXCEPT !.state = "interrupted", !.done = Now,
                                 !.error = reason, !.retryable = "yes",
                                 !.reservation = "released"]]
    /\ loop' = [loop EXCEPT !.action = "compile_context"]
    /\ budget' = [budget EXCEPT !.reservedCalls = @ - 1]
    /\ AppendCheckpoint(Checkpoint("compile_context", loop.attempt, None,
                                   reason, "none"))
    /\ Append_(<<CheckpointEvent>>)
    /\ UNCHANGED <<run, task, leases, tools, effects, validation>>

Deltas == {k \in DOMAIN log : log[k].kind = "model.output.delta"}

RecordModelProgress ==
    /\ Working
    /\ OwnAttempt /\ Current.state = "dispatching"
    /\ Cardinality(Deltas) < MaxProgress
    /\ Append_(<<Event("model.output.delta", loop.attempt)>>)
    /\ UNCHANGED <<run, task, leases, workVars, validation>>

RecordModelResult(kind) ==
    /\ Working
    /\ loop.action = "dispatch_model"
    /\ OwnAttempt /\ Current.state = "dispatching"
    /\ Current.reservation = "active"
    /\ attempts' = [attempts EXCEPT ![loop.attempt] =
                       [@ EXCEPT !.state = "completed", !.done = Now,
                                 !.response = kind, !.reservation = "settled"]]
    /\ loop' = [loop EXCEPT !.action = IF kind = "final" THEN "commit_final"
                                       ELSE "consume_model_result"]
    /\ budget' = [budget EXCEPT !.reservedCalls = @ - 1, !.calls = @ + 1]
    /\ AppendCheckpoint(Checkpoint(loop'.action, loop.attempt, None,
                                   "model_result_committed", "none"))
    /\ Append_(<<Event("model.attempt.completed", loop.attempt),
                 CheckpointEvent>>)
    /\ UNCHANGED <<run, task, leases, tools, effects, validation>>

RetryAllowed ==
    /\ budget.retries < MaximumRetries
    /\ budget.calls + 1 < MaximumModelCalls
    /\ ~run.elapsed

FailedAttempt(retryable, scheduled) ==
    [attempts EXCEPT ![loop.attempt] =
        [@ EXCEPT !.state = "failed", !.done = Now, !.error = "provider",
                  !.retryable = IF retryable THEN "yes" ELSE "no",
                  !.retryAfter = scheduled, !.reservation = "settled"]]

(* requeue_provider_retry: the failed lease is released in the same        *)
(* transaction, so the retry runs under a later token.                     *)
RequeueProviderRetry ==
    /\ EndLease("released")
    /\ run' = [run EXCEPT !.status = "queued", !.token = @ + 1,
                          !.delayed = TRUE]
    /\ AppendCheckpoint(Checkpoint("compile_context", loop.attempt, None,
                                   "provider_retry_scheduled", "none"))
    /\ Append_(<<Event("model.attempt.failed", loop.attempt), CheckpointEvent,
                 Event("run.requeued", run.token)>>)

RecordModelFailure(retryable) ==
    LET scheduled == retryable /\ RetryAllowed IN
    /\ Working
    /\ loop.action = "dispatch_model"
    /\ OwnAttempt /\ Current.state = "dispatching"
    /\ Current.reservation = "active"
    /\ attempts' = FailedAttempt(retryable, scheduled)
    /\ budget' = [budget EXCEPT !.reservedCalls = @ - 1, !.calls = @ + 1,
                                !.retries = IF scheduled THEN @ + 1 ELSE @]
    /\ \/ /\ scheduled
          /\ loop' = [loop EXCEPT !.action = "compile_context"]
          /\ RequeueProviderRetry
       \/ /\ ~scheduled
          /\ Append_(<<Event("model.attempt.failed", loop.attempt)>>)
          /\ UNCHANGED <<run, leases, loop, checkpoints>>
    /\ UNCHANGED <<task, tools, effects, validation>>

-----------------------------------------------------------------------------
(* Mutant of ToolFits: off by one at the ceiling.                          *)
ToolFitsOneMore ==
    /\ ~run.elapsed
    /\ budget.tools + budget.reservedTools <= MaximumToolCalls

(***************************************************************************)
(* Read tools and delegations.                                             *)
(***************************************************************************)
ToolFits ==
    /\ ~run.elapsed
    /\ budget.tools + budget.reservedTools + 1 <= MaximumToolCalls

Tool == tools[loop.tool]

OwnTool == loop.tool # None /\ Tool.token = run.token

PrepareReadTool ==
    /\ Working
    /\ loop.action = "consume_model_result"
    /\ Current.state = "completed" /\ Current.response \in {"tool", "delegate"}
    /\ ToolFits
    /\ tools' = Append(tools, [state |-> "prepared", attempt |-> loop.attempt,
                               token |-> run.token, started |-> 0,
                               error |-> "none", at |-> Now, done |-> 0])
    /\ loop' = [loop EXCEPT !.action = "dispatch_read_tool",
                            !.tool = Len(tools) + 1]
    /\ budget' = [budget EXCEPT !.reservedTools = @ + 1]
    /\ Append_(<<Event("tool.call.prepared", Len(tools) + 1)>>)
    /\ UNCHANGED <<run, task, leases, attempts, effects, checkpoints,
                   validation>>

DispatchReadTool ==
    /\ Working
    /\ loop.action = "dispatch_read_tool"
    /\ OwnTool /\ Tool.state = "prepared" /\ Current.response = "tool"
    /\ tools' = [tools EXCEPT ![loop.tool] =
                    [@ EXCEPT !.state = "running", !.started = Now]]
    /\ Append_(<<Event("tool.call.started", loop.tool)>>)
    /\ UNCHANGED <<run, task, leases, loop, attempts, effects, checkpoints,
                   budget, validation>>

ToolSucceeded ==
    /\ tools' = [tools EXCEPT ![loop.tool] =
                    [@ EXCEPT !.state = "succeeded", !.done = Now]]
    /\ loop' = [loop EXCEPT !.action = "compile_after_tool"]
    /\ budget' = [budget EXCEPT !.reservedTools = @ - 1, !.tools = @ + 1]
    /\ AppendCheckpoint(Checkpoint("compile_after_tool", None, loop.tool,
                                   "tool_result_committed", "none"))

RecordReadToolResult ==
    /\ Working
    /\ loop.action = "dispatch_read_tool"
    /\ OwnTool /\ Tool.state = "running"
    /\ ToolSucceeded
    /\ Append_(<<Event("tool.call.succeeded", loop.tool), CheckpointEvent>>)
    /\ UNCHANGED <<run, task, leases, attempts, effects, validation>>

LaunchAgentDelegation ==
    /\ Working
    /\ loop.action = "dispatch_read_tool"
    /\ OwnTool /\ Tool.state = "prepared" /\ Current.response = "delegate"
    /\ tools' = [tools EXCEPT ![loop.tool] =
                    [@ EXCEPT !.state = "running", !.started = Now]]
    /\ EndLease("released")
    /\ run' = [run EXCEPT !.status = "waiting", !.token = @ + 1]
    /\ task' = "waiting"
    /\ Append_(<<Event("tool.call.started", loop.tool),
                 Event("lease.released_for_delegation", run.token),
                 Event("run.waiting_for_delegation", run.token)>>)
    /\ UNCHANGED <<loop, attempts, effects, checkpoints, budget, validation>>

SettleDelegatedChild ==
    /\ run.status = "waiting" /\ task \in {"waiting", "cancelling"}
    /\ loop.action = "dispatch_read_tool"
    /\ loop.tool # None /\ Tool.state = "running"
    /\ ToolSucceeded
    /\ run' = [run EXCEPT !.status = "queued", !.delayed = FALSE]
    /\ task' = IF run.cancel THEN "cancelling" ELSE "queued"
    /\ Append_(<<Event("tool.call.succeeded", loop.tool),
                 Event("run.delegation_ready", 0), CheckpointEvent>>)
    /\ UNCHANGED <<leases, attempts, effects, validation>>

-----------------------------------------------------------------------------
(***************************************************************************)
(* Governed effects.  EffectLedger models the effect itself; here it is    *)
(* waiting for a decision, authorized, running, of unknown outcome or      *)
(* terminal.                                                               *)
(***************************************************************************)
EffectOf(a) == {e \in DOMAIN effects : effects[e].attempt = a}

AtEffect(e) ==
    /\ loop.action = "consume_model_result"
    /\ e \in EffectOf(loop.attempt)

RecordAgentEffectProposal ==
    /\ Working /\ task = "running"
    /\ loop.action = "consume_model_result"
    /\ Current.response = "effect" /\ EffectOf(loop.attempt) = {}
    /\ ToolFits
    /\ effects' = Append(effects, [attempt |-> loop.attempt,
                                   state |-> "proposed", observed |-> FALSE,
                                   at |-> Now, done |-> 0])
    /\ budget' = [budget EXCEPT !.reservedTools = @ + 1]
    /\ EndLease("released")
    /\ run' = [run EXCEPT !.status = "waiting", !.token = @ + 1]
    /\ task' = "waiting"
    /\ AppendCheckpoint(Checkpoint("consume_model_result", loop.attempt, None,
                                   "effect_proposed_waiting_for_approval",
                                   "none"))
    /\ Append_(<<Event("effect.proposed", Len(effects) + 1),
                 Event("lease.released_for_approval", run.token),
                 Event("run.waiting_for_approval", 0), CheckpointEvent>>)
    /\ UNCHANGED <<loop, attempts, tools, validation>>

EffectMoves(e, from, to) ==
    /\ effects[e].state = from
    /\ effects' = [effects EXCEPT ![e].state = to]
    /\ UNCHANGED <<run, task, leases, loop, attempts, tools, checkpoints,
                   budget, validation, log>>

(* The operator approves or denies; a reconciliation settles an outcome    *)
(* that nobody saw.                                                        *)
DecideEffect(e) ==
    \/ EffectMoves(e, "proposed", "authorized")
    \/ EffectMoves(e, "proposed", "terminal")
    \/ EffectMoves(e, "outcome_unknown", "terminal")

ResumeAgentEffectRun(e) ==
    /\ run.status = "waiting" /\ task = "waiting"
    /\ ~effects[e].observed
    /\ effects[e].state \in {"authorized", "terminal"}
    /\ run' = [run EXCEPT !.status = "queued", !.delayed = FALSE]
    /\ task' = "queued"
    /\ Append_(<<Event("run.effect_ready", e)>>)
    /\ UNCHANGED <<leases, workVars, validation>>

ExecuteEffect(e) ==
    /\ Working /\ AtEffect(e)
    /\ \/ EffectMoves(e, "authorized", "running")
       \/ EffectMoves(e, "running", "terminal")
       \/ EffectMoves(e, "running", "outcome_unknown")

ParkAgentEffectRun(e) ==
    /\ Fenced /\ task = "running" /\ AtEffect(e)
    /\ effects[e].state = "outcome_unknown"
    /\ EndLease("released")
    /\ run' = [run EXCEPT !.status = "waiting", !.token = @ + 1]
    /\ task' = "waiting"
    /\ Append_(<<Event("lease.released_for_reconciliation", run.token),
                 Event("run.waiting_for_reconciliation", e)>>)
    /\ UNCHANGED <<workVars, validation>>

RecordAgentEffectObservation(e) ==
    /\ Working /\ AtEffect(e)
    /\ effects[e].state = "terminal" /\ ~effects[e].observed
    /\ effects' = [effects EXCEPT ![e] =
                      [@ EXCEPT !.observed = TRUE, !.done = Now]]
    /\ budget' = [budget EXCEPT !.reservedTools = @ - 1, !.tools = @ + 1]
    /\ loop' = [loop EXCEPT !.action = "compile_context", !.tool = None]
    /\ AppendCheckpoint(Checkpoint("compile_context", loop.attempt, None,
                                   "effect_observation_committed", "none"))
    /\ Append_(<<Event("message.tool.effect_observed", e), CheckpointEvent>>)
    /\ UNCHANGED <<run, task, leases, attempts, tools, validation>>

-----------------------------------------------------------------------------
(***************************************************************************)
(* Recovery of an expired lease, and the owner's pause, which fences a     *)
(* running driver through the same recovery.                               *)
(***************************************************************************)
ToolInFlight == loop.tool # None /\ Tool.state \in {"prepared", "running"}

AttemptInFlight ==
    loop.attempt # None /\ Current.state \in {"prepared", "dispatching"}

MayRetry == budget.retries < MaximumRetries

BoundaryClass ==
    CASE loop.action = "none" -> "no_agent_boundary"
      [] ToolInFlight /\ Tool.state = "prepared" ->
            "retry_undispatched_read_tool"
      [] ToolInFlight /\ Tool.state = "running" ->
            IF MayRetry THEN "retry_pure_read_tool"
            ELSE "read_tool_retry_budget_exhausted"
      [] ~ToolInFlight /\ AttemptInFlight /\ Current.state = "prepared" ->
            "retry_undispatched_model"
      [] ~ToolInFlight /\ AttemptInFlight /\ Current.state = "dispatching" ->
            IF MayRetry THEN "retry_provider_outcome_unknown"
            ELSE "provider_retry_budget_exhausted"
      [] OTHER -> "resume_committed_boundary"

Charged == BoundaryClass \in {"retry_pure_read_tool",
                              "retry_provider_outcome_unknown"}
Exhausted == BoundaryClass \in {"read_tool_retry_budget_exhausted",
                                "provider_retry_budget_exhausted"}

(* Mutant of RecoverTool: a tool that had started is not charged.          *)
RecoverToolUncharged ==
    /\ tools' = [tools EXCEPT ![loop.tool] =
                    [@ EXCEPT !.state = "interrupted", !.done = Now,
                              !.error = "daemon_restart"]]
    /\ budget' = [budget EXCEPT
                    !.reservedTools = @ - 1,
                    !.retries = IF Charged THEN @ + 1 ELSE @]
    /\ loop' = IF Exhausted THEN [loop EXCEPT !.action = "dispatch_read_tool"]
               ELSE [loop EXCEPT !.action = "consume_model_result",
                                 !.tool = None]
    /\ UNCHANGED attempts

RecoverTool ==
    /\ tools' = [tools EXCEPT ![loop.tool] =
                    [@ EXCEPT !.state = "interrupted", !.done = Now,
                              !.error = "daemon_restart"]]
    /\ budget' = [budget EXCEPT
                    !.reservedTools = @ - 1,
                    !.tools = IF Tool.state = "running" THEN @ + 1 ELSE @,
                    !.retries = IF Charged THEN @ + 1 ELSE @]
    /\ loop' = IF Exhausted THEN [loop EXCEPT !.action = "dispatch_read_tool"]
               ELSE [loop EXCEPT !.action = "consume_model_result",
                                 !.tool = None]
    /\ UNCHANGED attempts

RecoverAttempt ==
    LET sent == Current.state = "dispatching" IN
    /\ attempts' = [attempts EXCEPT ![loop.attempt] =
          [@ EXCEPT !.state = "interrupted", !.retryable = "yes", !.done = Now,
                    !.error = IF sent
                              THEN "provider_outcome_unknown_after_restart"
                              ELSE "daemon_restart_before_dispatch",
                    !.reservation = IF sent THEN "charged_unknown"
                                    ELSE "released"]]
    /\ budget' = [budget EXCEPT
                    !.reservedCalls = @ - 1,
                    !.calls = IF sent THEN @ + 1 ELSE @,
                    !.retries = IF Charged THEN @ + 1 ELSE @]
    /\ loop' = [loop EXCEPT !.action = IF Exhausted THEN "dispatch_model"
                                       ELSE "compile_context"]
    /\ UNCHANGED tools

RecoverIncompleteAgentBoundary ==
    \/ ToolInFlight /\ RecoverTool
    \/ ~ToolInFlight /\ AttemptInFlight /\ RecoverAttempt
    \/ /\ ~ToolInFlight /\ ~AttemptInFlight
       /\ UNCHANGED <<loop, attempts, tools, budget>>

EffectInFlight ==
    {e \in EffectOf(loop.attempt) :
        /\ loop.action = "consume_model_result"
        /\ effects[e].state \in {"running", "outcome_unknown"}}

RecoverLease(extra) ==
    /\ Fenced
    /\ Disruptible
    /\ RecoverIncompleteAgentBoundary
    /\ EndLease("expired")
    /\ effects' = [e \in DOMAIN effects |->
                     IF e \in EffectInFlight
                     THEN [effects[e] EXCEPT !.state = "outcome_unknown"]
                     ELSE effects[e]]
    /\ run' = [run EXCEPT !.token = @ + 1,
                          !.status = IF EffectInFlight = {} THEN "queued"
                                     ELSE "waiting"]
    /\ IF BoundaryClass \in {"no_agent_boundary", "resume_committed_boundary"}
       THEN /\ Append_(<<Event("lease.expired", run.token),
                         Event("run.requeued", run.token)>> \o extra)
            /\ UNCHANGED checkpoints
       ELSE /\ AppendCheckpoint(Checkpoint(loop'.action, loop.attempt,
                                           loop.tool, "lease_expired",
                                           BoundaryClass))
            /\ Append_(<<Event("lease.expired", run.token),
                         Event("agent.boundary_recovered", run.token),
                         Event("run.requeued", run.token)>> \o extra)
    /\ UNCHANGED validation

LeaseExpires ==
    /\ RecoverLease(<<>>)
    /\ task' = IF run'.status = "waiting" /\ task = "running" THEN "waiting"
               ELSE task

PauseTask ==
    /\ task \in {"queued", "running", "waiting"}
    /\ run.status \notin Terminal /\ ~run.cancel
    /\ task' = "paused"
    /\ \/ run.status = "running" /\ RecoverLease(<<Event("task.paused", 0)>>)
       \/ /\ run.status # "running"
          /\ Disruptible
          /\ Append_(<<Event("task.paused", 0)>>)
          /\ UNCHANGED <<run, leases, workVars, validation>>

ResumeTask ==
    /\ task = "paused"
    /\ task' = run.status
    /\ Append_(<<Event("task.resumed", 0)>>)
    /\ UNCHANGED <<run, leases, workVars, validation>>

-----------------------------------------------------------------------------
(***************************************************************************)
(* Cancellation, validation and completion.                                *)
(***************************************************************************)
WaitsForChild ==
    run.status = "waiting" /\ loop.action = "dispatch_read_tool"

(* An effect that waits for its decision is denied in the same transaction; *)
(* for an authorized one effect_phase3_transition_guard aborts it.         *)
RequestTaskCancellation ==
    /\ run.status \notin Terminal /\ ~run.cancel
    /\ task \in {"queued", "running", "waiting"}
    /\ \A e \in DOMAIN effects : effects[e].state # "authorized"
    /\ run' = [run EXCEPT !.cancel = TRUE, !.delayed = FALSE,
                          !.status = IF @ = "waiting" /\ ~WaitsForChild
                                     THEN "queued" ELSE @]
    /\ task' = "cancelling"
    /\ effects' = [e \in DOMAIN effects |->
                     IF effects[e].state = "proposed"
                     THEN [effects[e] EXCEPT !.state = "terminal"]
                     ELSE effects[e]]
    /\ Append_(<<Event("task.cancellation_requested", 0)>>)
    /\ UNCHANGED <<leases, loop, attempts, tools, checkpoints, budget,
                   validation>>

RecordValidation(verdict) ==
    /\ Working /\ task = "running"
    /\ loop.action = "commit_final"
    /\ validation = "none"
    /\ validation' = verdict
    /\ Append_(<<Event("validation.completed", 0)>>)
    /\ UNCHANGED <<run, task, leases, workVars>>

RunEvent == [succeeded |-> "run.succeeded", failed |-> "run.failed",
             cancelled |-> "run.cancelled"]
TaskEvent == [succeeded |-> "task.succeeded", failed |-> "task.failed",
              cancelled |-> "task.cancelled"]
TurnEvent == [succeeded |-> "turn.completed", failed |-> "turn.failed",
              cancelled |-> "turn.cancelled"]

Complete(status, events) ==
    /\ EndLease("released")
    /\ run' = [run EXCEPT !.status = status, !.token = @ + 1]
    /\ task' = status
    /\ Append_(events \o <<Event(RunEvent[status], run.token),
                           Event(TaskEvent[status], 0),
                           Event(TurnEvent[status], 0)>>)
    /\ UNCHANGED <<effects, checkpoints, validation>>

CommitFinal ==
    /\ Working /\ task = "running" /\ ~run.elapsed
    /\ loop.action = "commit_final"
    /\ validation = "passed"
    /\ Current.state = "completed" /\ Current.response = "final"
    /\ loop' = [loop EXCEPT !.action = "terminal", !.final = loop.attempt]
    /\ Complete("succeeded", <<Event("message.assistant.final", loop.attempt)>>)
    /\ UNCHANGED <<attempts, tools, budget>>

SettledAttempts ==
    [i \in DOMAIN attempts |->
        CASE attempts[i].state = "prepared" ->
                [attempts[i] EXCEPT !.state = "cancelled", !.retryable = "no",
                                    !.reservation = "released", !.done = Now]
          [] attempts[i].state = "dispatching" ->
                [attempts[i] EXCEPT !.state = "interrupted",
                                    !.retryable = "no", !.done = Now,
                                    !.reservation = "charged_unknown",
                                    !.error = "run_terminated"]
          [] OTHER -> attempts[i]]

SettledTools ==
    [i \in DOMAIN tools |->
        CASE tools[i].state = "prepared" ->
                [tools[i] EXCEPT !.state = "cancelled", !.done = Now]
          [] tools[i].state = "running" ->
                [tools[i] EXCEPT !.state = "interrupted", !.done = Now,
                                 !.error = "run_terminated"]
          [] OTHER -> tools[i]]

Incomplete(rows, states) == {i \in DOMAIN rows : rows[i].state \in states}
Unobserved == {e \in DOMAIN effects : ~effects[e].observed}

(* settle_incomplete_agent_work charges what left the process and refuses  *)
(* the completion when the counters do not describe exactly these rows.    *)
SettlementHolds ==
    /\ budget.reservedCalls =
          Cardinality(Incomplete(attempts, {"prepared", "dispatching"}))
    /\ budget.reservedTools =
          Cardinality(Incomplete(tools, {"prepared", "running"}))
          + Cardinality(Unobserved)

SettledBudget ==
    [budget EXCEPT
        !.calls = @ + Cardinality(Incomplete(attempts, {"dispatching"})),
        !.tools = @ + Cardinality(Incomplete(tools, {"running"}))
                    + Cardinality(Unobserved),
        !.reservedCalls = 0, !.reservedTools = 0]

CompleteRun(status) ==
    /\ Fenced
    /\ status = IF run.cancel THEN "cancelled" ELSE "failed"
    /\ SettlementHolds
    /\ attempts' = SettledAttempts
    /\ tools' = SettledTools
    /\ budget' = SettledBudget
    /\ Complete(status, <<>>)
    /\ UNCHANGED loop

-----------------------------------------------------------------------------
ModelStep ==
    \/ PrepareModelAttempt
    \/ DispatchModelAttempt
    \/ \E reason \in WindowReasons : RetireUnviableModelDispatch(reason)
    \/ RecordModelProgress
    \/ \E kind \in ResponseKinds : RecordModelResult(kind)
    \/ \E retryable \in BOOLEAN : RecordModelFailure(retryable)

ToolStep ==
    \/ PrepareReadTool
    \/ DispatchReadTool
    \/ RecordReadToolResult
    \/ LaunchAgentDelegation
    \/ SettleDelegatedChild

EffectStep ==
    \/ RecordAgentEffectProposal
    \/ \E e \in DOMAIN effects :
          \/ DecideEffect(e)
          \/ ResumeAgentEffectRun(e)
          \/ ExecuteEffect(e)
          \/ ParkAgentEffectRun(e)
          \/ RecordAgentEffectObservation(e)

CompletionStep ==
    \/ \E verdict \in {"passed", "failed"} : RecordValidation(verdict)
    \/ CommitFinal
    \/ \E status \in {"failed", "cancelled"} : CompleteRun(status)

OwnerStep == PauseTask \/ ResumeTask \/ RequestTaskCancellation

ClockStep == RetryDue \/ DeadlineElapses \/ LeaseExpires

Finished == run.status \in Terminal /\ UNCHANGED vars

Next ==
    \/ AcquireLease
    \/ ModelStep
    \/ ToolStep
    \/ EffectStep
    \/ CompletionStep
    \/ OwnerStep
    \/ ClockStep
    \/ Finished

Spec == Init /\ [][Next]_vars

-----------------------------------------------------------------------------
(* The rows refer to each other: the loop and every tool name an existing  *)
(* attempt, the iteration counts the attempts, and at most the last lease  *)
(* is active, exactly while the run is running.                            *)
LoopTypeOK ==
    /\ run.status \in Terminal \cup {"queued", "running", "waiting"}
    /\ task \in Terminal \cup {"queued", "running", "waiting", "paused",
                               "cancelling"}
    /\ loop.iteration = Len(attempts)
    /\ loop.attempt = Len(attempts)
    /\ loop.tool \in 0 .. Len(tools)
    /\ \A t \in DOMAIN tools : tools[t].attempt \in DOMAIN attempts
    /\ \A e \in DOMAIN effects : effects[e].attempt \in DOMAIN attempts
    /\ \A k \in DOMAIN leases :
          (leases[k].state = "active") <=> (run.status = "running"
                                            /\ k = Len(leases))

(* What is used and what is reserved stay within the run's limits through  *)
(* retries, lost leases and settlement (reserve_model_budget,              *)
(* prepare_read_tool, recover_incomplete_agent_boundary).                  *)
BudgetHolds ==
    /\ budget.calls + budget.reservedCalls <= MaximumModelCalls
    /\ budget.tools + budget.reservedTools <= MaximumToolCalls
    /\ budget.retries <= MaximumRetries

(* The reserved counters describe exactly the unfinished rows whenever a   *)
(* driver holds the run, so settle_incomplete_agent_work never refuses to  *)
(* complete it.                                                            *)
CompletionSettles == Fenced => SettlementHolds

(* One answer of the model is acted on at most once: it never has two      *)
(* successful tool calls, nor a tool call and a governed effect, however   *)
(* often the lease was lost between the steps.                             *)
AnswerConsumedOnce ==
    \A i \in DOMAIN attempts :
        Cardinality({t \in DOMAIN tools : /\ tools[t].attempt = i
                                         /\ tools[t].state = "succeeded"})
        + Cardinality(EffectOf(i)) <= 1

(* What the loop's transactions promise together: the budget is never       *)
(* overdrawn, a finished run holds no open work or reservation, and an answer is*)
(* acted on once.                                                           *)
LoopSafety ==
  /\ LoopTypeOK
  /\ BudgetHolds
  /\ CompletionSettles
  /\ AnswerConsumedOnce
=============================================================================
