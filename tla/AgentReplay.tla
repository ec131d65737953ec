---------------------------- MODULE AgentReplay ----------------------------
(***************************************************************************)
(* The verifier behind GET /v1/tasks/{id}/replay.  It rebuilds a task from *)
(* what the loop recorded (attempts, tools, effects, budget, checkpoints,  *)
(* leases and journal) and answers whether the evidence is complete.       *)
(*                                                                         *)
(* Each operator is one verify function over the same rows AgentLoop       *)
(* writes.  Digests, JSON forms and identifiers are equal by construction  *)
(* and left out; states, counts, order and times are kept.                 *)
(***************************************************************************)
EXTENDS AgentLoop

Cursors(kind, id) == {k \in DOMAIN log : log[k].kind = kind /\ log[k].id = id}

(* exact_event_cursor and load_exact_terminal_event: one match or none.    *)
Exact(kind, id) == Cardinality(Cursors(kind, id)) = 1

Cursor(kind, id) == CHOOSE k \in Cursors(kind, id) : TRUE

ExactAt(kind, id, at) == Exact(kind, id) /\ log[Cursor(kind, id)].at = at

Precedes(kind, id, cursor) == Exact(kind, id) /\ Cursor(kind, id) < cursor

AttemptEvents == {"model.attempt.prepared", "model.attempt.dispatched",
                  "model.attempt.completed", "model.attempt.failed",
                  "model.output.delta"}
ToolEvents == {"tool.call.prepared", "tool.call.started",
               "tool.call.succeeded"}

CountEvents(kinds, id) ==
    Cardinality({k \in DOMAIN log : log[k].kind \in kinds /\ log[k].id = id})

Bit(b) == IF b THEN 1 ELSE 0

-----------------------------------------------------------------------------
VerifyAttemptReservation(a) ==
    \/ a.state \in {"completed", "failed"} /\ a.reservation = "settled"
    \/ a.state \notin {"completed", "failed"} /\ a.dispatched # 0
       /\ a.reservation = "charged_unknown"
    \/ a.state \notin {"completed", "failed"} /\ a.dispatched = 0
       /\ a.reservation = "released"

VerifyModelProgressEvents(i) ==
    \A k \in Cursors("model.output.delta", i) :
        /\ attempts[i].dispatched # 0
        /\ log[k].at >= attempts[i].dispatched
        /\ log[k].at <= attempts[i].done

VerifyModelAttemptEvents(i) ==
    LET a == attempts[i]
        deltas == Cardinality(Cursors("model.output.delta", i)) IN
    /\ ExactAt("model.attempt.prepared", i, a.at)
    /\ VerifyModelProgressEvents(i)
    /\ CountEvents(AttemptEvents, i) =
          1 + Bit(a.dispatched # 0) + Bit(a.state \in {"completed", "failed"})
            + deltas
    /\ a.dispatched # 0 => ExactAt("model.attempt.dispatched", i, a.dispatched)
    /\ a.state = "completed" => ExactAt("model.attempt.completed", i, a.done)
    /\ a.state = "failed" => ExactAt("model.attempt.failed", i, a.done)

VerifyReplayAttempt(i) ==
    LET a == attempts[i] IN
    /\ a.state \in {"completed", "failed", "cancelled", "interrupted"}
    /\ a.dispatched # 0 => a.dispatched >= a.at /\ a.done >= a.dispatched
    /\ a.done >= a.at
    /\ VerifyAttemptReservation(a)
    /\ a.state = "completed" =>
          a.response # "none" /\ a.error = "none" /\ a.retryable = "null"
          /\ ~a.retryAfter /\ a.dispatched # 0
    /\ a.state # "completed" => a.response = "none"
    /\ a.state = "cancelled" => a.error = "none" /\ a.retryable = "no"
    /\ a.state = "interrupted" =>
          a.error # "none" /\ a.retryable = "yes" /\ ~a.retryAfter
    /\ a.state = "failed" =>
          a.dispatched # 0 /\ a.retryable # "null"
          /\ (a.retryAfter => a.retryable = "yes")
    /\ VerifyModelAttemptEvents(i)

RetriedState(a) ==
    a.state = "interrupted" \/ (a.state = "failed" /\ a.retryAfter)

VerifyAttemptLineage ==
    /\ \A i \in DOMAIN attempts :
          attempts[i].retryOf =
              IF i > 1 /\ RetriedState(attempts[i - 1]) THEN i - 1 ELSE None
    /\ ~RetriedState(attempts[Len(attempts)])

-----------------------------------------------------------------------------
VerifyToolCallEvents(i) ==
    LET t == tools[i] IN
    /\ CountEvents(ToolEvents, i) =
          1 + Bit(t.started # 0) + Bit(t.state = "succeeded")
    /\ ExactAt("tool.call.prepared", i, t.at)
    /\ t.started # 0 => ExactAt("tool.call.started", i, t.started)
    /\ t.state = "succeeded" => ExactAt("tool.call.succeeded", i, t.done)

VerifyReplayTool(i) ==
    LET t == tools[i] IN
    /\ t.state \in {"succeeded", "failed", "cancelled", "interrupted"}
    /\ t.done >= (IF t.started # 0 THEN t.started ELSE t.at)
    /\ t.state = "succeeded" => t.started # 0 /\ t.error = "none"
    /\ VerifyToolCallEvents(i)

LoadReplayAgentEffects ==
    \A e \in DOMAIN effects :
        /\ effects[e].observed
        /\ effects[e].state = "terminal"
        /\ ExactAt("message.tool.effect_observed", e, effects[e].done)

ToolsOf(a) == {t \in DOMAIN tools : tools[t].attempt = a}

VerifyModelToolLinkage ==
    /\ \A s, t \in DOMAIN tools : s < t => tools[s].attempt <= tools[t].attempt
    /\ \A i \in DOMAIN attempts :
          IF attempts[i].response \in {"none", "final"}
          THEN ToolsOf(i) = {} /\ EffectOf(i) = {}
          ELSE \/ /\ ToolsOf(i) # {} /\ EffectOf(i) = {}
                  /\ {t \in ToolsOf(i) : tools[t].state = "succeeded"} =
                     {t \in ToolsOf(i) : \A s \in ToolsOf(i) : s <= t}
               \/ ToolsOf(i) = {} /\ Cardinality(EffectOf(i)) = 1

VerifyToolParentTimelineOrder ==
    \A t \in DOMAIN tools :
        /\ Exact("tool.call.prepared", t)
        /\ Precedes("model.attempt.completed", tools[t].attempt,
                    Cursor("tool.call.prepared", t))

VerifyBudgetUsage ==
    /\ budget.calls = Cardinality({i \in DOMAIN attempts :
          attempts[i].reservation \in {"settled", "charged_unknown"}})
    /\ budget.tools = Len(effects) + Cardinality({t \in DOMAIN tools :
          tools[t].state = "succeeded" \/ tools[t].started # 0})
    /\ budget.retries = Cardinality({c \in DOMAIN checkpoints :
          \/ checkpoints[c].reason = "provider_retry_scheduled"
          \/ checkpoints[c].class \in {"retry_provider_outcome_unknown",
                                       "retry_pure_read_tool"}})

-----------------------------------------------------------------------------
Finals == {i \in DOMAIN attempts : attempts[i].response = "final"}

LastSucceededTool ==
    LET ok == {t \in DOMAIN tools : tools[t].state = "succeeded"} IN
    IF ok = {} THEN None ELSE CHOOSE t \in ok : \A s \in ok : s <= t

VerifyFinalBoundary(f) ==
    /\ loop.action = "terminal"
    /\ loop.iteration = f
    /\ loop.attempt = f
    /\ loop.tool = LastSucceededTool
    /\ loop.final = f

(* The lease that completed the run, and the order of its terminal events. *)
VerifyTerminalGraphAndEvents(f) ==
    /\ run.status = "succeeded" /\ task = "succeeded"
    /\ \E k \in DOMAIN leases :
          /\ leases[k].token = run.token - 1
          /\ leases[k].state = "released"
          /\ ExactAt("message.assistant.final", f, leases[k].ended)
          /\ ExactAt("run.succeeded", run.token - 1, leases[k].ended)
          /\ ExactAt("task.succeeded", 0, leases[k].ended)
          /\ ExactAt("turn.completed", 0, leases[k].ended)
    /\ Precedes("model.attempt.completed", f,
                Cursor("message.assistant.final", f))
    /\ Cursor("message.assistant.final", f) < Cursor("run.succeeded", run.token - 1)
    /\ Cursor("run.succeeded", run.token - 1) < Cursor("task.succeeded", 0)
    /\ Cursor("task.succeeded", 0) < Cursor("turn.completed", 0)

-----------------------------------------------------------------------------
(***************************************************************************)
(* Checkpoints.                                                            *)
(***************************************************************************)
Lease(token) == CHOOSE k \in DOMAIN leases : leases[k].token = token

LeaseEnded(token, state, at) ==
    /\ leases[Lease(token)].state = state
    /\ leases[Lease(token)].ended = at

HasLease(token) == \E k \in DOMAIN leases : leases[k].token = token

RetryNext(i) == {n \in DOMAIN attempts : attempts[n].retryOf = i}

VerifyProviderRetryLifecycle(c) ==
    LET i == c.attempt
        token == attempts[i].token IN
    /\ attempts[i].state = "failed" /\ attempts[i].retryAfter
    /\ attempts[i].done = c.at
    /\ i + 1 \in RetryNext(i)
    /\ LeaseEnded(token, "released", c.at)
    /\ attempts[i + 1].token = token + 2
    /\ ExactAt("run.requeued", token, c.at)
    /\ Exact("run.started", token + 2)
    /\ Cursor("run.requeued", token) < Cursor("run.started", token + 2)
    /\ Exact("model.attempt.prepared", i + 1)
    /\ Cursor("run.started", token + 2) < Cursor("model.attempt.prepared", i + 1)

VerifyRecoveryCheckpointTimelineOrder(c, cursor) ==
    CASE c.class = "retry_undispatched_model" ->
            Precedes("model.attempt.prepared", c.attempt, cursor)
      [] c.class \in {"retry_provider_outcome_unknown",
                      "provider_retry_budget_exhausted"} ->
            Precedes("model.attempt.dispatched", c.attempt, cursor)
      [] c.class = "retry_undispatched_read_tool" ->
            Precedes("tool.call.prepared", c.tool, cursor)
      [] c.class \in {"retry_pure_read_tool",
                      "read_tool_retry_budget_exhausted"} ->
            Precedes("tool.call.started", c.tool, cursor)
      [] OTHER -> FALSE

(* The fence of the boundary is read from the attempt whenever the         *)
(* checkpoint names one, and from the tool only when it does not.          *)
BoundaryToken(c) ==
    IF c.attempt # None THEN attempts[c.attempt].token ELSE tools[c.tool].token

VerifyRecoveryLifecycle(c) ==
    LET token == BoundaryToken(c) IN
    /\ LeaseEnded(token, "expired", c.at)
    /\ ExactAt("lease.expired", token, c.at)
    /\ ExactAt("agent.boundary_recovered", token, c.at)
    /\ ExactAt("run.requeued", token, c.at)
    /\ HasLease(token + 2)
    /\ Exact("run.started", token + 2)
    /\ Cursor("lease.expired", token) < Cursor("agent.boundary_recovered", token)
    /\ Cursor("agent.boundary_recovered", token) < Cursor("run.requeued", token)
    /\ Cursor("run.requeued", token) < Cursor("run.started", token + 2)

VerifyRecoveryCheckpoint(c) ==
    LET a == attempts[c.attempt]
        t == tools[c.tool]
        Model(dispatched, error, reservation, action) ==
            /\ a.state = "interrupted" /\ (a.dispatched # 0) = dispatched
            /\ a.error = error /\ a.reservation = reservation
            /\ a.done = c.at /\ c.action = action
        ReadTool(started, action) ==
            /\ t.state = "interrupted" /\ (t.started # 0) = started
            /\ t.error = "daemon_restart" /\ t.done = c.at
            /\ c.action = action IN
    CASE c.class = "retry_undispatched_model" ->
            Model(FALSE, "daemon_restart_before_dispatch", "released",
                  "compile_context")
      [] c.class = "retry_provider_outcome_unknown" ->
            Model(TRUE, "provider_outcome_unknown_after_restart",
                  "charged_unknown", "compile_context")
      [] c.class = "provider_retry_budget_exhausted" ->
            Model(TRUE, "provider_outcome_unknown_after_restart",
                  "charged_unknown", "dispatch_model")
      [] c.class = "retry_undispatched_read_tool" ->
            ReadTool(FALSE, "consume_model_result")
      [] c.class = "retry_pure_read_tool" ->
            ReadTool(TRUE, "consume_model_result")
      [] c.class = "read_tool_retry_budget_exhausted" ->
            ReadTool(TRUE, "dispatch_read_tool")
      [] OTHER -> FALSE

VerifyUndispatchedProviderWindowCheckpoint(c, cursor) ==
    LET a == attempts[c.attempt] IN
    /\ c.action = "compile_context" /\ c.tool = None
    /\ a.state = "interrupted" /\ a.dispatched = 0 /\ a.error = c.reason
    /\ a.retryable = "yes" /\ a.reservation = "released" /\ a.done = c.at
    /\ Precedes("model.attempt.prepared", c.attempt, cursor)
    /\ Cursors("model.attempt.dispatched", c.attempt) = {}

EffectsOf(c) == EffectOf(c.attempt)

VerifyCheckpointTimelineOrder(c, cursor) ==
    CASE c.action = "dispatch_model" ->
            /\ Precedes("model.attempt.prepared", c.attempt, cursor)
            /\ \A k \in Cursors("model.attempt.dispatched", c.attempt) : cursor < k
      [] c.reason = "effect_proposed_waiting_for_approval" ->
            /\ Precedes("model.attempt.completed", c.attempt, cursor)
            /\ \E e \in EffectsOf(c) : Precedes("effect.proposed", e, cursor)
      [] c.reason = "model_result_committed" ->
            Precedes("model.attempt.completed", c.attempt, cursor)
      [] c.action = "compile_after_tool" ->
            Precedes("tool.call.succeeded", c.tool, cursor)
      [] c.reason = "provider_retry_scheduled" ->
            Precedes("model.attempt.failed", c.attempt, cursor)
      [] c.reason = "effect_observation_committed" ->
            \E e \in EffectsOf(c) :
                Precedes("message.tool.effect_observed", e, cursor)
      [] OTHER -> FALSE

VerifyCheckpointSemantics(c) ==
    CASE c.reason = "provider_retry_scheduled" ->
            /\ c.action = "compile_context"
            /\ attempts[c.attempt].state = "failed"
            /\ attempts[c.attempt].retryable = "yes"
            /\ attempts[c.attempt].retryAfter
            /\ attempts[c.attempt].done = c.at
      [] c.reason = "effect_proposed_waiting_for_approval" ->
            /\ c.action = "consume_model_result"
            /\ \E e \in EffectsOf(c) : effects[e].at = c.at
      [] c.reason = "effect_observation_committed" ->
            /\ c.action = "compile_context"
            /\ \E e \in EffectsOf(c) : effects[e].done = c.at
      [] c.reason = "model_attempt_prepared" ->
            c.action = "dispatch_model" /\ attempts[c.attempt].at = c.at
      [] c.reason = "model_result_committed" ->
            /\ c.action = IF attempts[c.attempt].response = "final"
                          THEN "commit_final" ELSE "consume_model_result"
            /\ attempts[c.attempt].done = c.at
      [] c.reason = "tool_result_committed" ->
            /\ c.action = "compile_after_tool"
            /\ tools[c.tool].state = "succeeded"
            /\ tools[c.tool].done = c.at
      [] OTHER -> FALSE

CheckpointCursor(n) ==
    IF checkpoints[n].reason = "lease_expired"
    THEN CHOOSE k \in DOMAIN log :
            log[k].kind = "agent.boundary_recovered"
            /\ log[k].at = checkpoints[n].at
    ELSE Cursor("agent.loop.checkpoint", n)

VerifyCheckpoint(n) ==
    LET c == checkpoints[n]
        cursor == CheckpointCursor(n) IN
    CASE c.reason = "lease_expired" ->
            /\ VerifyRecoveryCheckpointTimelineOrder(c, cursor)
            /\ VerifyRecoveryLifecycle(c)
            /\ VerifyRecoveryCheckpoint(c)
      [] c.reason \in WindowReasons ->
            VerifyUndispatchedProviderWindowCheckpoint(c, cursor)
      [] OTHER ->
            /\ c.reason = "provider_retry_scheduled" =>
                  VerifyProviderRetryLifecycle(c)
            /\ VerifyCheckpointTimelineOrder(c, cursor)
            /\ VerifyCheckpointSemantics(c)

With(reason) == {n \in DOMAIN checkpoints : checkpoints[n].reason = reason}

ModelBoundaries ==
    {n \in DOMAIN checkpoints :
        \/ checkpoints[n].reason \in WindowReasons
        \/ checkpoints[n].class \in {"retry_undispatched_model",
                                     "retry_provider_outcome_unknown",
                                     "provider_retry_budget_exhausted"}}
ToolBoundaries == With("lease_expired") \ ModelBoundaries

(* Each row is named once by a checkpoint of its kind: the HashSet inserts *)
(* of the chain refuse a second one, the final counts a missing one.       *)
Named(ns, rows, Key(_)) ==
    /\ \A m, n \in ns : Key(m) = Key(n) => m = n
    /\ {Key(n) : n \in ns} = rows

VerifyCheckpointChain(f) ==
    LET attemptOf(n) == checkpoints[n].attempt
        toolOf(n) == checkpoints[n].tool IN
    /\ \A n \in DOMAIN checkpoints : VerifyCheckpoint(n)
    /\ Named(ModelBoundaries, Incomplete(attempts, {"interrupted"}), attemptOf)
    /\ Named(ToolBoundaries, Incomplete(tools, {"interrupted"}), toolOf)
    /\ Named(With("model_attempt_prepared"), DOMAIN attempts, attemptOf)
    /\ Named(With("model_result_committed"),
             Incomplete(attempts, {"completed"}), attemptOf)
    /\ Named(With("tool_result_committed"),
             Incomplete(tools, {"succeeded"}), toolOf)
    /\ checkpoints[Len(checkpoints)].action = "commit_final"
    /\ checkpoints[Len(checkpoints)].attempt = f

-----------------------------------------------------------------------------
VerifyRecordedReplay ==
    /\ attempts # <<>>
    /\ loop.final # None
    /\ budget.reservedCalls = 0 /\ budget.reservedTools = 0
    /\ \A i \in DOMAIN attempts : VerifyReplayAttempt(i)
    /\ \A t \in DOMAIN tools : VerifyReplayTool(t)
    /\ LoadReplayAgentEffects
    /\ VerifyAttemptLineage
    /\ VerifyModelToolLinkage
    /\ VerifyToolParentTimelineOrder
    /\ VerifyBudgetUsage
    /\ Finals = {Len(attempts)}
    /\ VerifyFinalBoundary(Len(attempts))
    /\ VerifyTerminalGraphAndEvents(Len(attempts))
    /\ VerifyCheckpointChain(Len(attempts))

ReplayAgentTask == task = "succeeded" /\ VerifyRecordedReplay

-----------------------------------------------------------------------------
(***************************************************************************)
(* Histories of a succeeded run that the verifier refuses.                 *)
(***************************************************************************)

(* A read tool was interrupted under a later lease than the one that       *)
(* prepared its model attempt.                                             *)
ToolOutlivedLease ==
    \E t \in DOMAIN tools :
        /\ tools[t].state = "interrupted"
        /\ tools[t].token # attempts[tools[t].attempt].token

(* The lease taken for a scheduled retry was lost before the retry was     *)
(* prepared.                                                               *)
RetryLeaseLost ==
    \E i \in DOMAIN attempts :
        /\ i > 1 /\ attempts[i].retryOf = i - 1
        /\ attempts[i - 1].state = "failed"
        /\ attempts[i].token # attempts[i - 1].token + 2

(* A governed effect was observed after the last read tool.                *)
EffectAfterTool ==
    \E e \in DOMAIN effects, t \in DOMAIN tools :
        /\ t = LastSucceededTool
        /\ effects[e].observed /\ effects[e].done > tools[t].done

(* GET /v1/tasks/{id}/replay reports complete evidence for a succeeded run *)
(* exactly when none of the three histories happened: no other interleaving*)
(* of lease losses, retries, pauses, tools and effects makes the verifier  *)
(* refuse what the loop recorded.                                          *)
ReplayVerdict ==
    run.status = "succeeded" =>
        (ReplayAgentTask <=>
            ~(ToolOutlivedLease \/ RetryLeaseLost \/ EffectAfterTool))
=============================================================================
