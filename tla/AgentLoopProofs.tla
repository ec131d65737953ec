-------------------------- MODULE AgentLoopProofs --------------------------
(***************************************************************************)
(* Proofs about AgentLoop, for every budget and every number of attempts,  *)
(* lost leases, pauses and cancellations: the budget is never overdrawn,   *)
(* the reserved counters always describe the unfinished rows, and one      *)
(* answer of the model is acted on once.                                   *)
(***************************************************************************)
EXTENDS AgentLoop, TLAPS

USE LoopAssumption

-----------------------------------------------------------------------------
(* The inductive invariant: the types of the rows first. *)

RunStatus == {"succeeded", "failed", "cancelled", "queued", "running", "waiting"}
TaskStatus == RunStatus \cup {"paused", "cancelling"}
Actions == {"none", "dispatch_model", "compile_context", "compile_after_tool",
            "consume_model_result", "commit_final", "dispatch_read_tool",
            "terminal"}
Responses == {"tool", "delegate", "effect", "final", "none"}
Errors ==
    {"none", "provider", "provider_dispatch_deadline_elapsed",
     "provider_dispatch_window_exhausted", "daemon_restart",
     "provider_outcome_unknown_after_restart", "daemon_restart_before_dispatch",
     "run_terminated"}
AttemptStates == {"prepared", "dispatching", "completed", "failed",
                  "interrupted", "cancelled"}
ToolStates == {"prepared", "running", "succeeded", "interrupted", "cancelled"}
AttemptRows ==
    [state : AttemptStates, token : Nat, retryOf : Nat,
     retryable : {"null", "yes", "no"}, retryAfter : BOOLEAN,
     reservation : {"active", "released", "settled", "charged_unknown"},
     dispatched : Nat, response : Responses, error : Errors, at : Nat,
     done : Nat]
ToolRows ==
    [state : ToolStates, attempt : Nat, token : Nat, started : Nat,
     error : Errors, at : Nat, done : Nat]
EffectStates == {"proposed", "authorized", "running", "outcome_unknown", "terminal"}
EffectRows ==
    [attempt : Nat, state : EffectStates,
     observed : BOOLEAN, at : Nat, done : Nat]
LeaseRows ==
    [token : Nat, state : {"active", "released", "expired"}, at : Nat,
     ended : Nat]

LoopRows ==
    [action : Actions, iteration : Nat, attempt : Nat, tool : Nat, final : Nat]
BudgetRows ==
    [calls : Nat, reservedCalls : Nat, tools : Nat, reservedTools : Nat,
     retries : Nat]
RunRows ==
    [status : RunStatus, token : Nat, cancel : BOOLEAN, delayed : BOOLEAN,
     elapsed : BOOLEAN]

RowTypes ==
    /\ attempts \in Seq(AttemptRows)
    /\ tools \in Seq(ToolRows)
    /\ effects \in Seq(EffectRows)
    /\ loop \in LoopRows
    /\ budget \in BudgetRows

RunTypes ==
    /\ run \in RunRows
    /\ task \in TaskStatus
    /\ leases \in Seq(LeaseRows)
    /\ log \in Seq({log[k] : k \in DOMAIN log})

(* The rows the loop is at exist. *)
LoopIsAtRows ==
    /\ loop.iteration = Len(attempts) /\ loop.attempt = Len(attempts)
    /\ loop.tool \in 0 .. Len(tools)
    /\ loop.action # "none" => loop.attempt # None
    /\ \A t \in DOMAIN tools : tools[t].attempt \in DOMAIN attempts
    /\ \A e \in DOMAIN effects : effects[e].attempt \in DOMAIN attempts

(* Nothing is under way but what the loop's action is about. *)
AttemptOpen(i) == attempts[i].state \in {"prepared", "dispatching"}
ToolOpen(t) == tools[t].state \in {"prepared", "running"}

OpenAttempt ==
    \A i \in DOMAIN attempts :
        AttemptOpen(i) => i = loop.attempt /\ loop.action = "dispatch_model"
OpenTool ==
    \A t \in DOMAIN tools :
        ToolOpen(t) => t = loop.tool /\ loop.action = "dispatch_read_tool"
                       /\ tools[t].attempt = loop.attempt
OpenEffect ==
    \A e \in DOMAIN effects :
        ~effects[e].observed => effects[e].attempt = loop.attempt
                                /\ loop.action = "consume_model_result"

(* Tools and effects come from answers that asked for them. *)
AnswerIsComplete ==
    \A i \in DOMAIN attempts :
        attempts[i].response # "none" => attempts[i].state = "completed"
ToolsAskedFor ==
    \A t \in DOMAIN tools :
        attempts[tools[t].attempt].response \in {"tool", "delegate"}
EffectsAskedFor ==
    \A e \in DOMAIN effects : attempts[effects[e].attempt].response = "effect"

(* An answer has one successful tool call or one effect, and while the loop *)
(* still works on an answer no tool call has succeeded for it.              *)
OneSuccess ==
    \A t, u \in DOMAIN tools :
        /\ tools[t].state = "succeeded" /\ tools[u].state = "succeeded"
        /\ tools[t].attempt = tools[u].attempt
        => t = u
OneEffect ==
    \A e, f \in DOMAIN effects :
        effects[e].attempt = effects[f].attempt => e = f
NoneYet ==
    loop.action \in {"consume_model_result", "dispatch_read_tool"} =>
        \A t \in DOMAIN tools :
            tools[t].state = "succeeded" => tools[t].attempt # loop.attempt

(* What is reserved is what is under way. *)
CallsReserved == budget.reservedCalls = IF AttemptInFlight THEN 1 ELSE 0
ToolsReserved ==
    budget.reservedTools =
        IF ToolInFlight \/ (run.status \notin Terminal /\ Unobserved # {})
        THEN 1 ELSE 0

LeaseIsLast ==
    /\ run.status = "running" => Len(leases) # 0
    /\ \A k \in DOMAIN leases :
          leases[k].state = "active" <=> (run.status = "running"
                                          /\ k = Len(leases))

WorkInv ==
    /\ RowTypes /\ LoopIsAtRows
    /\ OpenAttempt /\ OpenTool /\ OpenEffect
    /\ AnswerIsComplete /\ ToolsAskedFor /\ EffectsAskedFor
    /\ OneSuccess /\ OneEffect /\ NoneYet
    /\ CallsReserved /\ ToolsReserved /\ BudgetHolds

RunInv == RunTypes /\ LeaseIsLast

LoopInv == WorkInv /\ RunInv

-----------------------------------------------------------------------------
(* The cardinality of the empty set and of a singleton, from the definition. *)
LEMMA CardNone == Cardinality({}) = 0
  <1> DEFINE Def(f, S) == f = [T \in SUBSET S |-> IF T = {} THEN 0
                               ELSE 1 + f[T \ {CHOOSE x : x \in T}]]
  <1>1. Cardinality({}) = (CHOOSE f : Def(f, {}))[{}]
    BY DEF Cardinality
  <1>2. Def([T \in SUBSET {} |-> 0], {})
    OBVIOUS
  <1>3. Def(CHOOSE f : Def(f, {}), {})
    <2> HIDE DEF Def
    <2> QED BY <1>2, Zenon
  <1> QED
    BY <1>1, <1>3

LEMMA CardOne ==
  ASSUME NEW a
  PROVE  Cardinality({a}) = 1
  <1> DEFINE Def(f, S) == f = [T \in SUBSET S |-> IF T = {} THEN 0
                               ELSE 1 + f[T \ {CHOOSE x : x \in T}]]
             g == [T \in SUBSET {a} |-> IF T = {} THEN 0 ELSE 1]
             h == CHOOSE f : Def(f, {a})
  <1>1. (CHOOSE x : x \in {a}) = a
    BY Zenon
  <1>2. SUBSET {a} = {{}, {a}}
    OBVIOUS
  <1>3. {a} \ {a} = {}
    OBVIOUS
  <1>4. Cardinality({a}) = h[{a}]
    BY DEF Cardinality
  <1>5. Def(g, {a})
    <2>1. \A T \in SUBSET {a} :
             g[T] = IF T = {} THEN 0 ELSE 1 + g[T \ {CHOOSE x : x \in T}]
      BY <1>1, <1>2, <1>3
    <2> QED
      BY <2>1
  <1>6. Def(h, {a})
    <2> HIDE DEF Def, g
    <2> QED
      BY <1>5, Zenon
  <1>7. h[{}] = 0
    BY <1>6
  <1>8. h[{a}] = 1 + h[{a} \ {CHOOSE x : x \in {a}}]
    <2> HIDE DEF h
    <2>1. {a} # {} /\ {a} \in SUBSET {a}
      OBVIOUS
    <2> QED
      BY <1>6, <2>1, Zenon
  <1> HIDE DEF h
  <1>9. h[{a}] = 1 + h[{}]
    BY <1>1, <1>8, <1>3, Zenon
  <1> QED
    BY <1>4, <1>7, <1>9

(* Sequences of rows. *)

(* Writing one row leaves the others, and the number of rows, alone. *)
LEMMA RowChanged ==
  ASSUME NEW S, NEW q \in Seq(S), NEW k \in DOMAIN q, NEW row \in S,
         NEW p, p = [q EXCEPT ![k] = row]
  PROVE  /\ p \in Seq(S) /\ Len(p) = Len(q) /\ DOMAIN p = DOMAIN q
         /\ p[k] = row /\ \A j \in DOMAIN q : j # k => p[j] = q[j]
  OBVIOUS

(* Inserting a row leaves the earlier rows alone. *)
LEMMA RowAppended ==
  ASSUME NEW S, NEW q \in Seq(S), NEW row \in S, NEW p, p = Append(q, row)
  PROVE  /\ p \in Seq(S) /\ Len(p) = Len(q) + 1 /\ Len(p) \in DOMAIN p
         /\ DOMAIN p = DOMAIN q \cup {Len(p)} /\ Len(p) \notin DOMAIN q
         /\ p[Len(p)] = row /\ \A j \in DOMAIN q : p[j] = q[j]
  OBVIOUS

(* A sequence whose every row is rewritten keeps its length. *)
LEMMA RowsMapped ==
  ASSUME NEW S, NEW q \in Seq(S), NEW p, DOMAIN p = DOMAIN q,
         p = [k \in DOMAIN q |-> p[k]], \A k \in DOMAIN q : p[k] \in S
  PROVE  p \in Seq(S) /\ Len(p) = Len(q)
  OBVIOUS

(* Sets of at most one row have cardinality 0 or 1. *)
LEMMA NoneOrOne ==
  ASSUME NEW S, NEW x, S \subseteq {x}
  PROVE  /\ x \in S => Cardinality(S) = 1
         /\ x \notin S => Cardinality(S) = 0
  <1>1. CASE x \in S
    <2>1. S = {x}
      BY <1>1, Zenon
    <2> QED
      BY <1>1, <2>1, CardOne, Zenon
  <1>2. CASE x \notin S
    <2>1. S = {}
      BY <1>2, Zenon
    <2> QED
      BY <1>2, <2>1, CardNone, Zenon
  <1> QED
    BY <1>1, <1>2, Zenon

-----------------------------------------------------------------------------
(* What the invariant says of the current attempt and the current tool. *)

LEMMA WorkFacts ==
  ASSUME WorkInv
  PROVE  /\ Len(attempts) \in Nat /\ DOMAIN attempts = 1 .. Len(attempts)
         /\ Len(tools) \in Nat /\ DOMAIN tools = 1 .. Len(tools)
         /\ Len(effects) \in Nat /\ DOMAIN effects = 1 .. Len(effects)
         /\ \A i \in DOMAIN attempts : attempts[i] \in AttemptRows
         /\ \A i \in DOMAIN tools : tools[i] \in ToolRows
         /\ \A i \in DOMAIN effects : effects[i] \in EffectRows
  BY DEF WorkInv, RowTypes

LEMMA AttemptFacts ==
  ASSUME WorkInv
  PROVE  /\ loop.attempt # None => loop.attempt \in DOMAIN attempts
         /\ loop.tool # None => loop.tool \in DOMAIN tools
         /\ AttemptInFlight => /\ loop.attempt \in DOMAIN attempts
                               /\ AttemptOpen(loop.attempt)
                               /\ loop.action = "dispatch_model"
         /\ ToolInFlight => /\ loop.tool \in DOMAIN tools
                            /\ ToolOpen(loop.tool)
                            /\ loop.action = "dispatch_read_tool"
                            /\ Tool.attempt = loop.attempt
  <1>1. loop.attempt # None => loop.attempt \in DOMAIN attempts
    BY WorkFacts DEF WorkInv, LoopIsAtRows, None
  <1>2. loop.tool # None => loop.tool \in DOMAIN tools
    BY WorkFacts DEF WorkInv, LoopIsAtRows, None
  <1>3. AttemptInFlight => AttemptOpen(loop.attempt) /\ loop.attempt # None
    BY Zenon DEF AttemptInFlight, AttemptOpen, Current
  <1>4. ToolInFlight => ToolOpen(loop.tool) /\ loop.tool # None
    BY Zenon DEF ToolInFlight, ToolOpen, Tool
  <1> QED
    BY <1>1, <1>2, <1>3, <1>4, Zenon DEF WorkInv, OpenAttempt, OpenTool, Tool

(* The unfinished rows are the current ones. *)
LEMMA OpenRows ==
  ASSUME WorkInv
  PROVE  /\ Incomplete(attempts, {"prepared", "dispatching"})
               = IF AttemptInFlight THEN {loop.attempt} ELSE {}
         /\ Incomplete(tools, {"prepared", "running"})
               = IF ToolInFlight THEN {loop.tool} ELSE {}
  <1>1. \A i : i \in Incomplete(attempts, {"prepared", "dispatching"})
               <=> AttemptInFlight /\ i = loop.attempt
    <2>1. ASSUME NEW i \in DOMAIN attempts, AttemptOpen(i)
          PROVE  AttemptInFlight /\ i = loop.attempt
      <3>1. i = loop.attempt /\ i # None
        BY <2>1, WorkFacts DEF WorkInv, OpenAttempt, None
      <3> QED
        BY <2>1, <3>1, Zenon DEF AttemptInFlight, AttemptOpen, Current
    <2> QED
      BY <2>1, AttemptFacts, Zenon DEF Incomplete, AttemptOpen
  <1>2. \A i : i \in Incomplete(tools, {"prepared", "running"})
               <=> ToolInFlight /\ i = loop.tool
    <2>1. ASSUME NEW i \in DOMAIN tools, ToolOpen(i)
          PROVE  ToolInFlight /\ i = loop.tool
      <3>1. i = loop.tool /\ i # None
        BY <2>1, WorkFacts DEF WorkInv, OpenTool, None
      <3> QED
        BY <2>1, <3>1, Zenon DEF ToolInFlight, ToolOpen, Tool
    <2> QED
      BY <2>1, AttemptFacts, Zenon DEF Incomplete, ToolOpen
  <1> QED
    BY <1>1, <1>2, Zenon

(* At most one effect is unobserved, and then no tool is under way. *)
LEMMA OneUnobserved ==
  ASSUME WorkInv
  PROVE  /\ Unobserved = {} \/ \E e \in DOMAIN effects : Unobserved = {e}
         /\ Unobserved # {} => ~ToolInFlight /\ ~AttemptInFlight
  <1>1. \A e, f \in Unobserved : e = f
    BY Zenon DEF Unobserved, WorkInv, OpenEffect, OneEffect
  <1>2. Unobserved # {} => loop.action = "consume_model_result"
    BY Zenon DEF Unobserved, WorkInv, OpenEffect
  <1>3. Unobserved = {} \/ \E e \in DOMAIN effects : Unobserved = {e}
    <2> SUFFICES ASSUME NEW e \in Unobserved
                 PROVE  Unobserved = {e} /\ e \in DOMAIN effects
      BY Zenon
    <2> QED
      BY <1>1, Zenon DEF Unobserved
  <1>4. "consume_model_result" # "dispatch_read_tool"
        /\ "consume_model_result" # "dispatch_model"
    OBVIOUS
  <1> QED
    BY <1>2, <1>3, <1>4, AttemptFacts, Zenon

LEMMA SettlementFollows ==
  ASSUME WorkInv, run.status \notin Terminal
  PROVE  SettlementHolds
  <1>1. budget.reservedCalls = Cardinality(Incomplete(attempts, {"prepared", "dispatching"}))
    <2>1. Cardinality({loop.attempt}) = 1 /\ Cardinality({}) = 0
      BY CardOne, CardNone, Zenon
    <2>2. budget.reservedCalls = IF AttemptInFlight THEN 1 ELSE 0
      BY Zenon DEF WorkInv, CallsReserved
    <2> QED
      BY <2>1, <2>2, OpenRows, Zenon
  <1>2. budget.reservedTools = Cardinality(Incomplete(tools, {"prepared", "running"}))
                               + Cardinality(Unobserved)
    <2>1. Cardinality({loop.tool}) = 1 /\ Cardinality({}) = 0
          /\ \A e \in DOMAIN effects : Cardinality({e}) = 1
      BY CardOne, CardNone, Zenon
    <2>2. budget.reservedTools = IF ToolInFlight \/ Unobserved # {} THEN 1 ELSE 0
      BY Zenon DEF WorkInv, ToolsReserved
    <2>3. Cardinality(Incomplete(tools, {"prepared", "running"}))
            = IF ToolInFlight THEN 1 ELSE 0
      BY <2>1, OpenRows, Zenon
    <2>4. Cardinality(Unobserved) = IF Unobserved = {} THEN 0 ELSE 1
      BY <2>1, OneUnobserved, Zenon
    <2>5. Unobserved # {} => ~ToolInFlight
      BY OneUnobserved, Zenon
    <2> QED
      BY <2>2, <2>3, <2>4, <2>5
  <1> QED
    BY <1>1, <1>2, Zenon DEF SettlementHolds

LEMMA OnceFollows ==
  ASSUME WorkInv
  PROVE  AnswerConsumedOnce
  <1> SUFFICES ASSUME NEW i \in DOMAIN attempts
               PROVE  Cardinality({t \in DOMAIN tools :
                          tools[t].attempt = i /\ tools[t].state = "succeeded"})
                      + Cardinality(EffectOf(i)) <= 1
    BY Zenon DEF AnswerConsumedOnce
  <1> DEFINE D == {t \in DOMAIN tools :
                     tools[t].attempt = i /\ tools[t].state = "succeeded"}
  <1>1. D = {} \/ \E t : D = {t}
    <2> SUFFICES ASSUME NEW t \in D PROVE D = {t}
      BY Zenon
    <2> QED
      BY Zenon DEF WorkInv, OneSuccess
  <1>2. EffectOf(i) = {} \/ \E e : EffectOf(i) = {e}
    <2> SUFFICES ASSUME NEW e \in EffectOf(i) PROVE EffectOf(i) = {e}
      BY Zenon
    <2> QED
      BY Zenon DEF WorkInv, OneEffect, EffectOf
  <1>3. D = {} \/ EffectOf(i) = {}
    <2> SUFFICES ASSUME NEW t \in D, NEW e \in EffectOf(i) PROVE FALSE
      BY Zenon
    <2>1. attempts[i].response \in {"tool", "delegate"} /\ attempts[i].response = "effect"
      BY Zenon DEF WorkInv, ToolsAskedFor, EffectsAskedFor, EffectOf
    <2> QED
      BY <2>1
  <1> HIDE DEF D
  <1>4. Cardinality({}) = 0 /\ \A x : Cardinality({x}) = 1
    BY CardNone, CardOne, Zenon
  <1>5. /\ D = {} => Cardinality(D) = 0
        /\ D # {} => Cardinality(D) = 1
    BY <1>1, <1>4, Zenon
  <1>6. /\ EffectOf(i) = {} => Cardinality(EffectOf(i)) = 0
        /\ EffectOf(i) # {} => Cardinality(EffectOf(i)) = 1
    BY <1>2, <1>4, Zenon
  <1>7. Cardinality(D) + Cardinality(EffectOf(i)) <= 1
    BY <1>3, <1>5, <1>6
  <1> QED
    BY <1>7, Zenon DEF D

LEMMA SafetyFollows ==
  ASSUME LoopInv
  PROVE  LoopSafety
  <1>1. LoopTypeOK
    BY Zenon DEF LoopInv, WorkInv, RunInv, RunTypes, LoopIsAtRows, LeaseIsLast,
                 RunRows, RunStatus, TaskStatus, Terminal, LoopTypeOK
  <1>2. CompletionSettles
    <2>1. Fenced => run.status \notin Terminal
      BY DEF Fenced, Terminal
    <2> QED
      BY <2>1, SettlementFollows, Zenon DEF LoopInv, CompletionSettles
  <1> QED
    BY <1>1, <1>2, OnceFollows, Zenon DEF LoopInv, WorkInv, LoopSafety

(* Nothing is under way that the loop's action is not about. *)
LEMMA Elsewhere ==
  ASSUME WorkInv
  PROVE  /\ loop.action # "dispatch_model" =>
               /\ \A i \in DOMAIN attempts : ~AttemptOpen(i)
               /\ ~AttemptInFlight
         /\ loop.action # "dispatch_read_tool" =>
               (\A t \in DOMAIN tools : ~ToolOpen(t)) /\ ~ToolInFlight
         /\ loop.action # "consume_model_result" =>
               (\A e \in DOMAIN effects : effects[e].observed) /\ Unobserved = {}
  <1>1. loop.action # "dispatch_model" =>
          (\A i \in DOMAIN attempts : ~AttemptOpen(i)) /\ ~AttemptInFlight
    BY AttemptFacts, Zenon DEF WorkInv, OpenAttempt
  <1>2. loop.action # "dispatch_read_tool" =>
          (\A t \in DOMAIN tools : ~ToolOpen(t)) /\ ~ToolInFlight
    BY AttemptFacts, Zenon DEF WorkInv, OpenTool
  <1>3. loop.action # "consume_model_result" =>
          (\A e \in DOMAIN effects : effects[e].observed) /\ Unobserved = {}
    BY Zenon DEF WorkInv, OpenEffect, Unobserved
  <1> QED
    BY <1>1, <1>2, <1>3, Zenon

-----------------------------------------------------------------------------
(* Steps that keep the work of the run sound. *)

(* The current attempt ends: what it reserved is given back or becomes a    *)
(* used call, and the loop goes on with some other action.                  *)
LEMMA AttemptCloses ==
  ASSUME WorkInv, AttemptInFlight, NEW row \in AttemptRows,
         NEW act \in Actions, act # "none",
         row.state \notin {"prepared", "dispatching"},
         row.response # "none" => row.state = "completed",
         attempts' = [attempts EXCEPT ![loop.attempt] = row],
         loop' = [loop EXCEPT !.action = act],
         budget' \in BudgetRows,
         budget'.reservedCalls = budget.reservedCalls - 1,
         budget'.calls \in {budget.calls, budget.calls + 1},
         budget'.tools = budget.tools,
         budget'.reservedTools = budget.reservedTools,
         budget'.retries <= MaximumRetries,
         UNCHANGED <<tools, effects>>
  PROVE  WorkInv'
  <1>1. /\ loop.attempt \in DOMAIN attempts /\ loop.action = "dispatch_model"
        /\ AttemptOpen(loop.attempt) /\ loop.attempt # None
    BY AttemptFacts, Zenon DEF AttemptInFlight
  <1>2. /\ attempts' \in Seq(AttemptRows) /\ Len(attempts') = Len(attempts)
        /\ DOMAIN attempts' = DOMAIN attempts /\ attempts'[loop.attempt] = row
        /\ \A j \in DOMAIN attempts : j # loop.attempt => attempts'[j] = attempts[j]
    <2>1. attempts \in Seq(AttemptRows)
      BY Zenon DEF WorkInv, RowTypes
    <2> QED
      BY <1>1, <2>1, RowChanged
  <1>3. /\ loop' \in LoopRows /\ loop'.action = act /\ loop'.attempt = loop.attempt
        /\ loop'.iteration = loop.iteration /\ loop'.tool = loop.tool
    <2>1. loop \in LoopRows
      BY Zenon DEF WorkInv, RowTypes
    <2>2. loop' \in LoopRows
      BY <2>1, Zenon DEF LoopRows
    <2> QED
      BY <2>1, <2>2 DEF LoopRows
  <1>4. tools' = tools /\ effects' = effects
    BY Zenon
  <1>5. /\ \A t \in DOMAIN tools : ~ToolOpen(t)
        /\ \A e \in DOMAIN effects : effects[e].observed
        /\ ~ToolInFlight /\ Unobserved = {}
    BY <1>1, Elsewhere
  <1>6. attempts[loop.attempt].response = "none"
    <2>1. attempts[loop.attempt].state # "completed"
      BY <1>1 DEF AttemptOpen
    <2> QED
      BY <1>1, <2>1, Zenon DEF WorkInv, AnswerIsComplete
  <1>7. /\ \A t \in DOMAIN tools : /\ tools[t].attempt \in DOMAIN attempts
                                   /\ tools[t].attempt # loop.attempt
        /\ \A e \in DOMAIN effects : /\ effects[e].attempt \in DOMAIN attempts
                                     /\ effects[e].attempt # loop.attempt
    <2>1. "none" \notin {"tool", "delegate"} /\ "none" # "effect"
      OBVIOUS
    <2> QED
      BY <1>6, <2>1, Zenon DEF WorkInv, LoopIsAtRows, ToolsAskedFor, EffectsAskedFor
  <1>8. RowTypes'
    BY <1>2, <1>3, <1>4, Zenon DEF WorkInv, RowTypes
  <1>9. LoopIsAtRows'
    BY <1>1, <1>2, <1>3, <1>4, Zenon DEF WorkInv, LoopIsAtRows
  <1>10. OpenAttempt'
    <2> SUFFICES ASSUME NEW i \in DOMAIN attempts PROVE ~AttemptOpen(i)'
      BY <1>2, Zenon DEF OpenAttempt
    <2>1. CASE i = loop.attempt
      BY <1>2, <2>1, Zenon DEF AttemptOpen
    <2>2. CASE i # loop.attempt
      BY <1>2, <2>2, Zenon DEF WorkInv, OpenAttempt, AttemptOpen
    <2> QED
      BY <2>1, <2>2, Zenon
  <1>11. OpenTool' /\ OpenEffect'
    BY <1>4, <1>5, Zenon DEF OpenTool, ToolOpen, OpenEffect
  <1>12. AnswerIsComplete'
    <2>1. \A i \in DOMAIN attempts :
             attempts[i].response # "none" => attempts[i].state = "completed"
      BY Zenon DEF WorkInv, AnswerIsComplete
    <2> QED
      BY <1>2, <2>1, Zenon DEF AnswerIsComplete
  <1>13. ToolsAskedFor'
    <2>1. \A t \in DOMAIN tools :
             attempts'[tools[t].attempt].response \in {"tool", "delegate"}
      BY <1>2, <1>7, Zenon DEF WorkInv, ToolsAskedFor
    <2> QED
      BY <1>4, <2>1, Zenon DEF ToolsAskedFor
  <1>14. EffectsAskedFor'
    <2>1. \A e \in DOMAIN effects : attempts'[effects[e].attempt].response = "effect"
      BY <1>2, <1>7, Zenon DEF WorkInv, EffectsAskedFor
    <2> QED
      BY <1>4, <2>1, Zenon DEF EffectsAskedFor
  <1>15. OneSuccess' /\ OneEffect'
    BY <1>4, Zenon DEF WorkInv, OneSuccess, OneEffect
  <1>16. NoneYet'
    BY <1>3, <1>4, <1>7, Zenon DEF NoneYet
  <1>17. budget.reservedCalls = 1 /\ budget.reservedTools = 0
    BY <1>5, Zenon DEF WorkInv, CallsReserved, ToolsReserved
  <1>18. budget'.reservedCalls = 0 /\ budget'.reservedTools = 0
    BY <1>17
  <1>19. CallsReserved'
    <2>1. ~AttemptInFlight'
      BY <1>2, <1>3, Zenon DEF AttemptInFlight, Current
    <2> QED
      BY <1>18, <2>1, Zenon DEF CallsReserved
  <1>20. ToolsReserved'
    <2>1. ~ToolInFlight'
      BY <1>3, <1>4, <1>5, Zenon DEF ToolInFlight, Tool
    <2>2. Unobserved' = {}
      BY <1>4, <1>5, Zenon DEF Unobserved
    <2> QED
      BY <1>18, <2>1, <2>2, Zenon DEF ToolsReserved
  <1>21. BudgetHolds'
    <2>1. /\ budget \in BudgetRows
          /\ budget.calls + budget.reservedCalls <= MaximumModelCalls
          /\ budget.tools + budget.reservedTools <= MaximumToolCalls
      BY Zenon DEF WorkInv, RowTypes, BudgetHolds
    <2>2. budget.calls \in Nat /\ budget.tools \in Nat
      BY <2>1 DEF BudgetRows
    <2>3. budget'.calls + budget'.reservedCalls <= MaximumModelCalls
      BY <1>17, <1>18, <2>1, <2>2
    <2>4. budget'.tools + budget'.reservedTools <= MaximumToolCalls
      BY <2>1, Zenon
    <2> QED
      BY <2>3, <2>4, Zenon DEF BudgetHolds
  <1> QED
    BY <1>8, <1>9, <1>10, <1>11, <1>12, <1>13, <1>14, <1>15, <1>16, <1>19,
       <1>20, <1>21, Zenon DEF WorkInv

(* The current tool call ends. *)
LEMMA ToolCloses ==
  ASSUME WorkInv, ToolInFlight, NEW row \in ToolRows,
         NEW act \in Actions, act # "none", NEW cur \in {0, loop.tool},
         row.state \notin {"prepared", "running"}, row.attempt = loop.attempt,
         row.state = "succeeded" => act = "compile_after_tool",
         tools' = [tools EXCEPT ![loop.tool] = row],
         loop' \in LoopRows, loop'.action = act, loop'.tool = cur,
         loop'.attempt = loop.attempt, loop'.iteration = loop.iteration,
         budget' \in BudgetRows,
         budget'.reservedTools = budget.reservedTools - 1,
         budget'.tools \in {budget.tools, budget.tools + 1},
         budget'.calls = budget.calls,
         budget'.reservedCalls = budget.reservedCalls,
         budget'.retries <= MaximumRetries,
         UNCHANGED <<attempts, effects>>
  PROVE  WorkInv'
  <1>1. /\ loop.tool \in DOMAIN tools /\ loop.action = "dispatch_read_tool"
        /\ ToolOpen(loop.tool) /\ loop.attempt # None
        /\ tools[loop.tool].attempt = loop.attempt
    <2>1. "dispatch_read_tool" # "none"
      OBVIOUS
    <2> QED
      BY <2>1, AttemptFacts, Zenon DEF WorkInv, LoopIsAtRows, Tool
  <1>2. /\ tools' \in Seq(ToolRows) /\ Len(tools') = Len(tools)
        /\ DOMAIN tools' = DOMAIN tools /\ tools'[loop.tool] = row
        /\ \A j \in DOMAIN tools : j # loop.tool => tools'[j] = tools[j]
    <2>1. tools \in Seq(ToolRows)
      BY Zenon DEF WorkInv, RowTypes
    <2> QED
      BY <1>1, <2>1, RowChanged
  <1>3. attempts' = attempts /\ effects' = effects
    BY Zenon
  <1>4. /\ \A i \in DOMAIN attempts : ~AttemptOpen(i)
        /\ \A e \in DOMAIN effects : effects[e].observed
        /\ ~AttemptInFlight /\ Unobserved = {}
    BY <1>1, Elsewhere
  <1>5. \A t \in DOMAIN tools : tools'[t].attempt = tools[t].attempt
    BY <1>1, <1>2, Zenon
  <1>6. RowTypes'
    BY <1>2, <1>3, Zenon DEF WorkInv, RowTypes
  <1>7. LoopIsAtRows'
    <2>1. cur \in 0 .. Len(tools)
      BY WorkFacts DEF WorkInv, LoopIsAtRows
    <2>2. \A t \in DOMAIN tools : tools'[t].attempt \in DOMAIN attempts
      BY <1>5, Zenon DEF WorkInv, LoopIsAtRows
    <2> QED
      BY <1>1, <1>2, <1>3, <2>1, <2>2, Zenon DEF WorkInv, LoopIsAtRows
  <1>8. OpenAttempt' /\ OpenEffect'
    BY <1>3, <1>4, Zenon DEF OpenAttempt, AttemptOpen, OpenEffect
  <1>9. \A t \in DOMAIN tools : ~ToolOpen(t)'
    <2> SUFFICES ASSUME NEW t \in DOMAIN tools PROVE ~ToolOpen(t)'
      OBVIOUS
    <2>1. CASE t = loop.tool
      BY <1>2, <2>1, Zenon DEF ToolOpen
    <2>2. CASE t # loop.tool
      BY <1>2, <2>2, Zenon DEF WorkInv, OpenTool, ToolOpen
    <2> QED
      BY <2>1, <2>2, Zenon
  <1>10. OpenTool'
    BY <1>2, <1>9, Zenon DEF OpenTool
  <1>11. AnswerIsComplete' /\ EffectsAskedFor'
    BY <1>3, Zenon DEF WorkInv, AnswerIsComplete, EffectsAskedFor
  <1>12. ToolsAskedFor'
    <2>1. \A t \in DOMAIN tools :
             attempts[tools'[t].attempt].response \in {"tool", "delegate"}
      BY <1>5, Zenon DEF WorkInv, ToolsAskedFor
    <2> QED
      BY <1>2, <1>3, <2>1, Zenon DEF ToolsAskedFor
  <1>13. \A t \in DOMAIN tools :
            tools[t].state = "succeeded" => tools[t].attempt # loop.attempt
    BY <1>1, Zenon DEF WorkInv, NoneYet
  <1>14. OneSuccess'
    <2> SUFFICES ASSUME NEW t \in DOMAIN tools, NEW u \in DOMAIN tools,
                        tools'[t].state = "succeeded", tools'[u].state = "succeeded",
                        tools'[t].attempt = tools'[u].attempt
                 PROVE  t = u
      BY <1>2, Zenon DEF OneSuccess
    <2>1. tools[t].attempt = tools[u].attempt
      BY <1>5, Zenon
    <2>2. t # loop.tool => tools[t].state = "succeeded"
      BY <1>2, Zenon
    <2>3. u # loop.tool => tools[u].state = "succeeded"
      BY <1>2, Zenon
    <2> QED
      BY <1>1, <1>13, <2>1, <2>2, <2>3, Zenon DEF WorkInv, OneSuccess
  <1>15. OneEffect'
    BY <1>3, Zenon DEF WorkInv, OneEffect
  <1>16. NoneYet'
    <2> SUFFICES ASSUME act \in {"consume_model_result", "dispatch_read_tool"},
                        NEW t \in DOMAIN tools, tools'[t].state = "succeeded"
                 PROVE  tools'[t].attempt # loop.attempt
      BY <1>2, Zenon DEF NoneYet
    <2>1. t # loop.tool
      BY <1>2
    <2> QED
      BY <1>2, <1>13, <2>1, Zenon
  <1>17. budget.reservedTools = 1 /\ budget.reservedCalls = 0
    BY <1>4, Zenon DEF WorkInv, CallsReserved, ToolsReserved
  <1>18. budget'.reservedTools = 0 /\ budget'.reservedCalls = 0
    BY <1>17
  <1>19. CallsReserved'
    <2>1. ~AttemptInFlight'
      BY <1>3, <1>4, Zenon DEF AttemptInFlight, Current
    <2> QED
      BY <1>18, <2>1, Zenon DEF CallsReserved
  <1>20. ToolsReserved'
    <2>1. ~ToolInFlight'
      <3>1. loop'.tool # None => loop'.tool \in DOMAIN tools
        BY <1>1 DEF None
      <3> QED
        BY <1>9, <3>1, Zenon DEF ToolInFlight, Tool, ToolOpen
    <2>2. Unobserved' = {}
      BY <1>3, <1>4, Zenon DEF Unobserved
    <2> QED
      BY <1>18, <2>1, <2>2, Zenon DEF ToolsReserved
  <1>21. BudgetHolds'
    <2>1. /\ budget \in BudgetRows
          /\ budget.calls + budget.reservedCalls <= MaximumModelCalls
          /\ budget.tools + budget.reservedTools <= MaximumToolCalls
      BY Zenon DEF WorkInv, RowTypes, BudgetHolds
    <2>2. budget.calls \in Nat /\ budget.tools \in Nat
      BY <2>1 DEF BudgetRows
    <2>3. budget'.tools + budget'.reservedTools <= MaximumToolCalls
      BY <1>17, <1>18, <2>1, <2>2
    <2>4. budget'.calls + budget'.reservedCalls <= MaximumModelCalls
      BY <2>1, Zenon
    <2> QED
      BY <2>3, <2>4, Zenon DEF BudgetHolds
  <1> QED
    BY <1>6, <1>7, <1>8, <1>10, <1>11, <1>12, <1>14, <1>15, <1>16, <1>19,
       <1>20, <1>21, Zenon DEF WorkInv

(* The rows move on without ending: every row keeps what it belongs to, and *)
(* whether it is open, answered, successful or observed.                    *)
SameAttempts ==
    /\ attempts' \in Seq(AttemptRows) /\ DOMAIN attempts' = DOMAIN attempts
    /\ Len(attempts') = Len(attempts)
    /\ \A i \in DOMAIN attempts :
          /\ attempts'[i].response = attempts[i].response
          /\ AttemptOpen(i)' <=> AttemptOpen(i)
          /\ attempts[i].state = "completed" => attempts'[i].state = "completed"
SameTools ==
    /\ tools' \in Seq(ToolRows) /\ DOMAIN tools' = DOMAIN tools
    /\ Len(tools') = Len(tools)
    /\ \A t \in DOMAIN tools :
          /\ tools'[t].attempt = tools[t].attempt
          /\ ToolOpen(t)' <=> ToolOpen(t)
          /\ tools'[t].state = "succeeded" => tools[t].state = "succeeded"
SameEffects ==
    /\ effects' \in Seq(EffectRows) /\ DOMAIN effects' = DOMAIN effects
    /\ Len(effects') = Len(effects)
    /\ \A e \in DOMAIN effects :
          /\ effects'[e].attempt = effects[e].attempt
          /\ effects'[e].observed <=> effects[e].observed

LEMMA Unmoved ==
  ASSUME WorkInv
  PROVE  /\ attempts' = attempts => SameAttempts
         /\ tools' = tools => SameTools
         /\ effects' = effects => SameEffects
  <1>1. attempts' = attempts => SameAttempts
    BY Zenon DEF WorkInv, RowTypes, SameAttempts, AttemptOpen
  <1>2. tools' = tools => SameTools
    BY Zenon DEF WorkInv, RowTypes, SameTools, ToolOpen
  <1>3. effects' = effects => SameEffects
    BY Zenon DEF WorkInv, RowTypes, SameEffects
  <1> QED
    BY <1>1, <1>2, <1>3, Zenon

LEMMA SameWork ==
  ASSUME WorkInv, SameAttempts, SameTools, SameEffects, loop' = loop,
         budget' = budget, run'.status \in Terminal <=> run.status \in Terminal
  PROVE  WorkInv'
  <1>1. /\ loop.attempt # None => loop.attempt \in DOMAIN attempts
        /\ loop.tool # None => loop.tool \in DOMAIN tools
    BY AttemptFacts, Zenon
  <1>2. RowTypes'
    BY Zenon DEF WorkInv, RowTypes, SameAttempts, SameTools, SameEffects
  <1>3. LoopIsAtRows'
    <2>1. /\ \A t \in DOMAIN tools : tools'[t].attempt \in DOMAIN attempts
          /\ \A e \in DOMAIN effects : effects'[e].attempt \in DOMAIN attempts
      BY Zenon DEF WorkInv, LoopIsAtRows, SameTools, SameEffects
    <2> QED
      BY <2>1, Zenon DEF WorkInv, LoopIsAtRows, SameAttempts, SameTools, SameEffects
  <1>4. OpenAttempt'
    BY Zenon DEF WorkInv, OpenAttempt, SameAttempts
  <1>5. OpenTool'
    BY Zenon DEF WorkInv, OpenTool, SameTools
  <1>6. OpenEffect'
    BY Zenon DEF WorkInv, OpenEffect, SameEffects
  <1>7. AnswerIsComplete'
    BY Zenon DEF WorkInv, AnswerIsComplete, SameAttempts
  <1>8. ToolsAskedFor'
    <2>1. \A t \in DOMAIN tools :
             attempts'[tools'[t].attempt].response \in {"tool", "delegate"}
      <3> SUFFICES ASSUME NEW t \in DOMAIN tools
                   PROVE  attempts'[tools'[t].attempt].response \in {"tool", "delegate"}
        OBVIOUS
      <3>1. tools'[t].attempt = tools[t].attempt /\ tools[t].attempt \in DOMAIN attempts
        BY Zenon DEF WorkInv, LoopIsAtRows, SameTools
      <3>2. attempts'[tools[t].attempt].response = attempts[tools[t].attempt].response
        BY <3>1, Zenon DEF SameAttempts
      <3> QED
        BY <3>1, <3>2, Zenon DEF WorkInv, ToolsAskedFor
    <2> QED
      BY <2>1, Zenon DEF ToolsAskedFor, SameTools
  <1>9. EffectsAskedFor'
    <2>1. \A e \in DOMAIN effects : attempts'[effects'[e].attempt].response = "effect"
      BY Zenon DEF WorkInv, LoopIsAtRows, EffectsAskedFor, SameAttempts, SameEffects
    <2> QED
      BY <2>1, Zenon DEF EffectsAskedFor, SameEffects
  <1>10. OneSuccess'
    <2> SUFFICES ASSUME NEW t \in DOMAIN tools, NEW u \in DOMAIN tools,
                        tools'[t].state = "succeeded", tools'[u].state = "succeeded",
                        tools'[t].attempt = tools'[u].attempt
                 PROVE  t = u
      BY Zenon DEF OneSuccess, SameTools
    <2> QED
      BY Zenon DEF WorkInv, OneSuccess, SameTools
  <1>11. OneEffect'
    <2> SUFFICES ASSUME NEW e \in DOMAIN effects, NEW f \in DOMAIN effects,
                        effects'[e].attempt = effects'[f].attempt
                 PROVE  e = f
      BY Zenon DEF OneEffect, SameEffects
    <2> QED
      BY Zenon DEF WorkInv, OneEffect, SameEffects
  <1>12. NoneYet'
    BY Zenon DEF WorkInv, NoneYet, SameTools
  <1>13. CallsReserved'
    <2>1. AttemptInFlight' <=> AttemptInFlight
      BY <1>1, Zenon DEF AttemptInFlight, Current, SameAttempts, AttemptOpen
    <2> QED
      BY <2>1, Zenon DEF WorkInv, CallsReserved
  <1>14. ToolsReserved'
    <2>1. ToolInFlight' <=> ToolInFlight
      BY <1>1, Zenon DEF ToolInFlight, Tool, SameTools, ToolOpen
    <2>2. Unobserved' = Unobserved
      BY Zenon DEF Unobserved, SameEffects
    <2> QED
      BY <2>1, <2>2, Zenon DEF WorkInv, ToolsReserved
  <1>15. BudgetHolds'
    BY Zenon DEF WorkInv, BudgetHolds
  <1> QED
    BY <1>2, <1>3, <1>4, <1>5, <1>6, <1>7, <1>8, <1>9, <1>10, <1>11, <1>12,
       <1>13, <1>14, <1>15, Zenon DEF WorkInv

(* An attempt under way has no answer and holds one reserved call. *)
LEMMA OpenUnanswered ==
  ASSUME WorkInv
  PROVE  /\ AttemptInFlight => Current.response = "none" /\ budget.reservedCalls = 1
         /\ ToolInFlight => budget.reservedTools = 1
  <1>1. AttemptInFlight => Current.response = "none"
    <2>1. AttemptInFlight => Current.state # "completed"
      BY DEF AttemptInFlight
    <2> QED
      BY <2>1, AttemptFacts, Zenon DEF WorkInv, AnswerIsComplete, Current
  <1> QED
    BY <1>1, Zenon DEF WorkInv, CallsReserved, ToolsReserved

LEMMA BudgetFacts ==
  ASSUME WorkInv
  PROVE  /\ budget \in BudgetRows /\ budget.calls \in Nat /\ budget.tools \in Nat
         /\ budget.reservedCalls \in Nat /\ budget.reservedTools \in Nat
         /\ budget.retries \in Nat
  BY DEF WorkInv, RowTypes, BudgetRows

LEMMA PreparedRow ==
  ASSUME WorkInv, RunInv
  PROVE  /\ Now \in Nat /\ run.token \in Nat /\ PreparedAttempt \in AttemptRows
         /\ PreparedAttempt.state = "prepared" /\ PreparedAttempt.response = "none"
  <1>1. RetryOf \in Nat
    BY DEF WorkInv, RowTypes, LoopRows, RetryOf, None
  <1>2. Now \in Nat /\ run.token \in Nat
    BY DEF RunInv, RunTypes, RunRows, Now
  <1>3. PreparedAttempt.state = "prepared" /\ PreparedAttempt.response = "none"
    BY DEF PreparedAttempt
  <1>4. 0 \in Nat
    OBVIOUS
  <1> HIDE DEF Now, RetryOf
  <1>5. PreparedAttempt \in AttemptRows
    BY <1>1, <1>2, <1>4, Zenon DEF PreparedAttempt, AttemptRows, AttemptStates,
                                   Responses, Errors
  <1> QED
    BY <1>2, <1>3, <1>5, Zenon

LEMMA PrepareModelKeeps ==
  ASSUME WorkInv, RunInv, PrepareModelAttempt
  PROVE  WorkInv'
  <1> DEFINE n == Len(attempts) + 1
  <1>1. /\ loop.action \in {"none", "compile_context", "compile_after_tool"}
        /\ attempts' = Append(attempts, PreparedAttempt)
        /\ loop' = LoopAtDispatch
        /\ budget' = [budget EXCEPT !.reservedCalls = @ + 1]
        /\ tools' = tools /\ effects' = effects /\ run' = run
    BY Zenon DEF PrepareModelAttempt
  <1>2. budget.calls + budget.reservedCalls + 1 <= MaximumModelCalls
    BY Zenon DEF PrepareModelAttempt, ReservationFits
  <1>3. /\ attempts' \in Seq(AttemptRows) /\ Len(attempts') = n /\ n \in DOMAIN attempts'
        /\ DOMAIN attempts' = DOMAIN attempts \cup {n} /\ n \notin DOMAIN attempts
        /\ attempts'[n] = PreparedAttempt
        /\ \A j \in DOMAIN attempts : attempts'[j] = attempts[j]
    <2>1. attempts \in Seq(AttemptRows) /\ PreparedAttempt \in AttemptRows
      BY PreparedRow, Zenon DEF WorkInv, RowTypes
    <2> QED
      BY <1>1, <2>1, RowAppended
  <1>4. /\ Len(attempts) \in Nat /\ n \in Nat /\ n # None
    BY WorkFacts DEF None
  <1>5. /\ loop' \in LoopRows /\ loop'.action = "dispatch_model"
        /\ loop'.attempt = n /\ loop'.iteration = n /\ loop'.tool = loop.tool
    <2>1. loop \in LoopRows /\ loop.iteration = Len(attempts)
      BY Zenon DEF WorkInv, RowTypes, LoopIsAtRows
    <2>2. loop' = [loop EXCEPT !.action = "dispatch_model", !.iteration = n, !.attempt = n]
      BY <1>1, <2>1, Zenon DEF LoopAtDispatch
    <2> HIDE DEF n
    <2>3. loop' \in LoopRows
      BY <1>4, <2>1, <2>2, Zenon DEF LoopRows, Actions
    <2>4. loop'.action = "dispatch_model" /\ loop'.tool = loop.tool
      BY <2>1, <2>2 DEF LoopRows
    <2>5. loop'.attempt = n /\ loop'.iteration = n
      BY <2>1, <2>2 DEF LoopRows
    <2> QED
      BY <2>3, <2>4, <2>5, Zenon
  <1>6. /\ budget' \in BudgetRows /\ budget'.reservedCalls = budget.reservedCalls + 1
        /\ budget'.calls = budget.calls /\ budget'.tools = budget.tools
        /\ budget'.reservedTools = budget.reservedTools
        /\ budget'.retries = budget.retries
    <2>1. budget' = [budget EXCEPT !.reservedCalls = budget.reservedCalls + 1]
      BY <1>1, Zenon
    <2>2. budget.reservedCalls + 1 \in Nat
      BY BudgetFacts
    <2> QED
      BY <2>1, <2>2, BudgetFacts, Zenon DEF BudgetRows
  <1>7. /\ \A i \in DOMAIN attempts : ~AttemptOpen(i)
        /\ \A t \in DOMAIN tools : ~ToolOpen(t)
        /\ \A e \in DOMAIN effects : effects[e].observed
        /\ ~AttemptInFlight /\ ~ToolInFlight /\ Unobserved = {}
    BY <1>1, Elsewhere
  <1> HIDE DEF n
  <1>8. RowTypes'
    BY <1>1, <1>3, <1>5, <1>6, Zenon DEF WorkInv, RowTypes
  <1>9. LoopIsAtRows'
    <2>1. /\ \A t \in DOMAIN tools : tools[t].attempt \in DOMAIN attempts'
          /\ \A e \in DOMAIN effects : effects[e].attempt \in DOMAIN attempts'
      BY <1>3, Zenon DEF WorkInv, LoopIsAtRows
    <2> QED
      BY <1>1, <1>3, <1>4, <1>5, <2>1, Zenon DEF WorkInv, LoopIsAtRows
  <1>10. OpenAttempt'
    BY <1>3, <1>5, <1>7, Zenon DEF OpenAttempt, AttemptOpen
  <1>11. OpenTool' /\ OpenEffect'
    BY <1>1, <1>7, Zenon DEF OpenTool, ToolOpen, OpenEffect
  <1>12. AnswerIsComplete'
    BY <1>3, PreparedRow, Zenon DEF WorkInv, AnswerIsComplete
  <1>13. ToolsAskedFor' /\ EffectsAskedFor'
    <2>1. \A t \in DOMAIN tools :
             attempts'[tools[t].attempt].response \in {"tool", "delegate"}
      BY <1>3, Zenon DEF WorkInv, LoopIsAtRows, ToolsAskedFor
    <2>2. \A e \in DOMAIN effects : attempts'[effects[e].attempt].response = "effect"
      BY <1>3, Zenon DEF WorkInv, LoopIsAtRows, EffectsAskedFor
    <2> QED
      BY <1>1, <2>1, <2>2, Zenon DEF ToolsAskedFor, EffectsAskedFor
  <1>14. OneSuccess' /\ OneEffect'
    BY <1>1, Zenon DEF WorkInv, OneSuccess, OneEffect
  <1>15. NoneYet'
    BY <1>5 DEF NoneYet
  <1>16. budget.reservedCalls = 0 /\ budget.reservedTools = 0
    BY <1>7, Zenon DEF WorkInv, CallsReserved, ToolsReserved
  <1>17. CallsReserved'
    <2>1. AttemptInFlight'
      BY <1>3, <1>4, <1>5, PreparedRow, Zenon DEF AttemptInFlight, Current
    <2>2. budget'.reservedCalls = 1
      BY <1>6, <1>16
    <2> QED
      BY <2>1, <2>2, Zenon DEF CallsReserved
  <1>18. ToolsReserved'
    <2>1. ~ToolInFlight' /\ Unobserved' = {}
      BY <1>1, <1>5, <1>7, Zenon DEF ToolInFlight, Tool, Unobserved
    <2> QED
      BY <1>6, <1>16, <2>1, Zenon DEF ToolsReserved
  <1>19. BudgetHolds'
    <2>2. budget'.calls + budget'.reservedCalls <= MaximumModelCalls
      BY <1>2, <1>6, BudgetFacts
    <2> QED
      BY <1>6, <2>2, Zenon DEF WorkInv, BudgetHolds
  <1> QED
    BY <1>8, <1>9, <1>10, <1>11, <1>12, <1>13, <1>14, <1>15, <1>17, <1>18,
       <1>19, Zenon DEF WorkInv

LEMMA PrepareToolKeeps ==
  ASSUME WorkInv, RunInv, PrepareReadTool
  PROVE  WorkInv'
  <1> DEFINE n == Len(tools) + 1
             row == [state |-> "prepared", attempt |-> loop.attempt,
                     token |-> run.token, started |-> 0, error |-> "none",
                     at |-> Now, done |-> 0]
  <1>1. /\ loop.action = "consume_model_result"
        /\ Current.response \in {"tool", "delegate"}
        /\ budget.tools + budget.reservedTools + 1 <= MaximumToolCalls
        /\ tools' = Append(tools, row)
        /\ loop' = [loop EXCEPT !.action = "dispatch_read_tool", !.tool = n]
        /\ budget' = [budget EXCEPT !.reservedTools = @ + 1]
        /\ attempts' = attempts /\ effects' = effects /\ run' = run
    BY Zenon DEF PrepareReadTool, ToolFits
  <1>2. /\ loop \in LoopRows /\ loop.attempt \in Nat /\ Now \in Nat
        /\ run.token \in Nat /\ 0 \in Nat
    BY PreparedRow DEF WorkInv, RowTypes, LoopRows
  <1>3. row \in ToolRows /\ row.state = "prepared" /\ row.attempt = loop.attempt
    <2> HIDE DEF Now
    <2>1. row \in ToolRows
      BY <1>2, Zenon DEF ToolRows, ToolStates, Errors
    <2> QED
      BY <2>1, Zenon
  <1>4. Len(tools) \in Nat /\ n \in Nat /\ n # None
    BY WorkFacts DEF None
  <1> HIDE DEF row
  <1>5. /\ tools' \in Seq(ToolRows) /\ Len(tools') = n /\ n \in DOMAIN tools'
        /\ DOMAIN tools' = DOMAIN tools \cup {n} /\ n \notin DOMAIN tools
        /\ tools'[n] = row /\ \A j \in DOMAIN tools : tools'[j] = tools[j]
    <2>1. tools \in Seq(ToolRows)
      BY Zenon DEF WorkInv, RowTypes
    <2> QED
      BY <1>1, <1>3, <2>1, RowAppended
  <1> HIDE DEF n
  <1>6. /\ loop' \in LoopRows /\ loop'.action = "dispatch_read_tool" /\ loop'.tool = n
        /\ loop'.attempt = loop.attempt /\ loop'.iteration = loop.iteration
    <2>1. loop' \in LoopRows
      BY <1>1, <1>2, <1>4, Zenon DEF LoopRows, Actions
    <2> QED
      BY <1>1, <1>2, <2>1 DEF LoopRows
  <1>7. /\ budget' \in BudgetRows /\ budget'.reservedTools = budget.reservedTools + 1
        /\ budget'.calls = budget.calls /\ budget'.tools = budget.tools
        /\ budget'.reservedCalls = budget.reservedCalls
        /\ budget'.retries = budget.retries
    <2>1. budget' = [budget EXCEPT !.reservedTools = budget.reservedTools + 1]
      BY <1>1, Zenon
    <2>2. budget.reservedTools + 1 \in Nat
      BY BudgetFacts
    <2> QED
      BY <2>1, <2>2, BudgetFacts, Zenon DEF BudgetRows
  <1>8. /\ \A i \in DOMAIN attempts : ~AttemptOpen(i)
        /\ \A t \in DOMAIN tools : ~ToolOpen(t)
        /\ ~AttemptInFlight /\ ~ToolInFlight
    BY <1>1, Elsewhere
  <1>9. (\A e \in DOMAIN effects : effects[e].observed) /\ Unobserved = {}
    <2>1. Current.response # "effect"
      BY <1>1
    <2>2. \A e \in DOMAIN effects : effects[e].observed
      BY <2>1, Zenon DEF WorkInv, OpenEffect, EffectsAskedFor, Current
    <2> QED
      BY <2>2, Zenon DEF Unobserved
  <1>10. loop.attempt \in DOMAIN attempts
    <2>1. loop.attempt # None
      BY <1>1 DEF WorkInv, LoopIsAtRows
    <2> QED
      BY <2>1, AttemptFacts, Zenon
  <1>11. RowTypes'
    BY <1>1, <1>5, <1>6, <1>7, Zenon DEF WorkInv, RowTypes
  <1>12. LoopIsAtRows'
    <2>1. n \in 0 .. n /\ loop.attempt # None
      BY <1>4, <1>10, WorkFacts DEF None
    <2>2. \A t \in DOMAIN tools' : tools'[t].attempt \in DOMAIN attempts
      BY <1>3, <1>5, <1>10, Zenon DEF WorkInv, LoopIsAtRows
    <2> QED
      BY <1>1, <1>5, <1>6, <2>1, <2>2, Zenon DEF WorkInv, LoopIsAtRows
  <1>13. OpenAttempt' /\ OpenEffect'
    BY <1>1, <1>8, <1>9, Zenon DEF OpenAttempt, AttemptOpen, OpenEffect
  <1>14. OpenTool'
    BY <1>3, <1>5, <1>6, <1>8, Zenon DEF OpenTool, ToolOpen
  <1>15. AnswerIsComplete' /\ EffectsAskedFor' /\ OneEffect'
    BY <1>1, Zenon DEF WorkInv, AnswerIsComplete, EffectsAskedFor, OneEffect
  <1>16. ToolsAskedFor'
    <2>1. \A t \in DOMAIN tools' :
             attempts[tools'[t].attempt].response \in {"tool", "delegate"}
      BY <1>1, <1>3, <1>5, Zenon DEF WorkInv, ToolsAskedFor, Current
    <2> QED
      BY <1>1, <2>1, Zenon DEF ToolsAskedFor
  <1>17. tools'[n].state # "succeeded"
    BY <1>3, <1>5
  <1>18. OneSuccess'
    BY <1>5, <1>17, Zenon DEF WorkInv, OneSuccess
  <1>19. NoneYet'
    <2>1. \A t \in DOMAIN tools :
             tools[t].state = "succeeded" => tools[t].attempt # loop.attempt
      BY <1>1, Zenon DEF WorkInv, NoneYet
    <2> QED
      BY <1>5, <1>6, <1>17, <2>1, Zenon DEF NoneYet
  <1>20. budget.reservedCalls = 0 /\ budget.reservedTools = 0
    BY <1>8, <1>9, Zenon DEF WorkInv, CallsReserved, ToolsReserved
  <1>21. CallsReserved'
    <2>1. ~AttemptInFlight'
      BY <1>1, <1>6, <1>8, Zenon DEF AttemptInFlight, Current
    <2> QED
      BY <1>7, <1>20, <2>1, Zenon DEF CallsReserved
  <1>22. ToolsReserved'
    <2>1. ToolInFlight'
      BY <1>3, <1>4, <1>5, <1>6, Zenon DEF ToolInFlight, Tool
    <2>2. budget'.reservedTools = 1
      BY <1>7, <1>20
    <2> QED
      BY <2>1, <2>2, Zenon DEF ToolsReserved
  <1>23. BudgetHolds'
    <2>1. budget'.tools + budget'.reservedTools <= MaximumToolCalls
      BY <1>1, <1>7, BudgetFacts
    <2> QED
      BY <1>7, <2>1, Zenon DEF WorkInv, BudgetHolds
  <1> QED
    BY <1>11, <1>12, <1>13, <1>14, <1>15, <1>16, <1>18, <1>19, <1>21, <1>22,
       <1>23, Zenon DEF WorkInv

LEMMA ProposalKeeps ==
  ASSUME WorkInv, RunInv, RecordAgentEffectProposal
  PROVE  WorkInv'
  <1> DEFINE n == Len(effects) + 1
             row == [attempt |-> loop.attempt, state |-> "proposed",
                     observed |-> FALSE, at |-> Now, done |-> 0]
  <1>1. /\ loop.action = "consume_model_result" /\ Current.response = "effect"
        /\ EffectOf(loop.attempt) = {}
        /\ budget.tools + budget.reservedTools + 1 <= MaximumToolCalls
        /\ effects' = Append(effects, row)
        /\ budget' = [budget EXCEPT !.reservedTools = @ + 1]
        /\ run' = [run EXCEPT !.status = "waiting", !.token = @ + 1]
        /\ attempts' = attempts /\ tools' = tools /\ loop' = loop
    BY Zenon DEF RecordAgentEffectProposal, ToolFits
  <1>2. loop.attempt \in Nat /\ Now \in Nat /\ 0 \in Nat
    BY PreparedRow DEF WorkInv, RowTypes, LoopRows
  <1>3. row \in EffectRows /\ row.attempt = loop.attempt /\ ~row.observed
    <2> HIDE DEF Now
    <2>1. row \in EffectRows
      BY <1>2, Zenon DEF EffectRows, EffectStates
    <2> QED
      BY <2>1, Zenon
  <1> HIDE DEF row
  <1>4. /\ effects' \in Seq(EffectRows) /\ Len(effects') = n /\ n \in DOMAIN effects'
        /\ DOMAIN effects' = DOMAIN effects \cup {n} /\ n \notin DOMAIN effects
        /\ effects'[n] = row /\ \A j \in DOMAIN effects : effects'[j] = effects[j]
    <2>1. effects \in Seq(EffectRows)
      BY Zenon DEF WorkInv, RowTypes
    <2> QED
      BY <1>1, <1>3, <2>1, RowAppended
  <1> HIDE DEF n
  <1>5. run'.status \notin Terminal
    <2>1. run'.status = "waiting"
      BY <1>1 DEF RunInv, RunTypes, RunRows
    <2> QED
      BY <2>1 DEF Terminal
  <1>6. /\ budget' \in BudgetRows /\ budget'.reservedTools = budget.reservedTools + 1
        /\ budget'.calls = budget.calls /\ budget'.tools = budget.tools
        /\ budget'.reservedCalls = budget.reservedCalls
        /\ budget'.retries = budget.retries
    <2>1. budget' = [budget EXCEPT !.reservedTools = budget.reservedTools + 1]
      BY <1>1, Zenon
    <2>2. budget.reservedTools + 1 \in Nat
      BY BudgetFacts
    <2> QED
      BY <2>1, <2>2, BudgetFacts, Zenon DEF BudgetRows
  <1>7. \A e \in DOMAIN effects : effects[e].attempt # loop.attempt
    BY <1>1, Zenon DEF EffectOf
  <1>8. ~ToolInFlight /\ Unobserved = {}
    <2>1. ~ToolInFlight
      BY <1>1, Elsewhere
    <2>2. Unobserved = {}
      BY <1>7, Zenon DEF WorkInv, OpenEffect, Unobserved
    <2> QED
      BY <2>1, <2>2, Zenon
  <1>9. loop.attempt \in DOMAIN attempts
    <2>1. loop.attempt # None
      BY <1>1 DEF WorkInv, LoopIsAtRows
    <2> QED
      BY <2>1, AttemptFacts, Zenon
  <1>10. RowTypes'
    BY <1>1, <1>4, <1>6, Zenon DEF WorkInv, RowTypes
  <1>11. LoopIsAtRows'
    <2>1. \A e \in DOMAIN effects' : effects'[e].attempt \in DOMAIN attempts
      BY <1>3, <1>4, <1>9, Zenon DEF WorkInv, LoopIsAtRows
    <2> QED
      BY <1>1, <2>1, Zenon DEF WorkInv, LoopIsAtRows
  <1>12. OpenAttempt' /\ OpenTool' /\ AnswerIsComplete' /\ ToolsAskedFor'
    BY <1>1, Zenon DEF WorkInv, OpenAttempt, AttemptOpen, OpenTool, ToolOpen,
                       AnswerIsComplete, ToolsAskedFor
  <1>13. OpenEffect'
    BY <1>1, <1>3, <1>4, Zenon DEF WorkInv, OpenEffect
  <1>14. EffectsAskedFor'
    <2>1. \A e \in DOMAIN effects' : attempts[effects'[e].attempt].response = "effect"
      BY <1>1, <1>3, <1>4, Zenon DEF WorkInv, EffectsAskedFor, Current
    <2> QED
      BY <1>1, <2>1, Zenon DEF EffectsAskedFor
  <1>15. OneEffect'
    <2> SUFFICES ASSUME NEW e \in DOMAIN effects', NEW f \in DOMAIN effects',
                        effects'[e].attempt = effects'[f].attempt
                 PROVE  e = f
      BY Zenon DEF OneEffect
    <2>1. CASE e = n
      BY <1>3, <1>4, <1>7, <2>1, Zenon
    <2>2. CASE f = n
      BY <1>3, <1>4, <1>7, <2>2, Zenon
    <2>3. CASE e # n /\ f # n
      BY <1>4, <2>3, Zenon DEF WorkInv, OneEffect
    <2> QED
      BY <2>1, <2>2, <2>3, Zenon
  <1>16. OneSuccess' /\ NoneYet'
    BY <1>1, Zenon DEF WorkInv, OneSuccess, NoneYet
  <1>17. CallsReserved'
    BY <1>1, <1>6, Zenon DEF WorkInv, CallsReserved, AttemptInFlight, Current
  <1>18. ToolsReserved'
    <2>1. Unobserved' # {}
      BY <1>3, <1>4, Zenon DEF Unobserved
    <2>2. budget.reservedTools = 0
      BY <1>8, Zenon DEF WorkInv, ToolsReserved
    <2>3. budget'.reservedTools = 1
      BY <1>6, <2>2
    <2> QED
      BY <1>5, <2>1, <2>3, Zenon DEF ToolsReserved
  <1>19. BudgetHolds'
    <2>1. budget'.tools + budget'.reservedTools <= MaximumToolCalls
      BY <1>1, <1>6, BudgetFacts
    <2> QED
      BY <1>6, <2>1, Zenon DEF WorkInv, BudgetHolds
  <1> QED
    BY <1>10, <1>11, <1>12, <1>13, <1>14, <1>15, <1>16, <1>17, <1>18, <1>19,
       Zenon DEF WorkInv

LEMMA ObservationKeeps ==
  ASSUME WorkInv, RunInv, NEW e \in DOMAIN effects, RecordAgentEffectObservation(e)
  PROVE  WorkInv'
  <1> DEFINE row == [effects[e] EXCEPT !.observed = TRUE, !.done = Now]
  <1>1. /\ run.status = "running" /\ loop.action = "consume_model_result"
        /\ e \in DOMAIN effects /\ effects[e].attempt = loop.attempt
        /\ ~effects[e].observed
        /\ effects' = [effects EXCEPT ![e] = row]
        /\ budget' = [budget EXCEPT !.reservedTools = @ - 1, !.tools = @ + 1]
        /\ loop' = [loop EXCEPT !.action = "compile_context", !.tool = None]
        /\ attempts' = attempts /\ tools' = tools /\ run' = run
    BY Zenon DEF RecordAgentEffectObservation, Working, Fenced, AtEffect, EffectOf
  <1>2. /\ row \in EffectRows /\ row.attempt = effects[e].attempt /\ row.observed
    <2>1. effects[e] \in EffectRows /\ Now \in Nat
      BY WorkFacts, PreparedRow, Zenon
    <2> HIDE DEF Now
    <2> QED
      BY <2>1, Zenon DEF EffectRows
  <1> HIDE DEF row
  <1>3. /\ effects' \in Seq(EffectRows) /\ Len(effects') = Len(effects)
        /\ DOMAIN effects' = DOMAIN effects /\ effects'[e] = row
        /\ \A j \in DOMAIN effects : j # e => effects'[j] = effects[j]
    <2>1. effects \in Seq(EffectRows)
      BY Zenon DEF WorkInv, RowTypes
    <2> QED
      BY <1>1, <1>2, <2>1, RowChanged
  <1>4. /\ loop' \in LoopRows /\ loop'.action = "compile_context" /\ loop'.tool = None
        /\ loop'.attempt = loop.attempt /\ loop'.iteration = loop.iteration
    <2>1. loop \in LoopRows /\ None \in Nat
      BY DEF WorkInv, RowTypes, None
    <2>2. loop' \in LoopRows
      BY <1>1, <2>1, Zenon DEF LoopRows, Actions
    <2> QED
      BY <1>1, <2>1, <2>2 DEF LoopRows
  <1>5. budget.reservedTools = 1
    <2>1. Unobserved # {}
      BY <1>1, Zenon DEF Unobserved
    <2>2. run.status \notin Terminal
      BY <1>1 DEF Terminal
    <2> QED
      BY <2>1, <2>2, Zenon DEF WorkInv, ToolsReserved
  <1>6. /\ budget' \in BudgetRows /\ budget'.reservedTools = 0
        /\ budget'.tools = budget.tools + 1 /\ budget'.calls = budget.calls
        /\ budget'.reservedCalls = budget.reservedCalls
        /\ budget'.retries = budget.retries
    <2>1. budget' = [budget EXCEPT !.reservedTools = budget.reservedTools - 1,
                                   !.tools = budget.tools + 1]
      BY <1>1, Zenon
    <2>2. /\ budget.reservedTools - 1 = 0 /\ budget.reservedTools - 1 \in Nat
          /\ budget.tools + 1 \in Nat
      BY <1>5, BudgetFacts
    <2> QED
      BY <2>1, <2>2, BudgetFacts, Zenon DEF BudgetRows
  <1>7. /\ \A i \in DOMAIN attempts : ~AttemptOpen(i)
        /\ \A t \in DOMAIN tools : ~ToolOpen(t)
        /\ ~AttemptInFlight /\ ~ToolInFlight
    BY <1>1, Elsewhere
  <1>8. \A f \in DOMAIN effects :
           effects'[f].attempt = effects[f].attempt /\ effects'[f].observed
    <2> SUFFICES ASSUME NEW f \in DOMAIN effects, f # e PROVE effects[f].observed
      BY <1>2, <1>3, Zenon
    <2> QED
      BY <1>1, Zenon DEF WorkInv, OpenEffect, OneEffect
  <1>9. RowTypes'
    BY <1>1, <1>3, <1>4, <1>6, Zenon DEF WorkInv, RowTypes
  <1>10. LoopIsAtRows'
    <2>1. 0 \in 0 .. Len(tools) /\ loop.attempt # None
      BY <1>1, WorkFacts DEF WorkInv, LoopIsAtRows
    <2>2. \A f \in DOMAIN effects : effects'[f].attempt \in DOMAIN attempts
      BY <1>8, Zenon DEF WorkInv, LoopIsAtRows
    <2> QED
      BY <1>1, <1>3, <1>4, <2>1, <2>2, Zenon DEF WorkInv, LoopIsAtRows, None
  <1>11. OpenAttempt' /\ OpenTool'
    BY <1>1, <1>7, Zenon DEF OpenAttempt, AttemptOpen, OpenTool, ToolOpen
  <1>12. OpenEffect'
    BY <1>3, <1>8, Zenon DEF OpenEffect
  <1>13. AnswerIsComplete' /\ ToolsAskedFor' /\ OneSuccess'
    BY <1>1, Zenon DEF WorkInv, AnswerIsComplete, ToolsAskedFor, OneSuccess
  <1>14. EffectsAskedFor'
    <2>1. \A f \in DOMAIN effects : attempts[effects'[f].attempt].response = "effect"
      BY <1>8, Zenon DEF WorkInv, EffectsAskedFor
    <2> QED
      BY <1>1, <1>3, <2>1, Zenon DEF EffectsAskedFor
  <1>15. OneEffect'
    <2> SUFFICES ASSUME NEW g \in DOMAIN effects, NEW f \in DOMAIN effects,
                        effects'[g].attempt = effects'[f].attempt
                 PROVE  g = f
      BY <1>3, Zenon DEF OneEffect
    <2> QED
      BY <1>8, Zenon DEF WorkInv, OneEffect
  <1>16. NoneYet'
    BY <1>4 DEF NoneYet
  <1>17. CallsReserved'
    BY <1>1, <1>4, <1>6, Zenon DEF WorkInv, CallsReserved, AttemptInFlight, Current
  <1>18. ToolsReserved'
    <2>1. ~ToolInFlight' /\ Unobserved' = {}
      BY <1>3, <1>4, <1>8, Zenon DEF ToolInFlight, Unobserved
    <2> QED
      BY <1>6, <2>1, Zenon DEF ToolsReserved
  <1>19. BudgetHolds'
    <2>1. /\ budget.tools + budget.reservedTools <= MaximumToolCalls
      BY Zenon DEF WorkInv, BudgetHolds
    <2>2. budget'.tools + budget'.reservedTools <= MaximumToolCalls
      BY <1>5, <1>6, <2>1, BudgetFacts
    <2> QED
      BY <1>6, <2>2, Zenon DEF WorkInv, BudgetHolds
  <1> QED
    BY <1>9, <1>10, <1>11, <1>12, <1>13, <1>14, <1>15, <1>16, <1>17, <1>18,
       <1>19, Zenon DEF WorkInv

LEMMA CommitFinalKeeps ==
  ASSUME WorkInv, RunInv, CommitFinal
  PROVE  WorkInv'
  <1>1. /\ loop.action = "commit_final"
        /\ loop' = [loop EXCEPT !.action = "terminal", !.final = loop.attempt]
        /\ attempts' = attempts /\ tools' = tools /\ budget' = budget
        /\ effects' = effects
    BY Zenon DEF CommitFinal, Complete
  <1>2. /\ loop' \in LoopRows /\ loop'.action = "terminal" /\ loop'.tool = loop.tool
        /\ loop'.attempt = loop.attempt /\ loop'.iteration = loop.iteration
    <2>1. loop \in LoopRows /\ loop.attempt \in Nat
      BY DEF WorkInv, RowTypes, LoopRows
    <2>2. loop' \in LoopRows
      BY <1>1, <2>1, Zenon DEF LoopRows, Actions
    <2> QED
      BY <1>1, <2>1, <2>2 DEF LoopRows
  <1>3. /\ \A i \in DOMAIN attempts : ~AttemptOpen(i)
        /\ \A t \in DOMAIN tools : ~ToolOpen(t)
        /\ \A e \in DOMAIN effects : effects[e].observed
        /\ ~AttemptInFlight /\ ~ToolInFlight /\ Unobserved = {}
    BY <1>1, Elsewhere
  <1>4. RowTypes'
    BY <1>1, <1>2, Zenon DEF WorkInv, RowTypes
  <1>5. LoopIsAtRows'
    <2>1. loop.attempt # None
      BY <1>1 DEF WorkInv, LoopIsAtRows
    <2> QED
      BY <1>1, <1>2, <2>1, Zenon DEF WorkInv, LoopIsAtRows
  <1>6. OpenAttempt' /\ OpenTool' /\ OpenEffect'
    BY <1>1, <1>3, Zenon DEF OpenAttempt, AttemptOpen, OpenTool, ToolOpen, OpenEffect
  <1>7. AnswerIsComplete' /\ ToolsAskedFor' /\ EffectsAskedFor'
    BY <1>1, Zenon DEF WorkInv, AnswerIsComplete, ToolsAskedFor, EffectsAskedFor
  <1>8. OneSuccess' /\ OneEffect'
    BY <1>1, Zenon DEF WorkInv, OneSuccess, OneEffect
  <1>9. NoneYet'
    BY <1>2 DEF NoneYet
  <1>10. CallsReserved'
    BY <1>1, <1>2, Zenon DEF WorkInv, CallsReserved, AttemptInFlight, Current
  <1>11. ToolsReserved'
    <2>1. ~ToolInFlight' /\ Unobserved' = {}
      BY <1>1, <1>2, <1>3, Zenon DEF ToolInFlight, Tool, Unobserved
    <2> QED
      BY <1>1, <1>3, <2>1, Zenon DEF WorkInv, ToolsReserved
  <1>12. BudgetHolds'
    BY <1>1, Zenon DEF WorkInv, BudgetHolds
  <1> QED
    BY <1>4, <1>5, <1>6, <1>7, <1>8, <1>9, <1>10, <1>11, <1>12, Zenon DEF WorkInv

(* What settle_incomplete_agent_work makes of the rows. *)
LEMMA SettledAttemptRows ==
  ASSUME WorkInv, RunInv
  PROVE  /\ SettledAttempts \in Seq(AttemptRows)
         /\ Len(SettledAttempts) = Len(attempts)
         /\ DOMAIN SettledAttempts = DOMAIN attempts
         /\ \A i \in DOMAIN attempts :
               /\ SettledAttempts[i].response = attempts[i].response
               /\ SettledAttempts[i].state \notin {"prepared", "dispatching"}
               /\ attempts[i].state = "completed" =>
                     SettledAttempts[i].state = "completed"
  <1>1. Now \in Nat
    BY PreparedRow, Zenon
  <1> HIDE DEF Now
  <1>2. ASSUME NEW i \in DOMAIN attempts
        PROVE  /\ SettledAttempts[i] \in AttemptRows
               /\ SettledAttempts[i].response = attempts[i].response
               /\ SettledAttempts[i].state \notin {"prepared", "dispatching"}
               /\ attempts[i].state = "completed" =>
                     SettledAttempts[i].state = "completed"
    <2>1. attempts[i] \in AttemptRows
      BY <1>2, WorkFacts, Zenon
    <2>2. CASE attempts[i].state = "prepared"
      <3> DEFINE row == [attempts[i] EXCEPT !.state = "cancelled", !.retryable = "no",
                                            !.reservation = "released", !.done = Now]
      <3>1. SettledAttempts[i] = row
        BY <2>2 DEF SettledAttempts
      <3>2. /\ row \in AttemptRows /\ row.state = "cancelled"
            /\ row.response = attempts[i].response
        BY <1>1, <2>1, Zenon DEF AttemptRows, AttemptStates
      <3> HIDE DEF row
      <3> QED
        BY <2>2, <3>1, <3>2
    <2>3. CASE attempts[i].state = "dispatching"
      <3> DEFINE row == [attempts[i] EXCEPT !.state = "interrupted",
                                            !.retryable = "no", !.done = Now,
                                            !.reservation = "charged_unknown",
                                            !.error = "run_terminated"]
      <3>1. SettledAttempts[i] = row
        BY <2>3 DEF SettledAttempts
      <3>2. /\ row \in AttemptRows /\ row.state = "interrupted"
            /\ row.response = attempts[i].response
        BY <1>1, <2>1, Zenon DEF AttemptRows, AttemptStates, Errors
      <3> HIDE DEF row
      <3> QED
        BY <2>3, <3>1, <3>2
    <2>4. CASE attempts[i].state # "prepared" /\ attempts[i].state # "dispatching"
      <3>1. SettledAttempts[i] = attempts[i]
        BY <2>4 DEF SettledAttempts
      <3> QED
        BY <2>1, <2>4, <3>1, Zenon
    <2> QED
      BY <2>2, <2>3, <2>4, Zenon
  <1>3. /\ DOMAIN SettledAttempts = DOMAIN attempts
        /\ SettledAttempts = [i \in DOMAIN attempts |-> SettledAttempts[i]]
    BY Zenon DEF SettledAttempts
  <1> HIDE DEF SettledAttempts
  <1>4. attempts \in Seq(AttemptRows)
    BY Zenon DEF WorkInv, RowTypes
  <1>5. SettledAttempts \in Seq(AttemptRows) /\ Len(SettledAttempts) = Len(attempts)
    BY <1>2, <1>3, <1>4, RowsMapped
  <1> QED
    BY <1>2, <1>3, <1>5, Zenon

LEMMA SettledToolRows ==
  ASSUME WorkInv, RunInv
  PROVE  /\ SettledTools \in Seq(ToolRows)
         /\ Len(SettledTools) = Len(tools) /\ DOMAIN SettledTools = DOMAIN tools
         /\ \A i \in DOMAIN tools :
               /\ SettledTools[i].attempt = tools[i].attempt
               /\ SettledTools[i].state \notin {"prepared", "running"}
               /\ SettledTools[i].state = "succeeded" => tools[i].state = "succeeded"
  <1>1. Now \in Nat
    BY PreparedRow, Zenon
  <1> HIDE DEF Now
  <1>2. ASSUME NEW i \in DOMAIN tools
        PROVE  /\ SettledTools[i] \in ToolRows
               /\ SettledTools[i].attempt = tools[i].attempt
               /\ SettledTools[i].state \notin {"prepared", "running"}
               /\ SettledTools[i].state = "succeeded" => tools[i].state = "succeeded"
    <2>1. tools[i] \in ToolRows
      BY <1>2, WorkFacts, Zenon
    <2>2. CASE tools[i].state = "prepared"
      <3> DEFINE row == [tools[i] EXCEPT !.state = "cancelled", !.done = Now]
      <3>1. SettledTools[i] = row
        BY <2>2 DEF SettledTools
      <3>2. row \in ToolRows /\ row.state = "cancelled" /\ row.attempt = tools[i].attempt
        BY <1>1, <2>1, Zenon DEF ToolRows, ToolStates
      <3> HIDE DEF row
      <3> QED
        BY <3>1, <3>2
    <2>3. CASE tools[i].state = "running"
      <3> DEFINE row == [tools[i] EXCEPT !.state = "interrupted", !.done = Now,
                                         !.error = "run_terminated"]
      <3>1. SettledTools[i] = row
        BY <2>3 DEF SettledTools
      <3>2. row \in ToolRows /\ row.state = "interrupted" /\ row.attempt = tools[i].attempt
        BY <1>1, <2>1, Zenon DEF ToolRows, ToolStates, Errors
      <3> HIDE DEF row
      <3> QED
        BY <3>1, <3>2
    <2>4. CASE tools[i].state # "prepared" /\ tools[i].state # "running"
      <3>1. SettledTools[i] = tools[i]
        BY <2>4 DEF SettledTools
      <3> QED
        BY <2>1, <2>4, <3>1, Zenon
    <2> QED
      BY <2>2, <2>3, <2>4, Zenon
  <1>3. /\ DOMAIN SettledTools = DOMAIN tools
        /\ SettledTools = [i \in DOMAIN tools |-> SettledTools[i]]
    BY Zenon DEF SettledTools
  <1> HIDE DEF SettledTools
  <1>4. tools \in Seq(ToolRows)
    BY Zenon DEF WorkInv, RowTypes
  <1>5. SettledTools \in Seq(ToolRows) /\ Len(SettledTools) = Len(tools)
    BY <1>2, <1>3, <1>4, RowsMapped
  <1> QED
    BY <1>2, <1>3, <1>5, Zenon

(* The settlement charges no more than was reserved. *)
LEMMA SettlementFits ==
  ASSUME WorkInv, run.status \notin Terminal
  PROVE  /\ Cardinality(Incomplete(attempts, {"dispatching"})) \in 0 .. budget.reservedCalls
         /\ Cardinality(Incomplete(tools, {"running"})) + Cardinality(Unobserved)
               \in 0 .. budget.reservedTools
  <1> DEFINE A == Incomplete(attempts, {"dispatching"})
             T == Incomplete(tools, {"running"})
  <1>1. /\ AttemptInFlight => A \subseteq {loop.attempt}
        /\ ~AttemptInFlight => A = {}
    BY OpenRows, Zenon DEF Incomplete
  <1>2. /\ ToolInFlight => T \subseteq {loop.tool}
        /\ ~ToolInFlight => T = {}
    BY OpenRows, Zenon DEF Incomplete
  <1>3. Cardinality({}) = 0
    BY CardNone, Zenon
  <1> HIDE DEF A, T
  <1>4. Cardinality(A) = 0 \/ (Cardinality(A) = 1 /\ AttemptInFlight)
    BY <1>1, <1>3, NoneOrOne, Zenon
  <1>5. Cardinality(T) = 0 \/ (Cardinality(T) = 1 /\ ToolInFlight)
    BY <1>2, <1>3, NoneOrOne, Zenon
  <1>6. \/ Unobserved = {} /\ Cardinality(Unobserved) = 0
        \/ Unobserved # {} /\ Cardinality(Unobserved) = 1 /\ ~ToolInFlight
    <2>1. \A e : Cardinality({e}) = 1
      BY CardOne, Zenon
    <2> QED
      BY <1>3, <2>1, OneUnobserved, Zenon
  <1>7. /\ AttemptInFlight => budget.reservedCalls = 1
        /\ ToolInFlight \/ Unobserved # {} => budget.reservedTools = 1
    BY Zenon DEF WorkInv, CallsReserved, ToolsReserved
  <1>8. Cardinality(A) \in 0 .. budget.reservedCalls
    BY <1>4, <1>7, BudgetFacts
  <1>9. Cardinality(T) + Cardinality(Unobserved) \in 0 .. budget.reservedTools
    BY <1>5, <1>6, <1>7, BudgetFacts
  <1> QED
    BY <1>8, <1>9, Zenon DEF A, T

LEMMA CompleteRunKeeps ==
  ASSUME WorkInv, RunInv, NEW status \in {"failed", "cancelled"}, CompleteRun(status)
  PROVE  WorkInv'
  <1> DEFINE a == Cardinality(Incomplete(attempts, {"dispatching"}))
             t1 == Cardinality(Incomplete(tools, {"running"})) + Cardinality(Unobserved)
  <1>1. /\ run.status = "running" /\ attempts' = SettledAttempts
        /\ tools' = SettledTools /\ budget' = SettledBudget
        /\ run' = [run EXCEPT !.status = status, !.token = @ + 1]
        /\ effects' = effects /\ loop' = loop
    BY Zenon DEF CompleteRun, Fenced, Complete
  <1>2. run.status \notin Terminal /\ run'.status \in Terminal
    <2>1. run'.status = status
      BY <1>1 DEF RunInv, RunTypes, RunRows
    <2> QED
      BY <1>1, <2>1 DEF Terminal
  <1>3. /\ attempts' \in Seq(AttemptRows) /\ Len(attempts') = Len(attempts)
        /\ DOMAIN attempts' = DOMAIN attempts
        /\ \A i \in DOMAIN attempts :
              /\ attempts'[i].response = attempts[i].response
              /\ attempts'[i].state \notin {"prepared", "dispatching"}
              /\ attempts[i].state = "completed" => attempts'[i].state = "completed"
    BY <1>1, SettledAttemptRows, Zenon
  <1>4. /\ tools' \in Seq(ToolRows) /\ Len(tools') = Len(tools)
        /\ DOMAIN tools' = DOMAIN tools
        /\ \A t \in DOMAIN tools :
              /\ tools'[t].attempt = tools[t].attempt
              /\ tools'[t].state \notin {"prepared", "running"}
              /\ tools'[t].state = "succeeded" => tools[t].state = "succeeded"
    BY <1>1, SettledToolRows, Zenon
  <1>5. a \in Nat /\ a <= budget.reservedCalls /\ t1 \in Nat /\ t1 <= budget.reservedTools
    BY <1>2, SettlementFits, BudgetFacts
  <1>6. /\ budget' \in BudgetRows /\ budget'.calls = budget.calls + a
        /\ budget'.tools = budget.tools + t1 /\ budget'.reservedCalls = 0
        /\ budget'.reservedTools = 0 /\ budget'.retries = budget.retries
    <2>1. budget.tools + Cardinality(Incomplete(tools, {"running"}))
             + Cardinality(Unobserved) = budget.tools + t1
      <3>1. Cardinality(Incomplete(tools, {"running"})) \in Nat
            /\ Cardinality(Unobserved) \in Nat
        <4>1. Cardinality({}) = 0
          BY CardNone, Zenon
        <4>2. \A e : Cardinality({e}) = 1
          BY CardOne, Zenon
        <4>3. Incomplete(tools, {"running"}) = {} \/ Incomplete(tools, {"running"}) = {loop.tool}
          BY OpenRows, Zenon DEF Incomplete
        <4>4. Cardinality(Unobserved) = 0 \/ Cardinality(Unobserved) = 1
          BY <4>1, <4>2, OneUnobserved, Zenon
        <4>5. \/ Cardinality(Incomplete(tools, {"running"})) = 0
              \/ Cardinality(Incomplete(tools, {"running"})) = 1
          BY <4>1, <4>2, <4>3, Zenon
        <4> QED
          BY <4>4, <4>5
      <3> QED
        BY <3>1, BudgetFacts
    <2>2. budget' = [budget EXCEPT !.calls = budget.calls + a, !.tools = budget.tools + t1,
                                   !.reservedCalls = 0, !.reservedTools = 0]
      BY <1>1, <2>1, Zenon DEF SettledBudget
    <2> HIDE DEF a, t1
    <2>3. budget.calls + a \in Nat /\ budget.tools + t1 \in Nat /\ 0 \in Nat
      BY <1>5, BudgetFacts
    <2> QED
      BY <2>2, <2>3, BudgetFacts, Zenon DEF BudgetRows
  <1> HIDE DEF a, t1
  <1>7. RowTypes'
    BY <1>1, <1>3, <1>4, <1>6, Zenon DEF WorkInv, RowTypes
  <1>8. LoopIsAtRows'
    <2>1. \A t \in DOMAIN tools : tools'[t].attempt \in DOMAIN attempts
      BY <1>4, Zenon DEF WorkInv, LoopIsAtRows
    <2> QED
      BY <1>1, <1>3, <1>4, <2>1, Zenon DEF WorkInv, LoopIsAtRows
  <1>9. OpenAttempt' /\ OpenTool'
    BY <1>3, <1>4, Zenon DEF OpenAttempt, AttemptOpen, OpenTool, ToolOpen
  <1>10. OpenEffect' /\ OneEffect'
    BY <1>1, Zenon DEF WorkInv, OpenEffect, OneEffect
  <1>11. AnswerIsComplete'
    BY <1>3, Zenon DEF WorkInv, AnswerIsComplete
  <1>12. ToolsAskedFor'
    <2> SUFFICES ASSUME NEW t \in DOMAIN tools
                 PROVE  attempts'[tools'[t].attempt].response \in {"tool", "delegate"}
      BY <1>4, Zenon DEF ToolsAskedFor
    <2>1. tools'[t].attempt = tools[t].attempt /\ tools[t].attempt \in DOMAIN attempts
      BY <1>4, Zenon DEF WorkInv, LoopIsAtRows
    <2>2. attempts'[tools[t].attempt].response = attempts[tools[t].attempt].response
      BY <1>3, <2>1, Zenon
    <2> QED
      BY <2>1, <2>2, Zenon DEF WorkInv, ToolsAskedFor
  <1>13. EffectsAskedFor'
    <2>1. \A e \in DOMAIN effects : attempts'[effects[e].attempt].response = "effect"
      BY <1>3, Zenon DEF WorkInv, LoopIsAtRows, EffectsAskedFor
    <2> QED
      BY <1>1, <2>1, Zenon DEF EffectsAskedFor
  <1>14. OneSuccess'
    <2> SUFFICES ASSUME NEW t \in DOMAIN tools, NEW u \in DOMAIN tools,
                        tools'[t].state = "succeeded", tools'[u].state = "succeeded",
                        tools'[t].attempt = tools'[u].attempt
                 PROVE  t = u
      BY <1>4, Zenon DEF OneSuccess
    <2> QED
      BY <1>4, Zenon DEF WorkInv, OneSuccess
  <1>15. NoneYet'
    BY <1>1, <1>4, Zenon DEF WorkInv, NoneYet
  <1>16. CallsReserved'
    <2>1. ~AttemptInFlight'
      BY <1>1, <1>3, AttemptFacts, Zenon DEF AttemptInFlight, Current
    <2> QED
      BY <1>6, <2>1, Zenon DEF CallsReserved
  <1>17. ToolsReserved'
    <2>1. ~ToolInFlight'
      BY <1>1, <1>4, AttemptFacts, Zenon DEF ToolInFlight, Tool
    <2> QED
      BY <1>2, <1>6, <2>1, Zenon DEF ToolsReserved
  <1>18. BudgetHolds'
    <2>1. /\ budget.calls + budget.reservedCalls <= MaximumModelCalls
          /\ budget.tools + budget.reservedTools <= MaximumToolCalls
          /\ budget.retries <= MaximumRetries
      BY Zenon DEF WorkInv, BudgetHolds
    <2>2. budget'.calls + budget'.reservedCalls <= MaximumModelCalls
      BY <1>5, <1>6, <2>1, BudgetFacts
    <2>3. budget'.tools + budget'.reservedTools <= MaximumToolCalls
      BY <1>5, <1>6, <2>1, BudgetFacts
    <2> QED
      BY <1>6, <2>1, <2>2, <2>3, Zenon DEF BudgetHolds
  <1> QED
    BY <1>7, <1>8, <1>9, <1>10, <1>11, <1>12, <1>13, <1>14, <1>15, <1>16, <1>17,
       <1>18, Zenon DEF WorkInv

(* A lost lease is charged to the retry budget only while it has room. *)
LEMMA ChargedFits ==
  ASSUME WorkInv, Charged
  PROVE  budget.retries < MaximumRetries
  <1>1. loop.action = "none" => ~ToolInFlight /\ ~AttemptInFlight
    BY AttemptFacts
  <1> HIDE DEF ToolInFlight, AttemptInFlight
  <1>2. CASE loop.action = "none"
    BY <1>1, <1>2 DEF Charged, BoundaryClass
  <1>3. CASE loop.action # "none"
    BY <1>3 DEF Charged, BoundaryClass, MayRetry
  <1> QED
    BY <1>2, <1>3, Zenon

LEMMA RetireKeeps ==
  ASSUME WorkInv, RunInv, NEW reason \in WindowReasons, RetireUnviableModelDispatch(reason)
  PROVE  WorkInv'
  <1> DEFINE row == [Current EXCEPT !.state = "interrupted", !.done = Now,
                                    !.error = reason, !.retryable = "yes",
                                    !.reservation = "released"]
  <1>1. /\ loop.attempt # None /\ Current.state = "prepared"
        /\ attempts' = [attempts EXCEPT ![loop.attempt] = row]
        /\ loop' = [loop EXCEPT !.action = "compile_context"]
        /\ budget' = [budget EXCEPT !.reservedCalls = @ - 1]
        /\ UNCHANGED <<tools, effects>>
    BY Zenon DEF RetireUnviableModelDispatch, OwnAttempt, Current
  <1>2. AttemptInFlight
    BY <1>1, Zenon DEF AttemptInFlight
  <1>3. /\ row \in AttemptRows /\ row.state = "interrupted"
        /\ row.response = Current.response
    <2>1. Current \in AttemptRows /\ Now \in Nat /\ reason \in Errors
      BY <1>1, WorkFacts, AttemptFacts, PreparedRow, Zenon DEF Current, WindowReasons, Errors
    <2> HIDE DEF Now, Current
    <2> QED
      BY <2>1, Zenon DEF AttemptRows, AttemptStates
  <1>4. Current.response = "none"
    BY <1>2, OpenUnanswered, Zenon
  <1> HIDE DEF row
  <1>5. /\ budget' \in BudgetRows /\ budget'.reservedCalls = budget.reservedCalls - 1
        /\ budget'.calls = budget.calls /\ budget'.tools = budget.tools
        /\ budget'.reservedTools = budget.reservedTools
        /\ budget'.retries = budget.retries
    <2>1. budget' = [budget EXCEPT !.reservedCalls = budget.reservedCalls - 1]
      BY <1>1, Zenon
    <2>2. budget.reservedCalls - 1 \in Nat
      BY <1>2, OpenUnanswered
    <2> QED
      BY <2>1, <2>2, BudgetFacts, Zenon DEF BudgetRows
  <1>6. budget'.retries <= MaximumRetries
    BY <1>5, Zenon DEF WorkInv, BudgetHolds
  <1>7. "compile_context" \in Actions /\ "compile_context" # "none"
        /\ row.state \notin {"prepared", "dispatching"} /\ row.response = "none"
    BY <1>3, <1>4 DEF Actions
  <1> QED
    BY <1>1, <1>2, <1>3, <1>5, <1>6, <1>7, AttemptCloses

LEMMA ResultKeeps ==
  ASSUME WorkInv, RunInv, NEW kind \in ResponseKinds, RecordModelResult(kind)
  PROVE  WorkInv'
  <1> DEFINE row == [Current EXCEPT !.state = "completed", !.done = Now,
                                    !.response = kind, !.reservation = "settled"]
             act == IF kind = "final" THEN "commit_final" ELSE "consume_model_result"
  <1>1. /\ loop.attempt # None /\ Current.state = "dispatching"
        /\ attempts' = [attempts EXCEPT ![loop.attempt] = row]
        /\ loop' = [loop EXCEPT !.action = act]
        /\ budget' = [budget EXCEPT !.reservedCalls = @ - 1, !.calls = @ + 1]
        /\ UNCHANGED <<tools, effects>>
    BY Zenon DEF RecordModelResult, OwnAttempt, Current
  <1>2. AttemptInFlight
    BY <1>1, Zenon DEF AttemptInFlight
  <1>3. row \in AttemptRows /\ row.state = "completed"
    <2>1. Current \in AttemptRows /\ Now \in Nat /\ kind \in Responses
      BY <1>1, WorkFacts, AttemptFacts, PreparedRow, Zenon DEF Current, Responses
    <2> HIDE DEF Now, Current
    <2> QED
      BY <2>1, Zenon DEF AttemptRows, AttemptStates
  <1> HIDE DEF row
  <1>4. /\ budget' \in BudgetRows /\ budget'.reservedCalls = budget.reservedCalls - 1
        /\ budget'.calls = budget.calls + 1 /\ budget'.tools = budget.tools
        /\ budget'.reservedTools = budget.reservedTools
        /\ budget'.retries = budget.retries
    <2>1. budget' = [budget EXCEPT !.reservedCalls = budget.reservedCalls - 1,
                                   !.calls = budget.calls + 1]
      BY <1>1, Zenon
    <2>2. budget.reservedCalls - 1 \in Nat /\ budget.calls + 1 \in Nat
      BY <1>2, OpenUnanswered, BudgetFacts
    <2> QED
      BY <2>1, <2>2, BudgetFacts, Zenon DEF BudgetRows
  <1>5. budget'.retries <= MaximumRetries
    BY <1>4, Zenon DEF WorkInv, BudgetHolds
  <1>6. /\ act \in Actions /\ act # "none"
        /\ row.state \notin {"prepared", "dispatching"}
    BY <1>3 DEF Actions
  <1> HIDE DEF act
  <1> QED
    BY <1>1, <1>2, <1>3, <1>4, <1>5, <1>6, AttemptCloses

LEMMA FailureKeeps ==
  ASSUME WorkInv, RunInv, NEW retryable \in BOOLEAN, RecordModelFailure(retryable)
  PROVE  WorkInv'
  <1> DEFINE scheduled == retryable /\ RetryAllowed
             r == IF retryable THEN "yes" ELSE "no"
             x == IF scheduled THEN budget.retries + 1 ELSE budget.retries
             act == IF scheduled THEN "compile_context" ELSE "dispatch_model"
             row == [Current EXCEPT !.state = "failed", !.done = Now,
                                    !.error = "provider", !.retryable = r,
                                    !.retryAfter = scheduled,
                                    !.reservation = "settled"]
  <1>1. /\ loop.attempt # None /\ Current.state = "dispatching"
        /\ loop.action = "dispatch_model"
        /\ attempts' = [attempts EXCEPT ![loop.attempt] = row]
        /\ budget' = [budget EXCEPT !.reservedCalls = @ - 1, !.calls = @ + 1,
                                    !.retries = x]
        /\ \/ scheduled /\ loop' = [loop EXCEPT !.action = "compile_context"]
           \/ ~scheduled /\ loop' = loop
        /\ UNCHANGED <<tools, effects>>
    BY Zenon DEF RecordModelFailure, FailedAttempt, OwnAttempt, Current
  <1>2. AttemptInFlight
    BY <1>1, Zenon DEF AttemptInFlight
  <1>3. loop' = [loop EXCEPT !.action = act]
    <2>1. loop = [loop EXCEPT !.action = "dispatch_model"]
      BY <1>1 DEF WorkInv, RowTypes, LoopRows
    <2> QED
      BY <1>1, <2>1, Zenon
  <1>4. x \in Nat /\ x <= MaximumRetries
    <2>1. budget.retries <= MaximumRetries
      BY Zenon DEF WorkInv, BudgetHolds
    <2> QED
      BY <2>1, BudgetFacts DEF RetryAllowed
  <1>5. r \in {"null", "yes", "no"} /\ act \in Actions /\ act # "none"
    BY DEF Actions
  <1>6. scheduled \in BOOLEAN
    BY Zenon DEF RetryAllowed
  <1> HIDE DEF x, act, r, scheduled
  <1>7. /\ row \in AttemptRows /\ row.state = "failed"
        /\ row.response = Current.response
    <2>1. Current \in AttemptRows /\ Now \in Nat
      BY <1>1, WorkFacts, AttemptFacts, PreparedRow, Zenon DEF Current
    <2> HIDE DEF Now, Current
    <2> QED
      BY <1>5, <1>6, <2>1, Zenon DEF AttemptRows, AttemptStates, Errors
  <1>8. Current.response = "none"
    BY <1>2, OpenUnanswered, Zenon
  <1> HIDE DEF row
  <1>9. /\ budget' \in BudgetRows /\ budget'.reservedCalls = budget.reservedCalls - 1
        /\ budget'.calls = budget.calls + 1 /\ budget'.tools = budget.tools
        /\ budget'.reservedTools = budget.reservedTools /\ budget'.retries = x
    <2>1. budget' = [budget EXCEPT !.reservedCalls = budget.reservedCalls - 1,
                                   !.calls = budget.calls + 1, !.retries = x]
      BY <1>1, Zenon
    <2>2. budget.reservedCalls - 1 \in Nat /\ budget.calls + 1 \in Nat
      BY <1>2, OpenUnanswered, BudgetFacts
    <2> QED
      BY <1>4, <2>1, <2>2, BudgetFacts, Zenon DEF BudgetRows
  <1>10. row.state \notin {"prepared", "dispatching"} /\ row.response = "none"
    BY <1>7, <1>8
  <1> QED
    BY <1>1, <1>2, <1>3, <1>4, <1>5, <1>7, <1>9, <1>10, AttemptCloses

LEMMA RecoverAttemptKeeps ==
  ASSUME WorkInv, RunInv, AttemptInFlight, RecoverAttempt, effects' = effects
  PROVE  WorkInv'
  <1> DEFINE sent == Current.state = "dispatching"
             err == IF sent THEN "provider_outcome_unknown_after_restart"
                    ELSE "daemon_restart_before_dispatch"
             res == IF sent THEN "charged_unknown" ELSE "released"
             c == IF sent THEN budget.calls + 1 ELSE budget.calls
             x == IF Charged THEN budget.retries + 1 ELSE budget.retries
             act == IF Exhausted THEN "dispatch_model" ELSE "compile_context"
             row == [Current EXCEPT !.state = "interrupted", !.retryable = "yes",
                                    !.done = Now, !.error = err,
                                    !.reservation = res]
  <1>1. /\ attempts' = [attempts EXCEPT ![loop.attempt] = row]
        /\ budget' = [budget EXCEPT !.reservedCalls = @ - 1, !.calls = c, !.retries = x]
        /\ loop' = [loop EXCEPT !.action = act]
        /\ UNCHANGED <<tools, effects>>
    BY Zenon DEF RecoverAttempt, Current
  <1>2. x \in Nat /\ x <= MaximumRetries
    <2>1. budget.retries <= MaximumRetries
      BY Zenon DEF WorkInv, BudgetHolds
    <2>2. Charged => budget.retries < MaximumRetries
      BY ChargedFits
    <2> QED
      BY <2>1, <2>2, BudgetFacts
  <1>3. /\ act \in Actions /\ act # "none" /\ c \in Nat
        /\ c \in {budget.calls, budget.calls + 1} /\ err \in Errors
        /\ res \in {"active", "released", "settled", "charged_unknown"}
    BY BudgetFacts DEF Actions, Errors
  <1> HIDE DEF x, act, c, err, res
  <1>4. /\ row \in AttemptRows /\ row.state = "interrupted"
        /\ row.response = Current.response
    <2>1. Current \in AttemptRows /\ Now \in Nat
      BY WorkFacts, AttemptFacts, PreparedRow, Zenon DEF Current
    <2> HIDE DEF Now, Current
    <2> QED
      BY <1>3, <2>1, Zenon DEF AttemptRows, AttemptStates
  <1>5. Current.response = "none"
    BY OpenUnanswered, Zenon
  <1> HIDE DEF row
  <1>6. /\ budget' \in BudgetRows /\ budget'.reservedCalls = budget.reservedCalls - 1
        /\ budget'.calls = c /\ budget'.tools = budget.tools
        /\ budget'.reservedTools = budget.reservedTools /\ budget'.retries = x
    <2>1. budget' = [budget EXCEPT !.reservedCalls = budget.reservedCalls - 1,
                                   !.calls = c, !.retries = x]
      BY <1>1, Zenon
    <2>2. budget.reservedCalls - 1 \in Nat
      BY OpenUnanswered
    <2> QED
      BY <1>2, <1>3, <2>1, <2>2, BudgetFacts, Zenon DEF BudgetRows
  <1>7. row.state \notin {"prepared", "dispatching"} /\ row.response = "none"
    BY <1>4, <1>5
  <1> QED
    BY <1>1, <1>2, <1>3, <1>4, <1>6, <1>7, AttemptCloses

LEMMA RecoverToolKeeps ==
  ASSUME WorkInv, RunInv, ToolInFlight, RecoverTool, effects' = effects
  PROVE  WorkInv'
  <1> DEFINE row == [Tool EXCEPT !.state = "interrupted", !.done = Now,
                                 !.error = "daemon_restart"]
             w == IF Tool.state = "running" THEN budget.tools + 1 ELSE budget.tools
             x == IF Charged THEN budget.retries + 1 ELSE budget.retries
             act == IF Exhausted THEN "dispatch_read_tool" ELSE "consume_model_result"
             cur == IF Exhausted THEN loop.tool ELSE None
  <1>1. /\ tools' = [tools EXCEPT ![loop.tool] = row]
        /\ budget' = [budget EXCEPT !.reservedTools = @ - 1, !.tools = w, !.retries = x]
        /\ loop' = IF Exhausted THEN [loop EXCEPT !.action = "dispatch_read_tool"]
                   ELSE [loop EXCEPT !.action = "consume_model_result", !.tool = None]
        /\ UNCHANGED <<attempts, effects>>
    BY Zenon DEF RecoverTool, Tool
  <1>2. /\ loop' \in LoopRows /\ loop'.action = act /\ loop'.tool = cur
        /\ loop'.attempt = loop.attempt /\ loop'.iteration = loop.iteration
    <2>1. loop \in LoopRows /\ None \in Nat
      BY DEF WorkInv, RowTypes, None
    <2>2. CASE Exhausted
      <3>1. loop' = [loop EXCEPT !.action = "dispatch_read_tool"]
        BY <1>1, <2>2, Zenon
      <3>2. loop' \in LoopRows
        BY <2>1, <3>1, Zenon DEF LoopRows, Actions
      <3> QED
        BY <2>1, <2>2, <3>1, <3>2 DEF LoopRows
    <2>3. CASE ~Exhausted
      <3>1. loop' = [loop EXCEPT !.action = "consume_model_result", !.tool = None]
        BY <1>1, <2>3, Zenon
      <3>2. loop' \in LoopRows
        BY <2>1, <3>1, Zenon DEF LoopRows, Actions
      <3> QED
        BY <2>1, <2>3, <3>1, <3>2 DEF LoopRows
    <2> QED
      BY <2>2, <2>3, Zenon
  <1>3. x \in Nat /\ x <= MaximumRetries
    <2>1. budget.retries <= MaximumRetries
      BY Zenon DEF WorkInv, BudgetHolds
    <2>2. Charged => budget.retries < MaximumRetries
      BY ChargedFits
    <2> QED
      BY <2>1, <2>2, BudgetFacts
  <1>4. /\ act \in Actions /\ act # "none" /\ act # "compile_after_tool"
        /\ cur \in {0, loop.tool} /\ w \in Nat
        /\ w \in {budget.tools, budget.tools + 1}
    BY BudgetFacts DEF Actions, None
  <1> HIDE DEF x, act, cur, w
  <1>5. row \in ToolRows /\ row.state = "interrupted" /\ row.attempt = Tool.attempt
    <2>1. Tool \in ToolRows /\ Now \in Nat
      BY WorkFacts, AttemptFacts, PreparedRow, Zenon DEF Tool
    <2> HIDE DEF Now, Tool
    <2> QED
      BY <2>1, Zenon DEF ToolRows, ToolStates, Errors
  <1>6. Tool.attempt = loop.attempt
    BY AttemptFacts, Zenon
  <1> HIDE DEF row
  <1>7. /\ budget' \in BudgetRows /\ budget'.reservedTools = budget.reservedTools - 1
        /\ budget'.tools = w /\ budget'.calls = budget.calls
        /\ budget'.reservedCalls = budget.reservedCalls /\ budget'.retries = x
    <2>1. budget' = [budget EXCEPT !.reservedTools = budget.reservedTools - 1,
                                   !.tools = w, !.retries = x]
      BY <1>1, Zenon
    <2>2. budget.reservedTools - 1 \in Nat
      BY OpenUnanswered
    <2> QED
      BY <1>3, <1>4, <2>1, <2>2, BudgetFacts, Zenon DEF BudgetRows
  <1>8. /\ row.state \notin {"prepared", "running"} /\ row.state # "succeeded"
        /\ row.attempt = loop.attempt
    BY <1>5, <1>6
  <1> QED
    BY <1>1, <1>2, <1>3, <1>4, <1>5, <1>7, <1>8, ToolCloses

LEMMA ToolSucceededKeeps ==
  ASSUME WorkInv, RunInv, ToolInFlight, ToolSucceeded, UNCHANGED <<attempts, effects>>
  PROVE  WorkInv'
  <1> DEFINE row == [Tool EXCEPT !.state = "succeeded", !.done = Now]
  <1>1. /\ tools' = [tools EXCEPT ![loop.tool] = row]
        /\ budget' = [budget EXCEPT !.reservedTools = @ - 1, !.tools = @ + 1]
        /\ loop' = [loop EXCEPT !.action = "compile_after_tool"]
    BY Zenon DEF ToolSucceeded, Tool
  <1>2. /\ loop' \in LoopRows /\ loop'.action = "compile_after_tool"
        /\ loop'.tool = loop.tool
        /\ loop'.attempt = loop.attempt /\ loop'.iteration = loop.iteration
    <2>1. loop \in LoopRows
      BY Zenon DEF WorkInv, RowTypes
    <2>2. loop' \in LoopRows
      BY <1>1, <2>1, Zenon DEF LoopRows, Actions
    <2> QED
      BY <1>1, <2>1, <2>2 DEF LoopRows
  <1>3. row \in ToolRows /\ row.state = "succeeded" /\ row.attempt = Tool.attempt
    <2>1. Tool \in ToolRows /\ Now \in Nat
      BY WorkFacts, AttemptFacts, PreparedRow, Zenon DEF Tool
    <2> HIDE DEF Now, Tool
    <2> QED
      BY <2>1, Zenon DEF ToolRows, ToolStates
  <1>4. Tool.attempt = loop.attempt
    BY AttemptFacts, Zenon
  <1> HIDE DEF row
  <1>5. /\ budget' \in BudgetRows /\ budget'.reservedTools = budget.reservedTools - 1
        /\ budget'.tools = budget.tools + 1 /\ budget'.calls = budget.calls
        /\ budget'.reservedCalls = budget.reservedCalls
        /\ budget'.retries = budget.retries
    <2>1. budget' = [budget EXCEPT !.reservedTools = budget.reservedTools - 1,
                                   !.tools = budget.tools + 1]
      BY <1>1, Zenon
    <2>2. budget.reservedTools - 1 \in Nat /\ budget.tools + 1 \in Nat
      BY OpenUnanswered, BudgetFacts
    <2> QED
      BY <2>1, <2>2, BudgetFacts, Zenon DEF BudgetRows
  <1>6. budget'.retries <= MaximumRetries
    BY <1>5, Zenon DEF WorkInv, BudgetHolds
  <1>7. /\ row.state \notin {"prepared", "running"} /\ row.attempt = loop.attempt
        /\ "compile_after_tool" \in Actions /\ "compile_after_tool" # "none"
    BY <1>3, <1>4 DEF Actions
  <1> QED
    BY <1>1, <1>2, <1>3, <1>5, <1>6, <1>7, ToolCloses

(* An attempt or a tool call goes out: it stays open. *)
LEMMA DispatchKeeps ==
  ASSUME WorkInv, RunInv, DispatchModelAttempt
  PROVE  WorkInv'
  <1> DEFINE row == [Current EXCEPT !.state = "dispatching", !.dispatched = Now]
  <1>1. /\ loop.attempt # None /\ Current.state = "prepared"
        /\ attempts' = [attempts EXCEPT ![loop.attempt] = row]
        /\ loop' = loop /\ budget' = budget /\ run' = run
        /\ tools' = tools /\ effects' = effects
    BY Zenon DEF DispatchModelAttempt, OwnAttempt, Current
  <1>2. loop.attempt \in DOMAIN attempts
    BY <1>1, AttemptFacts, Zenon
  <1>3. /\ row \in AttemptRows /\ row.state = "dispatching"
        /\ row.response = Current.response
    <2>1. Current \in AttemptRows /\ Now \in Nat
      BY <1>2, WorkFacts, PreparedRow, Zenon DEF Current
    <2> HIDE DEF Now, Current
    <2> QED
      BY <2>1, Zenon DEF AttemptRows, AttemptStates
  <1> HIDE DEF row
  <1>4. /\ attempts' \in Seq(AttemptRows) /\ Len(attempts') = Len(attempts)
        /\ DOMAIN attempts' = DOMAIN attempts /\ attempts'[loop.attempt] = row
        /\ \A j \in DOMAIN attempts : j # loop.attempt => attempts'[j] = attempts[j]
    <2>1. attempts \in Seq(AttemptRows)
      BY Zenon DEF WorkInv, RowTypes
    <2> QED
      BY <1>1, <1>2, <1>3, <2>1, RowChanged
  <1>5. SameAttempts
    <2> SUFFICES ASSUME NEW i \in DOMAIN attempts
                 PROVE  /\ attempts'[i].response = attempts[i].response
                        /\ AttemptOpen(i)' <=> AttemptOpen(i)
                        /\ attempts[i].state = "completed" =>
                              attempts'[i].state = "completed"
      BY <1>4, Zenon DEF SameAttempts
    <2>1. CASE i = loop.attempt
      BY <1>1, <1>3, <1>4, <2>1 DEF AttemptOpen, Current
    <2>2. CASE i # loop.attempt
      BY <1>4, <2>2, Zenon DEF AttemptOpen
    <2> QED
      BY <2>1, <2>2, Zenon
  <1>6. SameTools /\ SameEffects
    BY <1>1, Unmoved, Zenon
  <1> QED
    BY <1>1, <1>5, <1>6, SameWork, Zenon

LEMMA ToolStartKeeps ==
  ASSUME WorkInv, RunInv, OwnTool, Tool.state = "prepared",
         tools' = [tools EXCEPT ![loop.tool] =
                      [@ EXCEPT !.state = "running", !.started = Now]],
         loop' = loop, budget' = budget, attempts' = attempts, effects' = effects,
         run'.status \in Terminal <=> run.status \in Terminal
  PROVE  WorkInv'
  <1> DEFINE row == [Tool EXCEPT !.state = "running", !.started = Now]
  <1>1. loop.tool # None /\ tools' = [tools EXCEPT ![loop.tool] = row]
    BY Zenon DEF OwnTool, Tool
  <1>2. loop.tool \in DOMAIN tools
    BY <1>1, AttemptFacts, Zenon
  <1>3. row \in ToolRows /\ row.state = "running" /\ row.attempt = Tool.attempt
    <2>1. Tool \in ToolRows /\ Now \in Nat
      BY <1>2, WorkFacts, PreparedRow, Zenon DEF Tool
    <2> HIDE DEF Now, Tool
    <2> QED
      BY <2>1, Zenon DEF ToolRows, ToolStates
  <1> HIDE DEF row
  <1>4. /\ tools' \in Seq(ToolRows) /\ Len(tools') = Len(tools)
        /\ DOMAIN tools' = DOMAIN tools /\ tools'[loop.tool] = row
        /\ \A j \in DOMAIN tools : j # loop.tool => tools'[j] = tools[j]
    <2>1. tools \in Seq(ToolRows)
      BY Zenon DEF WorkInv, RowTypes
    <2> QED
      BY <1>1, <1>2, <1>3, <2>1, RowChanged
  <1>5. SameTools
    <2> SUFFICES ASSUME NEW t \in DOMAIN tools
                 PROVE  /\ tools'[t].attempt = tools[t].attempt
                        /\ ToolOpen(t)' <=> ToolOpen(t)
                        /\ tools'[t].state = "succeeded" => tools[t].state = "succeeded"
      BY <1>4, Zenon DEF SameTools
    <2>1. CASE t = loop.tool
      BY <1>3, <1>4, <2>1 DEF ToolOpen, Tool
    <2>2. CASE t # loop.tool
      BY <1>4, <2>2, Zenon DEF ToolOpen
    <2> QED
      BY <2>1, <2>2, Zenon
  <1>6. SameAttempts /\ SameEffects
    BY Unmoved, Zenon
  <1> QED
    BY <1>5, <1>6, SameWork, Zenon

(* An effect moves through its own states and stays what it is to the run. *)
LEMMA EffectRestated ==
  ASSUME WorkInv, NEW e \in DOMAIN effects, NEW to \in EffectStates
  PROVE  LET row == [effects[e] EXCEPT !.state = to]
         IN  /\ row \in EffectRows /\ row.attempt = effects[e].attempt
             /\ row.observed <=> effects[e].observed
  <1>1. effects[e] \in EffectRows
    BY WorkFacts, Zenon
  <1> QED
    BY <1>1, Zenon DEF EffectRows

LEMMA EffectMoved ==
  ASSUME WorkInv, NEW e \in DOMAIN effects, NEW to \in EffectStates,
         effects' = [effects EXCEPT ![e].state = to]
  PROVE  SameEffects
  <1> DEFINE row == [effects[e] EXCEPT !.state = to]
  <1>1. /\ row \in EffectRows /\ row.attempt = effects[e].attempt
        /\ row.observed <=> effects[e].observed
    BY EffectRestated, Zenon
  <1>2. effects' = [effects EXCEPT ![e] = row]
    BY Zenon
  <1> HIDE DEF row
  <1>3. /\ effects' \in Seq(EffectRows) /\ Len(effects') = Len(effects)
        /\ DOMAIN effects' = DOMAIN effects /\ effects'[e] = row
        /\ \A j \in DOMAIN effects : j # e => effects'[j] = effects[j]
    <2>1. effects \in Seq(EffectRows)
      BY Zenon DEF WorkInv, RowTypes
    <2> QED
      BY <1>1, <1>2, <2>1, RowChanged
  <1> QED
    BY <1>1, <1>3, Zenon DEF SameEffects

LEMMA EffectsMapped ==
  ASSUME WorkInv, NEW S, NEW to \in EffectStates,
         effects' = [e \in DOMAIN effects |->
                       IF e \in S THEN [effects[e] EXCEPT !.state = to]
                       ELSE effects[e]]
  PROVE  SameEffects /\ (S = {} => effects' = effects)
  <1>1. /\ DOMAIN effects' = DOMAIN effects
        /\ effects' = [e \in DOMAIN effects |-> effects'[e]]
    BY Zenon
  <1>2. ASSUME NEW e \in DOMAIN effects
        PROVE  /\ effects'[e] \in EffectRows
               /\ effects'[e].attempt = effects[e].attempt
               /\ effects'[e].observed <=> effects[e].observed
    <2>1. CASE e \in S
      BY <1>2, <2>1, EffectRestated, Zenon
    <2>2. CASE e \notin S
      BY <1>2, <2>2, WorkFacts, Zenon
    <2> QED
      BY <2>1, <2>2, Zenon
  <1>3. effects \in Seq(EffectRows)
    BY Zenon DEF WorkInv, RowTypes
  <1>4. effects' \in Seq(EffectRows) /\ Len(effects') = Len(effects)
    BY <1>1, <1>2, <1>3, RowsMapped
  <1>5. S = {} => effects' = effects
    BY <1>3
  <1> QED
    BY <1>1, <1>2, <1>4, <1>5, Zenon DEF SameEffects

-----------------------------------------------------------------------------
(* Steps that keep the run, its task and its leases sound. *)

LogTyped == log \in Seq({log[k] : k \in DOMAIN log})

(* Appending events to the journal leaves a journal. *)
LEMMA LogGrows ==
  ASSUME RunInv, NEW T, NEW events \in Seq(T), log' = log \o events
  PROVE  LogTyped'
  <1> DEFINE S == {log[k] : k \in DOMAIN log}
  <1>1. log \in Seq(S)
    BY Zenon DEF RunInv, RunTypes
  <1> HIDE DEF S
  <1>2. log \in Seq(S \cup T) /\ events \in Seq(S \cup T)
    BY <1>1
  <1>3. log' \in Seq(S \cup T)
    BY <1>2
  <1>4. \A q : q \in Seq(S \cup T) => q \in Seq({q[k] : k \in DOMAIN q})
    OBVIOUS
  <1> QED
    BY <1>3, <1>4, Zenon DEF LogTyped

LEMMA LeaseStays ==
  ASSUME RunInv, run' \in RunRows, task' \in TaskStatus, LogTyped',
         run'.status = "running" <=> run.status = "running", leases' = leases
  PROVE  RunInv'
  BY Zenon DEF RunInv, RunTypes, LeaseIsLast, LogTyped

LEMMA LeaseEnds ==
  ASSUME RunInv, NEW state \in {"released", "expired"}, EndLease(state),
         Fenced, Now \in Nat,
         run' \in RunRows, task' \in TaskStatus, LogTyped', run'.status # "running"
  PROVE  RunInv'
  <1> DEFINE n == Len(leases)
             row == [leases[n] EXCEPT !.state = state, !.ended = Now]
  <1>1. leases \in Seq(LeaseRows) /\ n # 0
    BY Zenon DEF RunInv, RunTypes, LeaseIsLast, Fenced
  <1>2. n \in DOMAIN leases /\ leases[n] \in LeaseRows
    BY <1>1
  <1>3. leases' = [leases EXCEPT ![n] = row]
    BY Zenon DEF EndLease
  <1>4. row \in LeaseRows /\ row.state = state
    <2> HIDE DEF Now, n
    <2> QED
      BY <1>2, Zenon DEF LeaseRows
  <1> HIDE DEF row, n
  <1>5. /\ leases' \in Seq(LeaseRows) /\ Len(leases') = Len(leases)
        /\ DOMAIN leases' = DOMAIN leases /\ leases'[n] = row
        /\ \A j \in DOMAIN leases : j # n => leases'[j] = leases[j]
    BY <1>1, <1>2, <1>3, <1>4, RowChanged
  <1>6. \A k \in DOMAIN leases : leases'[k].state # "active"
    <2> SUFFICES ASSUME NEW k \in DOMAIN leases PROVE leases'[k].state # "active"
      OBVIOUS
    <2>1. CASE k = n
      BY <1>4, <1>5, <2>1
    <2>2. CASE k # n
      BY <1>5, <2>2, Zenon DEF RunInv, LeaseIsLast, n
    <2> QED
      BY <2>1, <2>2, Zenon
  <1>7. LeaseIsLast'
    BY <1>5, <1>6, Zenon DEF LeaseIsLast
  <1> QED
    BY <1>5, <1>7, Zenon DEF RunInv, RunTypes, LogTyped

LEMMA LogOne ==
  ASSUME RunInv, NEW a, Append_(<<a>>)
  PROVE  LogTyped'
  <1>1. <<a>> \in Seq({a})
    OBVIOUS
  <1> QED
    BY <1>1, LogGrows, Zenon DEF Append_

LEMMA LogTwo ==
  ASSUME RunInv, NEW a, NEW b, Append_(<<a, b>>)
  PROVE  LogTyped'
  <1>1. <<a, b>> \in Seq({a, b})
    OBVIOUS
  <1> QED
    BY <1>1, LogGrows, Zenon DEF Append_

LEMMA LogThree ==
  ASSUME RunInv, NEW a, NEW b, NEW c, Append_(<<a, b, c>>)
  PROVE  LogTyped'
  <1>1. <<a, b, c>> \in Seq({a, b, c})
    OBVIOUS
  <1> QED
    BY <1>1, LogGrows, Zenon DEF Append_

LEMMA LogFour ==
  ASSUME RunInv, NEW a, NEW b, NEW c, NEW d, Append_(<<a, b, c, d>>)
  PROVE  LogTyped'
  <1>1. <<a, b, c, d>> \in Seq({a, b, c, d})
    OBVIOUS
  <1> QED
    BY <1>1, LogGrows, Zenon DEF Append_

LEMMA LogBoth ==
  ASSUME RunInv, NEW S, NEW T, NEW q \in Seq(S), NEW r \in Seq(T), Append_(q \o r)
  PROVE  LogTyped'
  <1>1. q \in Seq(S \cup T) /\ r \in Seq(S \cup T)
    OBVIOUS
  <1>2. q \o r \in Seq(S \cup T)
    BY <1>1
  <1> QED
    BY <1>2, LogGrows, Zenon DEF Append_

LEMMA LogStays ==
  ASSUME RunInv, log' = log
  PROVE  LogTyped'
  BY Zenon DEF RunInv, RunTypes, LogTyped

LEMMA RunFacts ==
  ASSUME RunInv
  PROVE  /\ run \in RunRows /\ run.token \in Nat /\ run.token + 1 \in Nat
         /\ Now \in Nat /\ task \in TaskStatus /\ run.status \in RunStatus
  BY DEF RunInv, RunTypes, RunRows, Now

LEMMA StatusMoves ==
  ASSUME RunInv, NEW status \in RunStatus,
         run' = [run EXCEPT !.status = status, !.token = @ + 1]
  PROVE  run' \in RunRows /\ run'.status = status
  <1>1. run' = [run EXCEPT !.status = status, !.token = run.token + 1]
    BY Zenon
  <1> QED
    BY <1>1, RunFacts, Zenon DEF RunRows

-----------------------------------------------------------------------------
(* Every action keeps the invariant. *)

LEMMA AcquireKeeps ==
  ASSUME LoopInv, AcquireLease
  PROVE  LoopInv'
  <1> DEFINE row == [token |-> run.token + 1, state |-> "active", at |-> Now, ended |-> 0]
  <1> USE DEF LoopInv
  <1>1. /\ run.status = "queued" /\ task \in {"queued", "running", "cancelling"}
        /\ run' = [run EXCEPT !.status = "running", !.token = @ + 1]
        /\ task' = IF task = "queued" THEN "running" ELSE task
        /\ leases' = Append(leases, row)
        /\ loop' = loop /\ attempts' = attempts /\ tools' = tools
        /\ effects' = effects /\ budget' = budget
    BY Zenon DEF AcquireLease, workVars
  <1>2. LogTyped'
    BY LogOne, Zenon DEF AcquireLease
  <1>3. run' \in RunRows /\ run'.status = "running"
    BY <1>1, StatusMoves, Zenon DEF RunStatus
  <1>4. task' \in TaskStatus
    BY <1>1 DEF TaskStatus, RunStatus
  <1>5. row \in LeaseRows /\ row.state = "active" /\ leases \in Seq(LeaseRows)
    <2>1. 0 \in Nat
      OBVIOUS
    <2>2. row \in LeaseRows
      <3> HIDE DEF Now
      <3> QED
        BY <2>1, RunFacts, Zenon DEF LeaseRows
    <2> QED
      BY <2>2, Zenon DEF RunInv, RunTypes
  <1> HIDE DEF row
  <1>6. /\ leases' \in Seq(LeaseRows) /\ Len(leases') = Len(leases) + 1
        /\ DOMAIN leases' = DOMAIN leases \cup {Len(leases')}
        /\ Len(leases') \notin DOMAIN leases /\ Len(leases') # 0
        /\ leases'[Len(leases')] = row /\ \A j \in DOMAIN leases : leases'[j] = leases[j]
    BY <1>1, <1>5, RowAppended
  <1>7. \A k \in DOMAIN leases : leases[k].state # "active"
    <2>1. run.status # "running"
      BY <1>1
    <2> QED
      BY <2>1, Zenon DEF RunInv, LeaseIsLast
  <1>8. LeaseIsLast'
    BY <1>3, <1>5, <1>6, <1>7, Zenon DEF LeaseIsLast
  <1>9. RunInv'
    BY <1>2, <1>3, <1>4, <1>6, <1>8, Zenon DEF RunInv, RunTypes, LogTyped
  <1>10. run'.status \in Terminal <=> run.status \in Terminal
    BY <1>1, <1>3 DEF Terminal
  <1>11. WorkInv'
    BY <1>1, <1>10, Unmoved, SameWork, Zenon
  <1> QED
    BY <1>9, <1>11, Zenon

(* A step that leaves the run, its task and its leases alone. *)
LEMMA RunUnmoved ==
  ASSUME RunInv, LogTyped', run' = run, task' = task, leases' = leases
  PROVE  RunInv'
  BY RunFacts, LeaseStays, Zenon

LEMMA ModelStepKeeps ==
  ASSUME LoopInv, ModelStep
  PROVE  LoopInv'
  <1> USE DEF LoopInv
  <1>1. CASE PrepareModelAttempt
    <2>1. LogTyped' /\ run' = run /\ task' = task /\ leases' = leases
      BY <1>1, LogThree, Zenon DEF PrepareModelAttempt
    <2> QED
      BY <1>1, <2>1, RunUnmoved, PrepareModelKeeps, Zenon
  <1>2. CASE DispatchModelAttempt
    <2>1. LogTyped' /\ run' = run /\ task' = task /\ leases' = leases
      BY <1>2, LogOne, Zenon DEF DispatchModelAttempt
    <2> QED
      BY <1>2, <2>1, RunUnmoved, DispatchKeeps, Zenon
  <1>3. ASSUME NEW reason \in WindowReasons, RetireUnviableModelDispatch(reason)
        PROVE  LoopInv'
    <2>1. LogTyped' /\ run' = run /\ task' = task /\ leases' = leases
      BY <1>3, LogOne, Zenon DEF RetireUnviableModelDispatch
    <2> QED
      BY <1>3, <2>1, RunUnmoved, RetireKeeps, Zenon
  <1>4. CASE RecordModelProgress
    <2>1. /\ LogTyped' /\ run' = run /\ task' = task /\ leases' = leases
          /\ loop' = loop /\ attempts' = attempts /\ tools' = tools
          /\ effects' = effects /\ budget' = budget
      BY <1>4, LogOne, Zenon DEF RecordModelProgress, workVars
    <2> QED
      BY <2>1, RunUnmoved, Unmoved, SameWork, Zenon
  <1>5. ASSUME NEW kind \in ResponseKinds, RecordModelResult(kind)
        PROVE  LoopInv'
    <2>1. LogTyped' /\ run' = run /\ task' = task /\ leases' = leases
      BY <1>5, LogTwo, Zenon DEF RecordModelResult
    <2> QED
      BY <1>5, <2>1, RunUnmoved, ResultKeeps, Zenon
  <1>6. ASSUME NEW retryable \in BOOLEAN, RecordModelFailure(retryable)
        PROVE  LoopInv'
    <2>1. WorkInv'
      BY <1>6, FailureKeeps, Zenon
    <2>2. Fenced /\ task' = task
      BY <1>6, Zenon DEF RecordModelFailure, Working
    <2>3. \/ RequeueProviderRetry
          \/ /\ Append_(<<Event("model.attempt.failed", loop.attempt)>>)
             /\ run' = run /\ leases' = leases
      BY <1>6, Zenon DEF RecordModelFailure
    <2>4. CASE RequeueProviderRetry
      <3>1. EndLease("released") /\ LogTyped'
        BY <2>4, LogThree, Zenon DEF RequeueProviderRetry
      <3>2. run' = [run EXCEPT !.status = "queued", !.token = run.token + 1, !.delayed = TRUE]
        BY <2>4, Zenon DEF RequeueProviderRetry
      <3>3. run' \in RunRows /\ run'.status = "queued"
        BY <3>2, RunFacts, Zenon DEF RunRows, RunStatus
      <3>4. run'.status # "running"
        BY <3>3
      <3> QED
        BY <2>1, <2>2, <3>1, <3>3, <3>4, RunFacts, LeaseEnds, Zenon
    <2>5. CASE /\ Append_(<<Event("model.attempt.failed", loop.attempt)>>)
               /\ run' = run /\ leases' = leases
      BY <2>1, <2>2, <2>5, LogOne, RunUnmoved, Zenon
    <2> QED
      BY <2>3, <2>4, <2>5, Zenon
  <1> QED
    BY <1>1, <1>2, <1>3, <1>4, <1>5, <1>6, Zenon DEF ModelStep

LEMMA ToolStepKeeps ==
  ASSUME LoopInv, ToolStep
  PROVE  LoopInv'
  <1> USE DEF LoopInv
  <1>1. CASE PrepareReadTool
    <2>1. LogTyped' /\ run' = run /\ task' = task /\ leases' = leases
      BY <1>1, LogOne, Zenon DEF PrepareReadTool
    <2> QED
      BY <1>1, <2>1, RunUnmoved, PrepareToolKeeps, Zenon
  <1>2. CASE DispatchReadTool
    <2>1. LogTyped' /\ run' = run /\ task' = task /\ leases' = leases
      BY <1>2, LogOne, Zenon DEF DispatchReadTool
    <2>2. WorkInv'
      BY <1>2, ToolStartKeeps, Zenon DEF DispatchReadTool
    <2> QED
      BY <2>1, <2>2, RunUnmoved, Zenon
  <1>3. CASE RecordReadToolResult
    <2>1. LogTyped' /\ run' = run /\ task' = task /\ leases' = leases
      BY <1>3, LogTwo, Zenon DEF RecordReadToolResult
    <2>2. ToolInFlight
      BY <1>3, Zenon DEF RecordReadToolResult, OwnTool, ToolInFlight
    <2>3. WorkInv'
      BY <1>3, <2>2, ToolSucceededKeeps, Zenon DEF RecordReadToolResult
    <2> QED
      BY <2>1, <2>3, RunUnmoved, Zenon
  <1>4. CASE LaunchAgentDelegation
    <2>1. /\ Fenced /\ EndLease("released") /\ LogTyped' /\ task' = "waiting"
          /\ run' = [run EXCEPT !.status = "waiting", !.token = @ + 1]
      BY <1>4, LogThree, Zenon DEF LaunchAgentDelegation, Working
    <2>2. run' \in RunRows /\ run'.status = "waiting"
      BY <2>1, StatusMoves, Zenon DEF RunStatus
    <2>3. /\ run'.status # "running" /\ task' \in TaskStatus
          /\ run'.status \in Terminal <=> run.status \in Terminal
      BY <2>1, <2>2 DEF TaskStatus, RunStatus, Fenced, Terminal
    <2>4. RunInv'
      BY <2>1, <2>2, <2>3, RunFacts, LeaseEnds, Zenon
    <2>5. WorkInv'
      BY <1>4, <2>3, ToolStartKeeps, Zenon DEF LaunchAgentDelegation
    <2> QED
      BY <2>4, <2>5, Zenon
  <1>5. CASE SettleDelegatedChild
    <2>1. /\ run.status = "waiting" /\ leases' = leases /\ LogTyped'
          /\ task' = IF run.cancel THEN "cancelling" ELSE "queued"
          /\ run' = [run EXCEPT !.status = "queued", !.delayed = FALSE]
      BY <1>5, LogThree, Zenon DEF SettleDelegatedChild
    <2>2. run' \in RunRows /\ run'.status = "queued"
      BY <2>1, RunFacts, Zenon DEF RunRows, RunStatus
    <2>3. /\ run'.status = "running" <=> run.status = "running"
          /\ task' \in TaskStatus
      BY <2>1, <2>2 DEF TaskStatus, RunStatus
    <2>4. RunInv'
      BY <2>1, <2>2, <2>3, LeaseStays, Zenon
    <2>5. ToolInFlight
      BY <1>5, Zenon DEF SettleDelegatedChild, ToolInFlight
    <2>6. WorkInv'
      BY <1>5, <2>5, ToolSucceededKeeps, Zenon DEF SettleDelegatedChild
    <2> QED
      BY <2>4, <2>6, Zenon
  <1> QED
    BY <1>1, <1>2, <1>3, <1>4, <1>5, Zenon DEF ToolStep

LEMMA EffectMovesKeep ==
  ASSUME LoopInv, NEW e \in DOMAIN effects, NEW from, NEW to \in EffectStates,
         EffectMoves(e, from, to)
  PROVE  LoopInv'
  <1> USE DEF LoopInv
  <1>1. /\ effects' = [effects EXCEPT ![e].state = to] /\ log' = log
        /\ run' = run /\ task' = task /\ leases' = leases /\ loop' = loop
        /\ attempts' = attempts /\ tools' = tools /\ budget' = budget
    BY Zenon DEF EffectMoves
  <1>2. RunInv'
    BY <1>1, LogStays, RunUnmoved, Zenon
  <1>3. SameEffects /\ SameAttempts /\ SameTools
    BY <1>1, EffectMoved, Unmoved, Zenon
  <1> QED
    BY <1>1, <1>2, <1>3, SameWork, Zenon

LEMMA EffectStepKeeps ==
  ASSUME LoopInv, EffectStep
  PROVE  LoopInv'
  <1> USE DEF LoopInv
  <1>1. CASE RecordAgentEffectProposal
    <2>1. /\ Fenced /\ EndLease("released") /\ LogTyped' /\ task' = "waiting"
          /\ run' = [run EXCEPT !.status = "waiting", !.token = @ + 1]
      BY <1>1, LogFour, Zenon DEF RecordAgentEffectProposal, Working
    <2>2. run' \in RunRows /\ run'.status = "waiting"
      BY <2>1, StatusMoves, Zenon DEF RunStatus
    <2>3. run'.status # "running" /\ task' \in TaskStatus
      BY <2>1, <2>2 DEF TaskStatus, RunStatus
    <2>4. RunInv'
      BY <2>1, <2>2, <2>3, RunFacts, LeaseEnds, Zenon
    <2> QED
      BY <1>1, <2>4, ProposalKeeps, Zenon
  <1>2. ASSUME NEW e \in DOMAIN effects, DecideEffect(e) \/ ExecuteEffect(e)
        PROVE  LoopInv'
    <2>1. \/ EffectMoves(e, "proposed", "authorized")
          \/ EffectMoves(e, "proposed", "terminal")
          \/ EffectMoves(e, "outcome_unknown", "terminal")
          \/ EffectMoves(e, "authorized", "running")
          \/ EffectMoves(e, "running", "terminal")
          \/ EffectMoves(e, "running", "outcome_unknown")
      BY <1>2, Zenon DEF DecideEffect, ExecuteEffect
    <2>2. {"authorized", "terminal", "running", "outcome_unknown"} \subseteq EffectStates
      BY DEF EffectStates
    <2> QED
      BY <1>2, <2>1, <2>2, EffectMovesKeep, Zenon
  <1>3. ASSUME NEW e \in DOMAIN effects, ResumeAgentEffectRun(e)
        PROVE  LoopInv'
    <2>1. /\ run.status = "waiting" /\ leases' = leases /\ LogTyped' /\ task' = "queued"
          /\ run' = [run EXCEPT !.status = "queued", !.delayed = FALSE]
          /\ loop' = loop /\ attempts' = attempts /\ tools' = tools
          /\ effects' = effects /\ budget' = budget
      BY <1>3, LogOne, Zenon DEF ResumeAgentEffectRun, workVars
    <2>2. run' \in RunRows /\ run'.status = "queued"
      BY <2>1, RunFacts, Zenon DEF RunRows, RunStatus
    <2>3. /\ run'.status = "running" <=> run.status = "running"
          /\ run'.status \in Terminal <=> run.status \in Terminal
          /\ task' \in TaskStatus
      BY <2>1, <2>2 DEF TaskStatus, RunStatus, Terminal
    <2>4. RunInv'
      BY <2>1, <2>2, <2>3, LeaseStays, Zenon
    <2>5. SameAttempts /\ SameTools /\ SameEffects
      BY <2>1, Unmoved, Zenon
    <2> QED
      BY <2>1, <2>3, <2>4, <2>5, SameWork, Zenon
  <1>4. ASSUME NEW e \in DOMAIN effects, ParkAgentEffectRun(e)
        PROVE  LoopInv'
    <2>1. /\ Fenced /\ EndLease("released") /\ LogTyped' /\ task' = "waiting"
          /\ run' = [run EXCEPT !.status = "waiting", !.token = @ + 1]
          /\ loop' = loop /\ attempts' = attempts /\ tools' = tools
          /\ effects' = effects /\ budget' = budget
      BY <1>4, LogTwo, Zenon DEF ParkAgentEffectRun, workVars
    <2>2. run' \in RunRows /\ run'.status = "waiting"
      BY <2>1, StatusMoves, Zenon DEF RunStatus
    <2>3. /\ run'.status # "running" /\ task' \in TaskStatus
          /\ run'.status \in Terminal <=> run.status \in Terminal
      BY <2>1, <2>2 DEF TaskStatus, RunStatus, Fenced, Terminal
    <2>4. RunInv'
      BY <2>1, <2>2, <2>3, RunFacts, LeaseEnds, Zenon
    <2>5. SameAttempts /\ SameTools /\ SameEffects
      BY <2>1, Unmoved, Zenon
    <2> QED
      BY <2>1, <2>3, <2>4, <2>5, SameWork, Zenon
  <1>5. ASSUME NEW e \in DOMAIN effects, RecordAgentEffectObservation(e)
        PROVE  LoopInv'
    <2>1. LogTyped' /\ run' = run /\ task' = task /\ leases' = leases
      BY <1>5, LogTwo, Zenon DEF RecordAgentEffectObservation
    <2> QED
      BY <1>5, <2>1, RunUnmoved, ObservationKeeps, Zenon
  <1> QED
    BY <1>1, <1>2, <1>3, <1>4, <1>5, Zenon DEF EffectStep

(* Recovery of an expired lease, whoever asked for it. *)
LEMMA RecoverKeeps ==
  ASSUME LoopInv, NEW extra, NEW T, extra \in Seq(T), RecoverLease(extra),
         task' \in TaskStatus
  PROVE  LoopInv'
  <1> USE DEF LoopInv
  <1> DEFINE status == IF EffectInFlight = {} THEN "queued" ELSE "waiting"
  <1>1. /\ Fenced /\ RecoverIncompleteAgentBoundary /\ EndLease("expired")
        /\ effects' = [e \in DOMAIN effects |->
                         IF e \in EffectInFlight
                         THEN [effects[e] EXCEPT !.state = "outcome_unknown"]
                         ELSE effects[e]]
        /\ run' = [run EXCEPT !.token = @ + 1, !.status = status]
    BY Zenon DEF RecoverLease
  <1>2. LogTyped'
    <2>1. \/ Append_(<<Event("lease.expired", run.token),
                       Event("run.requeued", run.token)>> \o extra)
          \/ Append_(<<Event("lease.expired", run.token),
                       Event("agent.boundary_recovered", run.token),
                       Event("run.requeued", run.token)>> \o extra)
      BY Zenon DEF RecoverLease
    <2>2. \A a, b, c : <<a, b>> \in Seq({a, b}) /\ <<a, b, c>> \in Seq({a, b, c})
      OBVIOUS
    <2> QED
      BY <2>1, <2>2, LogBoth, Zenon
  <1>3. status \in {"queued", "waiting"}
    BY Zenon
  <1> HIDE DEF status
  <1>4. run' \in RunRows /\ run'.status = status
    <2>1. run' = [run EXCEPT !.token = run.token + 1, !.status = status]
      BY <1>1, Zenon
    <2> QED
      BY <1>3, <2>1, RunFacts, Zenon DEF RunRows, RunStatus
  <1>5. /\ run'.status # "running"
        /\ run'.status \in Terminal <=> run.status \in Terminal
    BY <1>1, <1>3, <1>4 DEF Fenced, Terminal
  <1>6. RunInv'
    BY <1>1, <1>2, <1>4, <1>5, RunFacts, LeaseEnds, Zenon
  <1>7. SameEffects /\ (EffectInFlight = {} => effects' = effects)
    BY <1>1, EffectsMapped, Zenon DEF EffectStates
  <1>8. EffectInFlight # {} => loop.action = "consume_model_result"
    BY Zenon DEF EffectInFlight
  <1>9. CASE ToolInFlight /\ RecoverTool
    <2>1. EffectInFlight = {}
      BY <1>8, <1>9, AttemptFacts
    <2> QED
      BY <1>6, <1>7, <1>9, <2>1, RecoverToolKeeps, Zenon
  <1>10. CASE ~ToolInFlight /\ AttemptInFlight /\ RecoverAttempt
    <2>1. EffectInFlight = {}
      BY <1>8, <1>10, AttemptFacts
    <2> QED
      BY <1>6, <1>7, <1>10, <2>1, RecoverAttemptKeeps, Zenon
  <1>11. CASE UNCHANGED <<loop, attempts, tools, budget>>
    <2>1. loop' = loop /\ attempts' = attempts /\ tools' = tools /\ budget' = budget
      BY <1>11, Zenon
    <2>2. SameAttempts /\ SameTools
      BY <2>1, Unmoved, Zenon
    <2> QED
      BY <1>5, <1>6, <1>7, <2>1, <2>2, SameWork, Zenon
  <1> QED
    BY <1>1, <1>9, <1>10, <1>11, Zenon DEF RecoverIncompleteAgentBoundary

(* The owner's requests: pause, resume, cancel. *)
LEMMA OwnerStepKeeps ==
  ASSUME LoopInv, OwnerStep
  PROVE  LoopInv'
  <1> USE DEF LoopInv
  <1>1. CASE PauseTask
    <2>1. task' = "paused" /\ task' \in TaskStatus
      BY <1>1 DEF PauseTask, TaskStatus
    <2>2. CASE RecoverLease(<<Event("task.paused", 0)>>)
      <3>1. <<Event("task.paused", 0)>> \in Seq({Event("task.paused", 0)})
        OBVIOUS
      <3> QED
        BY <2>1, <2>2, <3>1, RecoverKeeps, Zenon
    <2>3. CASE /\ Append_(<<Event("task.paused", 0)>>)
               /\ UNCHANGED <<run, leases, workVars, validation>>
      <3>1. /\ run' = run /\ leases' = leases /\ loop' = loop /\ attempts' = attempts
            /\ tools' = tools /\ effects' = effects /\ budget' = budget
        BY <2>3, Zenon DEF workVars
      <3>2. LogTyped'
        BY <2>3, LogOne, Zenon
      <3>3. RunInv'
        BY <2>1, <3>1, <3>2, RunFacts, LeaseStays, Zenon
      <3>4. SameAttempts /\ SameTools /\ SameEffects
        BY <3>1, Unmoved, Zenon
      <3> QED
        BY <3>1, <3>3, <3>4, SameWork, Zenon
    <2> QED
      BY <1>1, <2>2, <2>3, Zenon DEF PauseTask
  <1>2. CASE ResumeTask
    <2>1. /\ run' = run /\ leases' = leases /\ loop' = loop /\ attempts' = attempts
          /\ tools' = tools /\ effects' = effects /\ budget' = budget
          /\ task' = run.status
      BY <1>2, Zenon DEF ResumeTask, workVars
    <2>2. LogTyped'
      BY <1>2, LogOne, Zenon DEF ResumeTask
    <2>3. task' \in TaskStatus
      BY <2>1, RunFacts DEF RunRows, RunStatus, TaskStatus
    <2>4. RunInv'
      BY <2>1, <2>2, <2>3, RunFacts, LeaseStays, Zenon
    <2>5. SameAttempts /\ SameTools /\ SameEffects
      BY <2>1, Unmoved, Zenon
    <2> QED
      BY <2>1, <2>4, <2>5, SameWork, Zenon
  <1>3. CASE RequestTaskCancellation
    <2> DEFINE status == IF run.status = "waiting" /\ ~WaitsForChild
                         THEN "queued" ELSE run.status
               S == {e \in DOMAIN effects : effects[e].state = "proposed"}
    <2>1. /\ run' = [run EXCEPT !.cancel = TRUE, !.delayed = FALSE, !.status = status]
          /\ task' = "cancelling" /\ leases' = leases /\ loop' = loop
          /\ attempts' = attempts /\ tools' = tools /\ budget' = budget
      BY <1>3, Zenon DEF RequestTaskCancellation
    <2>2. effects' = [e \in DOMAIN effects |->
                        IF e \in S THEN [effects[e] EXCEPT !.state = "terminal"]
                        ELSE effects[e]]
      BY <1>3 DEF RequestTaskCancellation
    <2>3. LogTyped'
      BY <1>3, LogOne, Zenon DEF RequestTaskCancellation
    <2>4. /\ status \in RunStatus
          /\ status = "running" <=> run.status = "running"
          /\ status \in Terminal <=> run.status \in Terminal
      BY RunFacts DEF RunRows, RunStatus, Terminal
    <2>5. "cancelling" \in TaskStatus /\ "terminal" \in EffectStates
      BY DEF TaskStatus, EffectStates
    <2> HIDE DEF status, S
    <2>6. run' \in RunRows /\ run'.status = status
      BY <2>1, <2>4, RunFacts, Zenon DEF RunRows
    <2>7. RunInv'
      BY <2>1, <2>3, <2>4, <2>5, <2>6, LeaseStays, Zenon
    <2>8. SameAttempts /\ SameTools /\ SameEffects
      BY <2>1, <2>2, <2>5, Unmoved, EffectsMapped, Zenon
    <2> QED
      BY <2>1, <2>4, <2>6, <2>7, <2>8, SameWork, Zenon
  <1> QED
    BY <1>1, <1>2, <1>3, Zenon DEF OwnerStep

LEMMA ClockStepKeeps ==
  ASSUME LoopInv, ClockStep
  PROVE  LoopInv'
  <1> USE DEF LoopInv
  <1>1. CASE RetryDue \/ DeadlineElapses
    <2>1. /\ leases' = leases /\ loop' = loop /\ attempts' = attempts
          /\ tools' = tools /\ effects' = effects /\ budget' = budget
          /\ task' = task /\ log' = log
      BY <1>1, Zenon DEF RetryDue, DeadlineElapses, workVars
    <2>2. run' = [run EXCEPT !.delayed = FALSE] \/ run' = [run EXCEPT !.elapsed = TRUE]
      BY <1>1, Zenon DEF RetryDue, DeadlineElapses
    <2>3. run' \in RunRows /\ run'.status = run.status
      BY <2>2, RunFacts DEF RunRows
    <2>4. RunInv'
      BY <2>1, <2>3, RunFacts, LogStays, LeaseStays, Zenon
    <2>5. SameAttempts /\ SameTools /\ SameEffects
      BY <2>1, Unmoved, Zenon
    <2> QED
      BY <2>1, <2>3, <2>4, <2>5, SameWork, Zenon
  <1>2. CASE LeaseExpires
    <2>1. RecoverLease(<<>>) /\ (task' = "waiting" \/ task' = task)
      BY <1>2, Zenon DEF LeaseExpires
    <2>2. task' \in TaskStatus
      BY <2>1, RunFacts DEF TaskStatus, RunStatus
    <2>3. <<>> \in Seq({})
      OBVIOUS
    <2> QED
      BY <2>1, <2>2, <2>3, RecoverKeeps, Zenon
  <1> QED
    BY <1>1, <1>2, Zenon DEF ClockStep

LEMMA CompleteEnds ==
  ASSUME RunInv, Fenced, NEW status \in Terminal, NEW T, NEW events \in Seq(T),
         Complete(status, events)
  PROVE  RunInv'
  <1> DEFINE a == Event(RunEvent[status], run.token)
             b == Event(TaskEvent[status], 0)
             c == Event(TurnEvent[status], 0)
  <1>1. /\ EndLease("released") /\ task' = status
        /\ run' = [run EXCEPT !.status = status, !.token = @ + 1]
        /\ Append_(events \o <<a, b, c>>)
    BY Zenon DEF Complete
  <1> HIDE DEF a, b, c
  <1>2. <<a, b, c>> \in Seq({a, b, c})
    OBVIOUS
  <1>3. LogTyped'
    BY <1>1, <1>2, LogBoth, Zenon
  <1>4. status \in RunStatus /\ status \in TaskStatus /\ status # "running"
    BY DEF RunStatus, TaskStatus, Terminal
  <1>5. run' \in RunRows /\ run'.status = status
    BY <1>1, <1>4, StatusMoves, Zenon
  <1> QED
    BY <1>1, <1>3, <1>4, <1>5, RunFacts, LeaseEnds, Zenon

LEMMA CompletionStepKeeps ==
  ASSUME LoopInv, CompletionStep
  PROVE  LoopInv'
  <1> USE DEF LoopInv
  <1>1. ASSUME NEW verdict, RecordValidation(verdict)
        PROVE  LoopInv'
    <2>1. /\ run' = run /\ leases' = leases /\ loop' = loop /\ attempts' = attempts
          /\ tools' = tools /\ effects' = effects /\ budget' = budget /\ task' = task
      BY <1>1, Zenon DEF RecordValidation, workVars
    <2>2. RunInv'
      BY <1>1, <2>1, LogOne, RunUnmoved, Zenon DEF RecordValidation
    <2>3. SameAttempts /\ SameTools /\ SameEffects
      BY <2>1, Unmoved, Zenon
    <2> QED
      BY <2>1, <2>2, <2>3, SameWork, Zenon
  <1>2. CASE CommitFinal
    <2> DEFINE e == Event("message.assistant.final", loop.attempt)
    <2>1. Fenced /\ Complete("succeeded", <<e>>)
      BY <1>2, Zenon DEF CommitFinal, Working
    <2> HIDE DEF e
    <2>2. <<e>> \in Seq({e}) /\ "succeeded" \in Terminal
      BY DEF Terminal
    <2> QED
      BY <1>2, <2>1, <2>2, CompleteEnds, CommitFinalKeeps, Zenon
  <1>3. ASSUME NEW status \in {"failed", "cancelled"}, CompleteRun(status)
        PROVE  LoopInv'
    <2>1. Fenced /\ Complete(status, <<>>)
      BY <1>3, Zenon DEF CompleteRun
    <2>2. <<>> \in Seq({}) /\ status \in Terminal
      BY DEF Terminal
    <2> QED
      BY <1>3, <2>1, <2>2, CompleteEnds, CompleteRunKeeps, Zenon
  <1> QED
    BY <1>1, <1>2, <1>3, Zenon DEF CompletionStep

LEMMA LoopInvInitially == Init => LoopInv
  <1> SUFFICES ASSUME Init PROVE LoopInv
    OBVIOUS
  <1> USE DEF Init
  <1>1. RowTypes /\ LoopIsAtRows
    BY DEF RowTypes, LoopIsAtRows, LoopRows, BudgetRows, Actions, None
  <1>2. OpenAttempt /\ OpenTool /\ OpenEffect /\ AnswerIsComplete
    BY DEF OpenAttempt, OpenTool, OpenEffect, AnswerIsComplete
  <1>3. ToolsAskedFor /\ EffectsAskedFor /\ OneSuccess /\ OneEffect /\ NoneYet
    BY DEF ToolsAskedFor, EffectsAskedFor, OneSuccess, OneEffect, NoneYet
  <1>4. Unobserved = {} /\ ~ToolInFlight /\ ~AttemptInFlight
    BY DEF Unobserved, ToolInFlight, AttemptInFlight, None
  <1>5. CallsReserved /\ ToolsReserved /\ BudgetHolds
    BY <1>4, LoopAssumption DEF CallsReserved, ToolsReserved, BudgetHolds
  <1>6. RunInv
    BY DEF RunInv, RunTypes, LeaseIsLast, RunRows, RunStatus, TaskStatus
  <1> QED
    BY <1>1, <1>2, <1>3, <1>5, <1>6, Zenon DEF LoopInv, WorkInv

LEMMA LoopInvKept == LoopInv /\ [Next]_vars => LoopInv'
  <1> SUFFICES ASSUME LoopInv, [Next]_vars PROVE LoopInv'
    OBVIOUS
  <1>1. CASE AcquireLease
    BY <1>1, AcquireKeeps, Zenon
  <1>2. CASE UNCHANGED vars
    <2>1. /\ run' = run /\ leases' = leases /\ loop' = loop /\ attempts' = attempts
          /\ tools' = tools /\ effects' = effects /\ budget' = budget
          /\ task' = task /\ log' = log
      BY <1>2, Zenon DEF vars, workVars
    <2>2. RunInv'
      BY <2>1, LogStays, RunUnmoved, Zenon DEF LoopInv
    <2>3. SameAttempts /\ SameTools /\ SameEffects
      BY <2>1, Unmoved, Zenon DEF LoopInv
    <2> QED
      BY <2>1, <2>2, <2>3, SameWork, Zenon DEF LoopInv
  <1> QED
    BY <1>1, <1>2, ModelStepKeeps, ToolStepKeeps, EffectStepKeeps,
       CompletionStepKeeps, OwnerStepKeeps, ClockStepKeeps, Zenon DEF Next, Finished

(***************************************************************************)
(* Whatever the interleaving of the worker, the owner, the effect broker   *)
(* and the lease clock, a run's counters stay inside its budget, what is   *)
(* reserved is what settle_incomplete_agent_work will find when the run    *)
(* completes, and an answer of the model is consumed once.                 *)
(***************************************************************************)
THEOREM LoopSafe == Spec => []LoopSafety
  <1>1. LoopInv => LoopSafety
    BY SafetyFollows, Zenon
  <1> QED
    BY <1>1, LoopInvInitially, LoopInvKept, PTL DEF Spec
=============================================================================
