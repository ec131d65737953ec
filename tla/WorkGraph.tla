----------------------------- MODULE WorkGraph -----------------------------
(***************************************************************************)
(* The durable work graph of the daemon: runs, their tasks and turns, the  *)
(* active turn of each session, work leases with fencing tokens, delegated *)
(* child runs, and the workers that execute runs.                          *)
(*                                                                         *)
(* Every store operation is one SQLite transaction (BEGIN IMMEDIATE under  *)
(* the single writer lock), hence one action.  A worker computes between   *)
(* its transactions and remembers only the fence it was given at the       *)
(* claim (variable held), which may be stale when it comes back.           *)
(*                                                                         *)
(* Time is relative: a lease carries the time left until expires_at_ms, a  *)
(* run the time left until next_attempt_at_ms, a delegation the time left  *)
(* until its parent tool call times out.  Tick lets one unit pass.         *)
(*                                                                         *)
(* One task and one turn belong to each run (insert_work_graph creates the *)
(* three together), so all three are indexed by the run.                   *)
(***************************************************************************)
EXTENDS Naturals, FiniteSets

CONSTANTS
    Sessions,               \* sessions
    Runs,                   \* identifiers of runs, fresh until created
    Delegates,              \* the run identifiers used for delegated children
    Workers,                \* worker threads, each with its own WorkerId
    SessionOf,              \* the session a run identifier is used in
    PrincipalOf,            \* the principal that owns a session
    NoRun,                  \* NULL in active_turn_id and parent_run_id
    LeaseTtl,               \* lease time to live
    RetryDelay,             \* longest provider retry delay
    ToolTimeout,            \* timeout of the parent's agent.delegate call
    MaximumPerPrincipal,    \* concurrency ceilings of claim_next
    MaximumPerSession,
    MaximumPerAgentRole,
    MaximumDelegatedRuns,   \* delegated runs one parent may launch
    BatchLimit,             \* leases recovered by one transaction
    MaxToken                \* bound: disruptions stop near this token

ASSUME WorkGraphAssumption ==
    /\ Delegates \subseteq Runs
    /\ SessionOf \in [Runs -> Sessions]
    /\ NoRun \notin Runs
    /\ LeaseTtl \in Nat \ {0}
    /\ RetryDelay \in Nat
    /\ ToolTimeout \in Nat
    /\ MaximumPerPrincipal \in Nat
    /\ MaximumPerSession \in Nat
    /\ MaximumPerAgentRole \in Nat
    /\ MaxToken \in Nat

VARIABLES
    up,             \* TRUE once startup recovery has finished
    run,            \* run.status
    task,           \* task.status
    turn,           \* turn.status
    token,          \* run.current_fencing_token
    cancel,         \* run.cancellation_requested_at_ms IS NOT NULL
    delay,          \* time left until run.next_attempt_at_ms
    active,         \* session.active_turn_id, as the run of that turn
    leases,         \* the work_lease rows in state 'active'
    parent,         \* delegation.parent_run_id of a delegated run
    delegation,     \* delegation.state of a delegated run
    toolTime,       \* time left for the parent's agent.delegate call
    held            \* the fence each worker holds in memory

rowVars == <<run, task, turn, token, cancel, delay, active>>
delegationVars == <<parent, delegation, toolTime>>
vars == <<up, rowVars, leases, delegationVars, held>>

Canonical == Runs \ Delegates
Terminal == {"succeeded", "failed", "cancelled"}
RunStatus == {"absent", "queued", "running", "waiting"} \cup Terminal
TaskStatus == RunStatus \cup {"paused", "cancelling"}
TurnStatus == {"absent", "active", "completed", "failed", "cancelled"}
DelegationState == {"none", "queued", "running"} \cup Terminal
Fence == [run : Runs, token : Nat]
Lease == [run : Runs, token : Nat, owner : Workers, ttl : 0..LeaseTtl]

TypeOK ==
    /\ up \in BOOLEAN
    /\ run \in [Runs -> RunStatus]
    /\ task \in [Runs -> TaskStatus]
    /\ turn \in [Runs -> TurnStatus]
    /\ token \in [Runs -> Nat]
    /\ cancel \in [Runs -> BOOLEAN]
    /\ delay \in [Runs -> 0..RetryDelay]
    /\ active \in [Sessions -> Runs \cup {NoRun}]
    /\ leases \subseteq Lease
    /\ parent \in [Delegates -> Runs \cup {NoRun}]
    /\ delegation \in [Delegates -> DelegationState]
    /\ toolTime \in [Delegates -> 0..ToolTimeout]
    /\ held \in [Workers -> SUBSET Fence]

Init ==
    /\ up = TRUE
    /\ run = [r \in Runs |-> "absent"]
    /\ task = [r \in Runs |-> "absent"]
    /\ turn = [r \in Runs |-> "absent"]
    /\ token = [r \in Runs |-> 0]
    /\ cancel = [r \in Runs |-> FALSE]
    /\ delay = [r \in Runs |-> 0]
    /\ active = [s \in Sessions |-> NoRun]
    /\ leases = {}
    /\ parent = [c \in Delegates |-> NoRun]
    /\ delegation = [c \in Delegates |-> "none"]
    /\ toolTime = [c \in Delegates |-> 0]
    /\ held = [w \in Workers |-> {}]

(***************************************************************************)
(* A step that costs a run another claim is taken only while the token is  *)
(* below the bound, so that a run at the bound can still be finished.      *)
(***************************************************************************)
Disruptible(r) == token[r] + 2 <= MaxToken

LeasesOn(r) == {l \in leases : l.run = r}
LiveLeases == {l \in leases : l.ttl > 0}
SameRole(r, x) == (r \in Delegates) <=> (x \in Delegates)
ActiveChildren(r) ==
    {c \in Delegates : parent[c] = r /\ delegation[c] \in {"queued", "running"}}

\* Mutant of HoldsLease: any active lease of the run will do.
HoldsAnyLease(w, f) == f \in held[w] /\ LeasesOn(f.run) # {}

\* The lease row named by fence f of worker w is still active.
HoldsLease(w, f) ==
    /\ f \in held[w]
    /\ token[f.run] = f.token
    /\ \E l \in LeasesOn(f.run) : l.token = f.token /\ l.owner = w

\* Every fenced transaction also compares expires_at_ms with a time its caller
\* read.  Where the caller reads it before it waits for the writer lock, the
\* lease may have expired when the transaction runs, so only the transactions
\* whose caller reads the clock under the lock have this conjunct.
Unexpired(r) == LeasesOn(r) \subseteq LiveLeases

\* The fence check of every worker transaction that changes a run.
Fenced(w, f) == HoldsLease(w, f) /\ run[f.run] = "running"

-----------------------------------------------------------------------------
(***************************************************************************)
(* Sessions: the promotion of an inbox entry to a turn, and the interrupt  *)
(* of the active turn.  Module SessionInbox adds the inbox that drives     *)
(* them.                                                                   *)
(***************************************************************************)
PromoteNext(s, r) ==
    /\ up
    /\ active[s] = NoRun
    /\ r \in Canonical /\ SessionOf[r] = s /\ run[r] = "absent"
    /\ run' = [run EXCEPT ![r] = "queued"]
    /\ task' = [task EXCEPT ![r] = "queued"]
    /\ turn' = [turn EXCEPT ![r] = "active"]
    /\ active' = [active EXCEPT ![s] = r]
    /\ UNCHANGED <<up, token, cancel, delay, leases, delegationVars, held>>

\* ("queued", "queued"): the turn is cancelled without ever being claimed.
InterruptBeforeClaim(s) ==
    /\ up
    /\ \E r \in Runs :
        /\ active[s] = r
        /\ run[r] = "queued" /\ task[r] = "queued" /\ turn[r] = "active"
        /\ run' = [run EXCEPT ![r] = "cancelled"]
        /\ token' = [token EXCEPT ![r] = @ + 1]
        /\ cancel' = [cancel EXCEPT ![r] = TRUE]
        /\ task' = [task EXCEPT ![r] = "cancelled"]
        /\ turn' = [turn EXCEPT ![r] = "cancelled"]
    /\ active' = [active EXCEPT ![s] = NoRun]
    /\ UNCHANGED <<up, delay, leases, delegationVars, held>>

\* ("running", "running"): the worker is asked to stop at its next boundary.
\* Any other pair of states is refused, and the driver tries again later.
InterruptRunning(s) ==
    /\ up
    /\ \E r \in Runs :
        /\ active[s] = r
        /\ run[r] = "running" /\ task[r] = "running" /\ turn[r] = "active"
        /\ ~ cancel[r]
        /\ cancel' = [cancel EXCEPT ![r] = TRUE]
        /\ task' = [task EXCEPT ![r] = "cancelling"]
    /\ UNCHANGED <<up, run, turn, token, delay, active, leases,
                   delegationVars, held>>

-----------------------------------------------------------------------------
(***************************************************************************)
(* Scheduler: claim, heartbeat, release, retry and completion.             *)
(***************************************************************************)
\* Mutant of BelowCeilings: the role ceiling is off by one.
AtCeilings(r) ==
    Cardinality({l \in LiveLeases : SameRole(l.run, r)}) <= MaximumPerAgentRole

BelowCeilings(r) ==
    /\ Cardinality({l \in LiveLeases :
            PrincipalOf[SessionOf[l.run]] = PrincipalOf[SessionOf[r]]})
        < MaximumPerPrincipal
    /\ Cardinality({l \in LiveLeases : SessionOf[l.run] = SessionOf[r]})
        < MaximumPerSession
    /\ Cardinality({l \in LiveLeases : SameRole(l.run, r)})
        < MaximumPerAgentRole

\* The WHERE clause of load_runnable without the ceilings and the retry time.
Claimable(r) ==
    /\ run[r] = "queued"
    /\ task[r] \in {"queued", "running", "cancelling"}
    /\ r \in Delegates => delegation[r] = "queued"
    /\ LeasesOn(r) = {}

\* Among runnable runs the query takes the oldest; here any one is taken.
ClaimNext(w, r) ==
    /\ up
    /\ held[w] = {}
    /\ Claimable(r) /\ delay[r] = 0 /\ BelowCeilings(r)
    /\ leases' = leases \cup
        {[run |-> r, token |-> token[r] + 1, owner |-> w, ttl |-> LeaseTtl]}
    /\ run' = [run EXCEPT ![r] = "running"]
    /\ token' = [token EXCEPT ![r] = @ + 1]
    /\ delegation' = [c \in Delegates |->
                        IF c = r THEN "running" ELSE delegation[c]]
    /\ task' = [task EXCEPT ![r] = IF @ = "queued" THEN "running" ELSE @]
    /\ held' = [held EXCEPT ![w] = {[run |-> r, token |-> token[r] + 1]}]
    /\ UNCHANGED <<up, turn, cancel, delay, active, parent, toolTime>>

\* A heartbeat extends only a lease that has not expired yet.
Heartbeat(w, f) ==
    /\ up
    /\ HoldsLease(w, f)
    /\ \E l \in LeasesOn(f.run) :
        /\ l.token = f.token /\ l.owner = w /\ 0 < l.ttl /\ l.ttl < LeaseTtl
        /\ leases' = (leases \ {l}) \cup {[l EXCEPT !.ttl = LeaseTtl]}
    /\ UNCHANGED <<up, rowVars, delegationVars, held>>

\* What every way of giving a lease back has in common: the lease row leaves
\* 'active', the run gets status s and the next fencing token.
GiveBack(w, f, s) ==
    /\ up
    /\ Fenced(w, f)
    /\ leases' = leases \ LeasesOn(f.run)
    /\ run' = [run EXCEPT ![f.run] = s]
    /\ token' = [token EXCEPT ![f.run] = f.token + 1]
    /\ held' = [held EXCEPT ![w] = {}]

Release(w, f) ==
    /\ Disruptible(f.run)
    /\ Unexpired(f.run)
    /\ GiveBack(w, f, "queued")
    /\ UNCHANGED <<up, task, turn, cancel, delay, active, delegationVars>>

RequeueProviderRetry(w, f) ==
    /\ Disruptible(f.run)
    /\ ~ cancel[f.run]
    /\ GiveBack(w, f, "queued")
    /\ \E d \in 1..RetryDelay : delay' = [delay EXCEPT ![f.run] = d]
    /\ UNCHANGED <<up, task, turn, cancel, active, delegationVars>>

\* The status the driver reports.  The cancellation flag is read under the
\* same writer lock as the completion, so it cannot change in between.
CompletionStatus(r, status) ==
    /\ status \in Terminal
    /\ status = "succeeded" => task[r] = "running" /\ ~ cancel[r]
    /\ status = "failed" => ~ cancel[r]
    /\ status = "cancelled" => cancel[r]

TurnOutcome(status) == IF status = "succeeded" THEN "completed" ELSE status

CompleteCanonicalRun(w, f, status) ==
    /\ f.run \in Canonical
    /\ Unexpired(f.run)
    /\ CompletionStatus(f.run, status)
    /\ task[f.run] \in {"running", "cancelling"}
    /\ turn[f.run] = "active"
    /\ active[SessionOf[f.run]] = f.run
    /\ GiveBack(w, f, status)
    /\ task' = [task EXCEPT ![f.run] = status]
    /\ turn' = [turn EXCEPT ![f.run] = TurnOutcome(status)]
    /\ active' = [active EXCEPT ![SessionOf[f.run]] = NoRun]
    /\ UNCHANGED <<up, cancel, delay, delegationVars>>

\* settle_delegated_child: the result goes to the parent's waiting tool call
\* and the parent is queued again; without such a parent nothing commits.
CompleteDelegatedRun(w, f, status) ==
    /\ up
    /\ Fenced(w, f)
    /\ f.run \in Delegates
    /\ Unexpired(f.run)
    /\ CompletionStatus(f.run, status)
    /\ task[f.run] \in {"running", "cancelling"}
    /\ turn[f.run] = "active"
    /\ delegation[f.run] = "running"
    /\ toolTime[f.run] > 0
    /\ \E p \in Runs :
        /\ p = parent[f.run]
        /\ run[p] = "waiting" /\ LeasesOn(p) = {}
        /\ task[p] = IF cancel[p] THEN "cancelling" ELSE "waiting"
        /\ run' = [run EXCEPT ![f.run] = status, ![p] = "queued"]
        /\ task' = [task EXCEPT ![f.run] = status,
                                ![p] = IF cancel[p] THEN @ ELSE "queued"]
        /\ delay' = [delay EXCEPT ![p] = 0]
    /\ leases' = leases \ LeasesOn(f.run)
    /\ token' = [token EXCEPT ![f.run] = f.token + 1]
    /\ turn' = [turn EXCEPT ![f.run] = TurnOutcome(status)]
    /\ delegation' = [delegation EXCEPT ![f.run] = status]
    /\ held' = [held EXCEPT ![w] = {}]
    /\ UNCHANGED <<up, cancel, active, parent, toolTime>>

-----------------------------------------------------------------------------
(***************************************************************************)
(* Waiting: a run gives its lease back to wait for an approval, for the    *)
(* reconciliation of an unknown effect outcome, or for a delegated child.  *)
(* Module EffectLedger adds the effect that the first two wait for.        *)
(***************************************************************************)
RecordAgentEffectProposal(w, f) ==
    /\ f.run \in Canonical
    /\ Disruptible(f.run)
    /\ ~ cancel[f.run] /\ task[f.run] = "running"
    /\ GiveBack(w, f, "waiting")
    /\ task' = [task EXCEPT ![f.run] = "waiting"]
    /\ UNCHANGED <<up, turn, cancel, delay, active, delegationVars>>

ParkAgentEffectRun(w, f) ==
    /\ f.run \in Canonical
    /\ Disruptible(f.run)
    /\ Unexpired(f.run)
    /\ task[f.run] = "running"
    /\ GiveBack(w, f, "waiting")
    /\ task' = [task EXCEPT ![f.run] = "waiting"]
    /\ UNCHANGED <<up, turn, cancel, delay, active, delegationVars>>

\* A run that waits for a child has no effect without an observation.
ResumeAgentEffectRun(r) ==
    /\ up
    /\ run[r] = "waiting" /\ task[r] = "waiting"
    /\ LeasesOn(r) = {} /\ ActiveChildren(r) = {}
    /\ run' = [run EXCEPT ![r] = "queued"]
    /\ task' = [task EXCEPT ![r] = "queued"]
    /\ delay' = [delay EXCEPT ![r] = 0]
    /\ UNCHANGED <<up, turn, token, cancel, active, leases, delegationVars,
                   held>>

LaunchAgentDelegation(w, f, c) ==
    /\ up
    /\ Fenced(w, f)
    /\ Disruptible(f.run)
    /\ f.run \in Canonical /\ active[SessionOf[f.run]] = f.run
    /\ turn[f.run] = "active" /\ task[f.run] = "running" /\ ~ cancel[f.run]
    /\ c \in Delegates /\ run[c] = "absent"
    /\ SessionOf[c] = SessionOf[f.run]
    /\ Cardinality({x \in Delegates : parent[x] = f.run})
        < MaximumDelegatedRuns
    /\ run' = [run EXCEPT ![c] = "queued", ![f.run] = "waiting"]
    /\ task' = [task EXCEPT ![c] = "queued", ![f.run] = "waiting"]
    /\ turn' = [turn EXCEPT ![c] = "active"]
    /\ token' = [token EXCEPT ![f.run] = f.token + 1]
    /\ leases' = leases \ LeasesOn(f.run)
    /\ parent' = [parent EXCEPT ![c] = f.run]
    /\ delegation' = [delegation EXCEPT ![c] = "queued"]
    /\ toolTime' = [toolTime EXCEPT ![c] = ToolTimeout]
    /\ held' = [held EXCEPT ![w] = {}]
    /\ UNCHANGED <<up, cancel, delay, active>>

-----------------------------------------------------------------------------
(***************************************************************************)
(* Owner commands on a task.                                               *)
(***************************************************************************)
\* Cancellation reaches the one active child; a child whose task is paused
\* refuses it and the whole transaction rolls back.
RequestTaskCancellation(r) ==
    LET children == ActiveChildren(r)
        stopped == {r} \cup children
        requeued == IF run[r] = "waiting" /\ children = {} THEN {r} ELSE {}
    IN  /\ up
        /\ ~ cancel[r]
        /\ task[r] \in {"queued", "running", "waiting"}
        /\ Cardinality(children) <= 1
        /\ \A x \in stopped :
            /\ run[x] \in {"queued", "running", "waiting"}
            /\ task[x] \in {"queued", "running", "waiting", "cancelling"}
        /\ \A x \in requeued : LeasesOn(x) = {}
        /\ cancel' = [x \in Runs |-> cancel[x] \/ x \in stopped]
        /\ task' = [x \in Runs |->
                        IF x \in stopped THEN "cancelling" ELSE task[x]]
        /\ run' = [x \in Runs |-> IF x \in requeued THEN "queued" ELSE run[x]]
        /\ delay' = [x \in Runs |-> IF x \in requeued THEN 0 ELSE delay[x]]
        /\ UNCHANGED <<up, turn, token, active, leases, delegationVars, held>>

\* control_task, Pause, of a task whose run no worker executes.
PauseIdleTask(r) ==
    /\ up
    /\ task[r] \in {"queued", "running", "waiting"}
    /\ run[r] # "running"
    /\ task' = [task EXCEPT ![r] = "paused"]
    /\ UNCHANGED <<up, run, turn, token, cancel, delay, active, leases,
                   delegationVars, held>>

\* control_task, Resume: the task takes the status its run has.
ResumeTask(r) ==
    /\ up
    /\ task[r] = "paused" /\ LeasesOn(r) = {}
    /\ run[r] \in {"queued", "waiting", "running"}
    /\ task' = [task EXCEPT ![r] = run[r]]
    /\ UNCHANGED <<up, run, turn, token, cancel, delay, active, leases,
                   delegationVars, held>>

-----------------------------------------------------------------------------
(***************************************************************************)
(* Recovery of abandoned leases.  The runs in the set parked stopped in an *)
(* effect whose outcome is unknown and wait for reconciliation; the others *)
(* are queued again.  Delegates have read-only capabilities, hence no      *)
(* effects.                                                                *)
(***************************************************************************)
RecoverableLease(l) == run[l.run] = "running" /\ token[l.run] = l.token

RecoverLeases(S, parked) ==
    /\ \A l \in S : RecoverableLease(l)
    /\ parked \subseteq {l.run : l \in S} \cap Canonical
    /\ \A r \in parked : task[r] \in {"running", "waiting", "cancelling"}
    /\ leases' = leases \ S
    /\ run' = [r \in Runs |-> IF r \in parked THEN "waiting"
                              ELSE IF \E l \in S : l.run = r THEN "queued"
                              ELSE run[r]]
    /\ token' = [r \in Runs |->
                    IF \E l \in S : l.run = r THEN token[r] + 1 ELSE token[r]]

\* Mutant of TaskToWaiting: the task row is left alone.
TaskStays(parked) == task

TaskToWaiting(parked) ==
    [r \in Runs |-> IF r \in parked /\ task[r] = "running"
                    THEN "waiting" ELSE task[r]]

\* The oldest leases first, at most BatchLimit of them.
RecoveryBatches(expired) ==
    {S \in SUBSET expired :
        /\ S # {}
        /\ Cardinality(S) <= BatchLimit
        /\ S = expired \/ Cardinality(S) = BatchLimit
        /\ \A l \in S, m \in expired \ S : l.ttl <= m.ttl}

RecoverExpiredLeases(S, parked) ==
    /\ up
    /\ S \in RecoveryBatches(leases \ LiveLeases)
    /\ RecoverLeases(S, parked)
    /\ task' = TaskToWaiting(parked)
    /\ UNCHANGED <<up, turn, cancel, delay, active, delegationVars, held>>

\* Before readiness every active lease is recovered, expired or not.
RecoverStartup(S, parked) ==
    /\ ~ up
    /\ S \in RecoveryBatches(leases)
    /\ RecoverLeases(S, parked)
    /\ task' = TaskToWaiting(parked)
    /\ UNCHANGED <<up, turn, cancel, delay, active, delegationVars, held>>

BecomeReady ==
    /\ ~ up
    /\ leases = {}
    /\ up' = TRUE
    /\ UNCHANGED <<rowVars, leases, delegationVars, held>>

\* control_task, Pause, of a running task: its lease is recovered first.
PauseRunningTask(r, parked) ==
    /\ up
    /\ Disruptible(r)
    /\ task[r] \in {"queued", "running", "waiting"}
    /\ run[r] = "running"
    /\ LeasesOn(r) # {}
    /\ RecoverLeases(LeasesOn(r), parked)
    /\ task' = [task EXCEPT ![r] = "paused"]
    /\ UNCHANGED <<up, turn, cancel, delay, active, delegationVars, held>>

-----------------------------------------------------------------------------
(***************************************************************************)
(* Failures and time.                                                      *)
(***************************************************************************)
Crash ==
    /\ up
    /\ \A l \in leases : Disruptible(l.run)
    /\ up' = FALSE
    /\ held' = [w \in Workers |-> {}]
    /\ UNCHANGED <<rowVars, leases, delegationVars>>

\* A worker ends its attempt without committing: its transaction was refused
\* or failed, and the driver only reports the error.
GiveUp(w, f) ==
    /\ up
    /\ f \in held[w]
    /\ HoldsLease(w, f) => Disruptible(f.run)
    /\ held' = [held EXCEPT ![w] = {}]
    /\ UNCHANGED <<up, rowVars, leases, delegationVars>>

Less(n) == IF n = 0 THEN 0 ELSE n - 1

Tick ==
    /\ \A l \in leases : l.ttl = 1 => Disruptible(l.run)
    /\ \/ LiveLeases # {}
       \/ \E r \in Runs : delay[r] > 0
       \/ \E c \in Delegates : toolTime[c] > 0
    /\ leases' = {[l EXCEPT !.ttl = Less(@)] : l \in leases}
    /\ delay' = [r \in Runs |-> Less(delay[r])]
    /\ toolTime' = [c \in Delegates |-> Less(toolTime[c])]
    /\ UNCHANGED <<up, run, task, turn, token, cancel, active, parent,
                   delegation, held>>

-----------------------------------------------------------------------------
WorkerStep(w, f) ==
    \/ Heartbeat(w, f)
    \/ Release(w, f)
    \/ RequeueProviderRetry(w, f)
    \/ \E status \in Terminal : CompleteCanonicalRun(w, f, status)
    \/ \E status \in Terminal : CompleteDelegatedRun(w, f, status)
    \/ RecordAgentEffectProposal(w, f)
    \/ ParkAgentEffectRun(w, f)
    \/ \E c \in Delegates : LaunchAgentDelegation(w, f, c)
    \/ GiveUp(w, f)

OwnerStep(r) ==
    \/ RequestTaskCancellation(r)
    \/ PauseIdleTask(r)
    \/ \E parked \in SUBSET {r} : PauseRunningTask(r, parked)
    \/ ResumeTask(r)

RecoveryStep(S, parked) ==
    RecoverExpiredLeases(S, parked) \/ RecoverStartup(S, parked)

Next ==
    \/ \E s \in Sessions : \E r \in Runs : PromoteNext(s, r)
    \/ \E s \in Sessions : InterruptBeforeClaim(s) \/ InterruptRunning(s)
    \/ \E w \in Workers : \E r \in Runs : ClaimNext(w, r)
    \/ \E w \in Workers : \E f \in held[w] : WorkerStep(w, f)
    \/ \E r \in Runs : ResumeAgentEffectRun(r) \/ OwnerStep(r)
    \/ \E S \in SUBSET leases : \E parked \in SUBSET {l.run : l \in S} :
            RecoveryStep(S, parked)
    \/ BecomeReady \/ Crash \/ Tick

Spec == Init /\ [][Next]_vars

-----------------------------------------------------------------------------
(***************************************************************************)
(* Properties.                                                             *)
(***************************************************************************)

\* A run is running exactly while one active lease exists for it, and that
\* lease carries the run's current fencing token.  Without the first half a
\* run would be abandoned with nothing for the reaper to find; without the
\* second recover_lease refuses the row, and with it the whole batch, so the
\* daemon would never become ready (recovery.rs, "expired lease run was no
\* longer current").
LeasedWhileRunning ==
    /\ \A l \in leases : RecoverableLease(l)
    /\ \A r \in Runs : run[r] = "running" => LeasesOn(r) # {}
    /\ \A l, m \in leases : l.run = m.run => l = m

\* Two workers never hold fences for one run that the store would accept,
\* however long either of them was stalled between two transactions.
OneFencedWorker ==
    \A v, w \in Workers : \A e \in held[v], f \in held[w] :
        Fenced(v, e) /\ Fenced(w, f) /\ e.run = f.run => v = w /\ e = f

\* The run row and the task row, which most transactions update separately,
\* never reach a combination that no transaction accepts.  In particular a
\* paused task has no running run, and a recovered run has a task that
\* recovery can park.
RunTaskAgree ==
    \A r \in Runs :
        \/ run[r] = task[r]
        \/ run[r] = "queued" /\ task[r] \in {"running", "paused", "cancelling"}
        \/ run[r] = "running" /\ task[r] = "cancelling"
        \/ run[r] = "waiting" /\ task[r] \in {"paused", "cancelling"}

\* A session points at its turn exactly while the turn is active and its run
\* is open, so a session executes one canonical turn at a time and is freed
\* by every way the turn can end (promotion.rs, load_active, refuses an
\* active turn that is terminal, which would block the inbox for good).
ActiveTurnAgree ==
    /\ \A s \in Sessions :
        active[s] # NoRun => active[s] \in Canonical /\ SessionOf[active[s]] = s
    /\ \A r \in Canonical : turn[r] = "active" <=> active[SessionOf[r]] = r
    /\ \A r \in Runs : turn[r] = "active" <=>
                            run[r] \in {"queued", "running", "waiting"}

\* Once a cancellation is recorded the run ends as cancelled: no completion
\* that was under way when the owner asked turns it into a success or a
\* failure.
CancellationWins ==
    \A r \in Runs : cancel[r] <=> task[r] \in {"cancelling", "cancelled"}

\* While a delegation is open its parent waits without a lease and the child
\* run is open, so the child's completion finds the boundary it settles, and
\* a parent never has two open children (agent.rs, "one waiting parent owns
\* multiple active delegated children").
ParentAwaitsChild ==
    \A c \in Delegates : delegation[c] \in {"queued", "running"} =>
        /\ parent[c] \in Canonical
        /\ run[parent[c]] = "waiting"
        /\ run[c] \in {"queued", "running", "waiting"}
        /\ ActiveChildren(parent[c]) = {c}

\* A cancelled parent never waits for a child that has not been told to stop.
CancellationReachesChild ==
    \A c \in Delegates :
        delegation[c] \in {"queued", "running"} /\ cancel[parent[c]] => cancel[c]

\* The concurrency ceilings bound the unexpired leases at all times, not only
\* when a claim looks at them.
CeilingsHold ==
    /\ \A r \in Runs : Cardinality({l \in LiveLeases :
            PrincipalOf[SessionOf[l.run]] = PrincipalOf[SessionOf[r]]})
        <= MaximumPerPrincipal
    /\ \A s \in Sessions :
        Cardinality({l \in LiveLeases : SessionOf[l.run] = s})
        <= MaximumPerSession
    /\ \A r \in Runs : Cardinality({l \in LiveLeases : SameRole(l.run, r)})
        <= MaximumPerAgentRole

RetiresFences ==
    \A r \in Runs :
        /\ token'[r] >= token[r]
        /\ run[r] = "running" /\ run'[r] # "running" => token'[r] > token[r]

\* Whatever takes a run out of 'running' retires the fence it ran under: the
\* token moves on, so the worker that held it can never commit again.
FenceRetired == [][RetiresFences]_vars

KeepsTerminal ==
    \A r \in Runs : run[r] \in Terminal =>
        run'[r] = run[r] /\ task'[r] = task[r] /\ turn'[r] = turn[r]

\* A finished run is final: nothing a late worker, the owner or recovery
\* does changes its status, its task or its turn.
TerminalIsFinal == [][KeepsTerminal]_vars

\* A run that is queued, and whose task is not paused, is one that claim_next
\* can take once its retry time and the ceilings allow.
QueuedIsClaimable ==
    \A r \in Runs : run[r] = "queued" /\ task[r] # "paused" => Claimable(r)
=============================================================================
