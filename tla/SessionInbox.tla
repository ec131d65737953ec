---------------------------- MODULE SessionInbox ----------------------------
(***************************************************************************)
(* The durable inbox of a session, added to the work graph: admission of   *)
(* inputs that a channel may deliver several times, and the three ways the *)
(* promotion driver serves the oldest pending one (a new turn, steering of *)
(* the active run, an interrupt of the active turn).                       *)
(*                                                                         *)
(* Every sequence number a session hands out belongs to one inbox row, so  *)
(* inbox[s][n] is the row with sequence n and next_inbox_sequence is       *)
(* Len(inbox[s]) + 1.  A delegation takes a number too: its row is         *)
(* inserted and promoted by the transaction that launches the child.       *)
(***************************************************************************)
EXTENDS WorkGraph, Sequences

CONSTANTS
    Keys,                   \* dedupe keys of deliveries
    Contents,               \* text and provider preference of an input
    DelegationKey,          \* the key "delegation:<id>" of a child's row
    MaximumPendingInputs    \* backpressure limit of a session

ASSUME InboxAssumption ==
    /\ DelegationKey \notin Keys
    /\ MaximumPendingInputs \in Nat \ {0}

VARIABLES
    inbox,          \* session_inbox, by session and sequence
    source,         \* turn.inbox_entry_id, as a sequence; 0 without a turn
    runInput,       \* run_input: the sequences attached to a run
    bound,          \* the session's channel binding is active
    answered,       \* requests that were accepted, with the sequence returned
    offered         \* sequences that were part of some model context

inboxVars == <<inbox, source, runInput, bound, answered, offered>>
sessionVars == <<vars, inboxVars>>

Modes == {"queue", "steer_at_boundary", "interrupt_then_queue"}
Entry == [key : Keys \cup {DelegationKey}, mode : Modes,
          content : Contents \cup {DelegationKey},
          asked : BOOLEAN, turn : Runs \cup {NoRun}]
Answers == [session : Sessions, key : Keys, mode : Modes, content : Contents,
            sequence : Nat]

InboxTypeOK ==
    /\ TypeOK
    /\ inbox \in [Sessions -> Seq(Entry)]
    /\ source \in [Runs -> Nat]
    /\ runInput \in [Runs -> SUBSET Nat]
    /\ bound \in [Sessions -> BOOLEAN]
    /\ answered \subseteq Answers
    /\ offered \in [Sessions -> SUBSET Nat]

InboxInit ==
    /\ Init
    /\ inbox = [s \in Sessions |-> <<>>]
    /\ source = [r \in Runs |-> 0]
    /\ runInput = [r \in Runs |-> {}]
    /\ bound = [s \in Sessions |-> TRUE]
    /\ answered = {}
    /\ offered = [s \in Sessions |-> {}]

Pending(s) == {n \in DOMAIN inbox[s] : inbox[s][n].turn = NoRun}

-----------------------------------------------------------------------------
(***************************************************************************)
(* Admission.                                                              *)
(***************************************************************************)
\* The caller of admit_input learns under which sequence its input is stored.
Answer(s, key, mode, content, n) ==
    answered' = answered \cup
        {[session |-> s, key |-> key, mode |-> mode, content |-> content,
          sequence |-> n]}

SameInput(e, mode, content) == e.mode = mode /\ e.content = content

\* The delivery was admitted before: the original sequence is returned.
\* The same key with another input is an idempotency conflict (no change).
AdmitDuplicate(s, key, mode, content) ==
    /\ up /\ bound[s]
    /\ \E n \in DOMAIN inbox[s] :
        /\ inbox[s][n].key = key
        /\ SameInput(inbox[s][n], mode, content)
        /\ Answer(s, key, mode, content, n)
    /\ UNCHANGED <<vars, inbox, source, runInput, bound, offered>>

BelowBackpressure(s) == Cardinality(Pending(s)) < MaximumPendingInputs

AdmitInput(s, key, mode, content) ==
    /\ up /\ bound[s]
    /\ \A n \in DOMAIN inbox[s] : inbox[s][n].key # key
    /\ BelowBackpressure(s)
    /\ inbox' = [inbox EXCEPT ![s] = Append(@,
            [key |-> key, mode |-> mode, content |-> content,
             asked |-> FALSE, turn |-> NoRun])]
    /\ Answer(s, key, mode, content, Len(inbox[s]) + 1)
    /\ UNCHANGED <<vars, source, runInput, bound, offered>>

RevokeBinding(s) ==
    /\ up /\ bound[s]
    /\ bound' = [bound EXCEPT ![s] = FALSE]
    /\ UNCHANGED <<vars, inbox, source, runInput, answered, offered>>

-----------------------------------------------------------------------------
(***************************************************************************)
(* Promotion of the oldest pending input.                                  *)
(***************************************************************************)
\* Mutant of PendingHead: an interrupt overtakes the inputs before it.
HeadOrInterrupt(s, n) ==
    /\ n \in Pending(s)
    /\ \/ inbox[s][n].mode = "interrupt_then_queue"
       \/ \A m \in Pending(s) : n <= m

\* load_pending_head
PendingHead(s, n) == n \in Pending(s) /\ \A m \in Pending(s) : n <= m

PromotedTo(s, n, r) == inbox' = [inbox EXCEPT ![s][n].turn = r]

\* Mutant of PromoteHead: a revoked binding stops the promotion as well.
PromoteBound(s, n, r) ==
    /\ bound[s]
    /\ PendingHead(s, n)
    /\ PromoteNext(s, r)
    /\ PromotedTo(s, n, r)
    /\ source' = [source EXCEPT ![r] = n]
    /\ UNCHANGED <<runInput, bound, answered, offered>>

\* Without an active turn the head starts one, whatever its mode.
PromoteHead(s, n, r) ==
    /\ PendingHead(s, n)
    /\ PromoteNext(s, r)
    /\ PromotedTo(s, n, r)
    /\ source' = [source EXCEPT ![r] = n]
    /\ UNCHANGED <<runInput, bound, answered, offered>>

\* Mutant of SteerActive: the row stays pending.
SteerKeepsPending(s, n) ==
    /\ up
    /\ PendingHead(s, n) /\ inbox[s][n].mode = "steer_at_boundary"
    /\ \E r \in Runs :
        /\ active[s] = r /\ turn[r] = "active"
        /\ runInput' = [runInput EXCEPT ![r] = @ \cup {n}]
    /\ UNCHANGED <<vars, inbox, source, bound, answered, offered>>

SteerActive(s, n) ==
    /\ up
    /\ PendingHead(s, n) /\ inbox[s][n].mode = "steer_at_boundary"
    /\ \E r \in Runs :
        /\ active[s] = r /\ turn[r] = "active"
        /\ run[r] \in {"queued", "running", "waiting"}
        /\ runInput' = [runInput EXCEPT ![r] = @ \cup {n}]
        /\ PromotedTo(s, n, r)
    /\ UNCHANGED <<vars, source, bound, answered, offered>>

\* The head asks once for the cancellation of the active turn and stays.
InterruptWanted(s, n) ==
    /\ PendingHead(s, n)
    /\ inbox[s][n].mode = "interrupt_then_queue" /\ ~ inbox[s][n].asked
    /\ inbox' = [inbox EXCEPT ![s][n].asked = TRUE]

\* Mutant of InterruptActive: the mark is kept when the interrupt is refused.
InterruptMarked(s, n) ==
    /\ InterruptWanted(s, n)
    /\ \/ InterruptBeforeClaim(s) \/ InterruptRunning(s)
       \/ up /\ active[s] # NoRun /\ UNCHANGED vars
    /\ UNCHANGED <<source, runInput, bound, answered, offered>>

InterruptActive(s, n) ==
    /\ InterruptWanted(s, n)
    /\ InterruptBeforeClaim(s) \/ InterruptRunning(s)
    /\ UNCHANGED <<source, runInput, bound, answered, offered>>

-----------------------------------------------------------------------------
(***************************************************************************)
(* The run: its context holds the input of its own turn; a delegated child *)
(* has a row of its own.                                                   *)
(***************************************************************************)
LoadAgentRun(w, f) ==
    /\ up
    /\ Fenced(w, f) /\ Unexpired(f.run)
    /\ turn[f.run] = "active"
    /\ IF f.run \in Canonical THEN active[SessionOf[f.run]] = f.run
       ELSE delegation[f.run] = "running"
    /\ offered' = [offered EXCEPT ![SessionOf[f.run]] = @ \cup {source[f.run]}]
    /\ UNCHANGED <<vars, inbox, source, runInput, bound, answered>>

LaunchChild(w, f, c) ==
    /\ LaunchAgentDelegation(w, f, c)
    /\ inbox' = [inbox EXCEPT ![SessionOf[c]] = Append(@,
            [key |-> DelegationKey, mode |-> "queue", content |-> DelegationKey,
             asked |-> FALSE, turn |-> c])]
    /\ source' = [source EXCEPT ![c] = Len(inbox[SessionOf[c]]) + 1]
    /\ UNCHANGED <<runInput, bound, answered, offered>>

\* The steps of a worker that leave the inbox alone.
RunStep(w, f) ==
    \/ Heartbeat(w, f) \/ RequeueProviderRetry(w, f) \/ GiveUp(w, f)
    \/ \E status \in Terminal :
        CompleteCanonicalRun(w, f, status) \/ CompleteDelegatedRun(w, f, status)
    \/ RecordAgentEffectProposal(w, f) \/ ParkAgentEffectRun(w, f)

\* The steps of everyone else that leave the inbox alone.
GraphStep ==
    \/ \E w \in Workers, r \in Runs : ClaimNext(w, r)
    \/ \E r \in Runs : ResumeAgentEffectRun(r) \/ OwnerStep(r)
    \/ \E S \in SUBSET leases : \E parked \in SUBSET {l.run : l \in S} :
            RecoveryStep(S, parked)
    \/ BecomeReady \/ Crash \/ Tick

ChannelStep(s) ==
    \/ \E key \in Keys, mode \in Modes, content \in Contents :
        AdmitInput(s, key, mode, content) \/ AdmitDuplicate(s, key, mode, content)
    \/ RevokeBinding(s)

PromotionStep(s) ==
    \E n \in DOMAIN inbox[s] :
        \/ \E r \in Runs : PromoteHead(s, n, r)
        \/ SteerActive(s, n)
        \/ InterruptActive(s, n)

SessionNext ==
    \/ \E s \in Sessions : ChannelStep(s) \/ PromotionStep(s)
    \/ \E w \in Workers : \E f \in held[w] :
        \/ LoadAgentRun(w, f)
        \/ \E c \in Delegates : LaunchChild(w, f, c)
        \/ RunStep(w, f) /\ UNCHANGED inboxVars
    \/ GraphStep /\ UNCHANGED inboxVars

SessionSpec == InboxInit /\ [][SessionNext]_sessionVars

-----------------------------------------------------------------------------
(***************************************************************************)
(* Properties.                                                             *)
(***************************************************************************)

\* An accepted input stays stored under the sequence its sender was told,
\* with the mode and content that were sent, however often the channel
\* repeats the delivery and whatever becomes of the turn ("No accepted message
\* lives only in RAM"; "Duplicate delivery returns the original admission").
AnswersAreTrue ==
    /\ \A a \in answered :
        /\ a.sequence \in DOMAIN inbox[a.session]
        /\ LET e == inbox[a.session][a.sequence]
           IN  e.key = a.key /\ e.mode = a.mode /\ e.content = a.content
    /\ \A a, b \in answered :
        a.session = b.session /\ a.key = b.key => a.sequence = b.sequence

\* Inputs are served in the order they were accepted: none is promoted before
\* an earlier one, and a turn starts only when the turns of all earlier inputs
\* have ended.
ServedInOrder ==
    \A s \in Sessions : \A m, n \in DOMAIN inbox[s] :
        m < n /\ inbox[s][m].key # DelegationKey /\ inbox[s][n].key # DelegationKey
            /\ inbox[s][n].turn # NoRun
        => /\ inbox[s][m].turn # NoRun
           /\ inbox[s][n].turn # inbox[s][m].turn =>
                turn[inbox[s][m].turn] # "active"

\* Every promoted row is used exactly once: it started the turn it names or is
\* attached to the run of that turn, and every turn was started by one row.
EachInputOnce ==
    /\ \A s \in Sessions : \A n \in DOMAIN inbox[s] :
        LET r == inbox[s][n].turn
        IN  IF r = NoRun
            THEN \A x \in Runs : SessionOf[x] = s =>
                    source[x] # n /\ n \notin runInput[x]
            ELSE SessionOf[r] = s /\ (source[r] = n <=> n \notin runInput[r])
    /\ \A r \in Runs : turn[r] # "absent" =>
        /\ source[r] \in DOMAIN inbox[SessionOf[r]]
        /\ inbox[SessionOf[r]][source[r]].turn = r

\* An interrupt that is marked as requested has reached the turn that is in
\* its way: the mark never outlives its target, so no later turn is spared.
InterruptHitsTarget ==
    \A s \in Sessions : \A n \in Pending(s) :
        inbox[s][n].asked /\ active[s] # NoRun => cancel[active[s]]

\* A model context holds inputs whose turn has started: never one that still
\* waits in the inbox, and of the inputs of a turn only the one that started
\* it.  (A steered input is attached to the run and read by no context.)
OfferedHasStarted ==
    \A s \in Sessions : \A n \in offered[s] :
        /\ n \in DOMAIN inbox[s]
        /\ inbox[s][n].turn # NoRun
        /\ source[inbox[s][n].turn] = n

KeepsRows ==
    \A s \in Sessions : \A n \in DOMAIN inbox[s] :
        /\ n \in DOMAIN inbox'[s]
        /\ inbox'[s][n].key = inbox[s][n].key
        /\ SameInput(inbox'[s][n], inbox[s][n].mode, inbox[s][n].content)
        /\ inbox[s][n].turn # NoRun =>
            /\ inbox'[s][n].turn = inbox[s][n].turn
            /\ source'[inbox[s][n].turn] = source[inbox[s][n].turn]

\* An admission and a promotion are final: no step loses or rewrites a row,
\* moves a served input to another turn or gives a turn another input.
AdmissionIsFinal == [][KeepsRows]_sessionVars

-----------------------------------------------------------------------------
(***************************************************************************)
(* Liveness.  The drivers of the daemon are loops that never end: the      *)
(* promotion driver, the agent driver and the lease reaper each run again  *)
(* after a pause, time passes, and a worker that holds a lease brings its  *)
(* run to an end because provider and tool calls have deadlines.  The      *)
(* daemon may crash any number of times but not for ever.  Nothing is      *)
(* assumed of the owner, of channels, or of effects being decided.         *)
(***************************************************************************)
WorkerEnds(w) ==
    \E f \in held[w] : \E status \in Terminal :
        CompleteCanonicalRun(w, f, status) \/ GiveUp(w, f)

Fairness ==
    /\ \A s \in Sessions : WF_sessionVars(PromotionStep(s))
    /\ \A w \in Workers :
        /\ WF_sessionVars(\E r \in Runs : ClaimNext(w, r) /\ UNCHANGED inboxVars)
        /\ WF_sessionVars(WorkerEnds(w) /\ UNCHANGED inboxVars)
    /\ WF_sessionVars(BecomeReady /\ UNCHANGED inboxVars)
    /\ WF_sessionVars(Tick /\ UNCHANGED inboxVars)
    /\ WF_sessionVars(\E S \in SUBSET leases :
            RecoveryStep(S, {}) /\ UNCHANGED inboxVars)
    /\ <>[]up

FairSessionSpec == SessionSpec /\ Fairness

\* The session is held up by its owner, or by an effect or a child for which
\* its active run waits.
HeldUp(s) ==
    active[s] # NoRun /\ (run[active[s]] = "waiting" \/ task[active[s]] = "paused")

\* Every accepted input is promoted to a turn or attached to one, unless the
\* session is held up: a crash, a lost lease, a provider retry, a revoked
\* binding or an interrupt never leaves it behind.
EveryInputServed ==
    \A s \in Sessions : \A n \in 1..Cardinality(Keys) :
        n \in Pending(s) ~> (n \notin Pending(s) \/ HeldUp(s))
=============================================================================
