--------------------------- MODULE SessionContext ---------------------------
(***************************************************************************)
(* What a model request is made of: one session's turns, its context       *)
(* epochs, its compactions, the references of a fork and the governed      *)
(* memory are assembled into a context manifest when an attempt is         *)
(* prepared, and recorded replay later derives the same list again.        *)
(*                                                                         *)
(* The driver loads its sources under the store's read guard, compiles     *)
(* them outside of it, and commits the manifest under the write guard:     *)
(* owner operations on memory, new compactions and new inputs may fall in  *)
(* between.  Every source counts one unit of the token budget.  Tool and   *)
(* effect results of the turn's own run are left out.                       *)
(***************************************************************************)
EXTENDS GovernedMemory, SequencesExt

CONSTANTS MaxCtxTurns,           \* bound: inputs of the session
          MaxCursor,             \* bound: timeline events
          MaxAttempts,           \* bound: manifests
          MaxRestarts,           \* bound: daemon restarts with a new configuration
          MaxHistoryTurns,       \* MAXIMUM_CONVERSATION_HISTORY_TURNS
          MaximumSourceEvents,   \* widest compaction range
          CtxTokenBudget,        \* units one request may hold
          MaxSideWork,           \* bound: owner, effect, compaction and restart steps
          CtxEffects,            \* effects of the session
          CtxConfigs             \* [workspace, policy] of the configurations in use

ASSUME ContextAssumption ==
  /\ MaxHistoryTurns \in Nat \ {0}
  /\ MaximumSourceEvents \in Nat \ {0}
  /\ CtxTokenBudget \in Nat \ {0, 1}
  /\ \A c \in CtxConfigs : c.workspace \in MemWorkspaces

VARIABLES cursor,       \* last timeline cursor of the session
          ctxTurns,     \* turns with the cursors of their admission and completion
          compactions,  \* session_compaction rows, oldest first
          sessionEffects, \* effects with an approval and their newest cursor
          daemonConfig, \* [workspace, policy] the running daemon computes
          fork,         \* lineage of the session: copied turns and their boundary
          snapshot,     \* the driver's loaded sources, or NoSnapshot
          manifests,    \* committed context manifests
          restarts

ctxOnly == <<cursor, ctxTurns, compactions, sessionEffects, daemonConfig, fork,
             snapshot, manifests, restarts>>
ctxVars == <<memory, memoryIndex, epochs, ctxOnly>>

(* Rows of the context tables.                                              *)
EpochRow == [workspace: MemWorkspaces, policy: {c.policy : c \in CtxConfigs}, cursor: Nat]
CompactionRow ==
  [first: 1..MaxCursor, last: 1..MaxCursor, cursor: 1..MaxCursor,
   approvals: SUBSET CtxEffects, outcomes: SUBSET CtxEffects]
SourceKinds ==
  {"user", "conversation_user", "conversation_assistant", "fork_conversation_user",
   "fork_conversation_assistant", "compaction", "memory"}
ManifestOK(m) ==
  /\ m.turn \in 1..MaxCtxTurns
  /\ m.epoch \in 1..Len(epochs)
  /\ \A i \in DOMAIN m.items :
       m.items[i].kind \in SourceKinds /\ m.items[i].included \in BOOLEAN

NoSnapshot == [turn |-> 0, epoch |-> 0, sources |-> <<>>]
NoTurn == [state |-> "none", input |-> 0, completion |-> 0, epoch |-> 0]
CtxTurnIds == 1..MaxCtxTurns

Item(kind, a, b) == [kind |-> kind, ref |-> <<a, b>>]
User(t) == Item("user", t, 0)

ContextInit ==
  /\ MemoryInit
  /\ epochs = <<>>
  /\ cursor = 0
  /\ ctxTurns = [t \in CtxTurnIds |-> NoTurn]
  /\ compactions = <<>>
  /\ sessionEffects = [e \in CtxEffects |-> [state |-> "none", cursor |-> 0]]
  /\ daemonConfig = CHOOSE c \in CtxConfigs : TRUE
  /\ fork \in {[refs |-> 0, config |-> daemonConfig]} \cup
       [refs: {1}, config: CtxConfigs]
  /\ snapshot = NoSnapshot
  /\ manifests = <<>>
  /\ restarts = 0

Tick == cursor < MaxCursor /\ cursor' = cursor + 1

-----------------------------------------------------------------------------
(* Turns: inputs are admitted at any time and run one after the other.     *)

AdmitTurn(t) ==
  /\ ctxTurns[t].state = "none"
  /\ \A u \in 1..t - 1 : ctxTurns[u].state # "none"
  /\ Tick
  /\ ctxTurns' = [ctxTurns EXCEPT ![t] =
       [NoTurn EXCEPT !.state = "queued", !.input = cursor + 1]]
  /\ UNCHANGED <<memVars, epochs, compactions, sessionEffects, daemonConfig, fork,
                 snapshot, manifests, restarts>>

Running(t) == ctxTurns[t].state = "running"

PromoteTurn(t) ==
  /\ ctxTurns[t].state = "queued"
  /\ \A u \in CtxTurnIds : ~Running(u)
  /\ \A u \in 1..t - 1 : ctxTurns[u].state # "queued"
  /\ ctxTurns' = [ctxTurns EXCEPT ![t].state = "running"]
  /\ UNCHANGED <<memVars, epochs, cursor, compactions, sessionEffects, daemonConfig,
                 fork, snapshot, manifests, restarts>>

Attempts(t) == {i \in DOMAIN manifests : manifests[i].turn = t}

(* The answer is committed: the turn and its completion event.             *)
CompleteTurn(t) ==
  /\ Running(t) /\ snapshot = NoSnapshot
  /\ Attempts(t) # {}
  /\ Tick
  /\ ctxTurns' = [ctxTurns EXCEPT ![t].state = "completed", ![t].completion = cursor + 1]
  /\ UNCHANGED <<memVars, epochs, compactions, sessionEffects, daemonConfig, fork,
                 snapshot, manifests, restarts>>

-----------------------------------------------------------------------------
(* Sources.                                                                *)

(* load_context_epoch: the epoch of the turn once bound, else the newest.  *)
CurrentEpoch(t) == IF ctxTurns[t].epoch # 0 THEN ctxTurns[t].epoch ELSE Len(epochs)

(* The newest compaction that ends before the input and was committed      *)
(* under the current epoch.                                                *)
ApplicableCompactions(t) ==
  {c \in DOMAIN compactions :
      /\ CurrentEpoch(t) # 0
      /\ compactions[c].last < ctxTurns[t].input
      /\ compactions[c].cursor > epochs[CurrentEpoch(t)].cursor}

NewestCompaction(cs) ==
  CHOOSE c \in cs : \A d \in cs :
    \/ compactions[d].last < compactions[c].last
    \/ compactions[d].last = compactions[c].last /\ d <= c

(* Completed earlier turns of the same epoch whose input lies past the     *)
(* cutoff and whose answer was committed before this input was admitted.   *)
HistoryTurns(t, epoch, cutoff) ==
  {u \in 1..t - 1 :
      /\ ctxTurns[u].state = "completed"
      /\ ctxTurns[u].epoch = epoch
      /\ ctxTurns[u].input > cutoff
      /\ ctxTurns[u].completion < ctxTurns[t].input}

NewestHistory(t, epoch, cutoff) ==
  LET h == HistoryTurns(t, epoch, cutoff) IN
  {u \in h : Cardinality({v \in h : v > u}) < MaxHistoryTurns}

Pairs(user, assistant, ids) ==
  FlattenSeq([i \in 1..Cardinality(ids) |->
    LET u == SetToSortSeq(ids, <)[i] IN
    <<Item(user, u, 0), Item(assistant, u, 0)>>])

(* The copied turns of a fork fill what the session's own history leaves,  *)
(* unless a compaction covers the fork event.                               *)
ForkSources(cutoff, own) ==
  IF fork.refs > 0 /\ own < MaxHistoryTurns /\ cutoff = 0
  THEN Pairs("fork_conversation_user", "fork_conversation_assistant", 1..fork.refs)
  ELSE <<>>

ConversationSources(t, epoch, cutoff) ==
  LET h == NewestHistory(t, epoch, cutoff) IN
  ForkSources(cutoff, Cardinality(h))
    \o Pairs("conversation_user", "conversation_assistant", h)

CompactionSource(t) ==
  IF ApplicableCompactions(t) = {} THEN <<>>
  ELSE <<Item("compaction", NewestCompaction(ApplicableCompactions(t)), 0)>>

(* Retrieval reads the workspace of the current epoch.                     *)
MemorySources(t) ==
  IF CurrentEpoch(t) = 0 THEN <<>>
  ELSE LET hits == SetToSeq(Retrievable(epochs[CurrentEpoch(t)].workspace)) IN
       [i \in DOMAIN hits |-> Item("memory", hits[i][1], hits[i][2])]

ContextSources(t) ==
  LET cs == ApplicableCompactions(t)
      cutoff == IF cs = {} THEN 0 ELSE compactions[NewestCompaction(cs)].last
  IN  ConversationSources(t, CurrentEpoch(t), cutoff)
        \o <<User(t)>> \o CompactionSource(t) \o MemorySources(t)

LoadAgentRun(t) ==
  /\ Running(t)
  /\ snapshot = NoSnapshot
  /\ Len(manifests) < MaxAttempts
  /\ snapshot' = [turn |-> t, epoch |-> CurrentEpoch(t), sources |-> ContextSources(t)]
  /\ UNCHANGED <<memVars, epochs, cursor, ctxTurns, compactions, sessionEffects,
                 daemonConfig, fork, manifests, restarts>>

-----------------------------------------------------------------------------
(* Compilation and commit of one attempt.                                  *)

ConfigOf(epoch) == [workspace |-> epochs[epoch].workspace, policy |-> epochs[epoch].policy]

NewEpoch == snapshot.epoch = 0 \/ ConfigOf(snapshot.epoch) # daemonConfig

(* A fork's turns are kept only under the configuration they were copied   *)
(* from; everything but the input is dropped when the epoch rotates.       *)
Retained(kind) ==
  IF kind \in {"fork_conversation_user", "fork_conversation_assistant"}
  THEN fork.config = daemonConfig
  ELSE kind = "user" \/ ~NewEpoch

(* The budget decision for each source in turn: the baseline is one unit,  *)
(* the input another that is reserved until it has been placed.            *)
Budgeted(sources) ==
  FoldLeft(LAMBDA acc, src :
             LET reserve == IF acc.placed \/ src.kind = "user" THEN 0 ELSE 1
                 included == acc.total + 1 + reserve <= CtxTokenBudget
             IN  [total |-> acc.total + (IF included THEN 1 ELSE 0),
                  placed |-> acc.placed \/ src.kind = "user",
                  items |-> Append(acc.items,
                    [kind |-> src.kind, ref |-> src.ref, included |-> included])],
           [total |-> 1, placed |-> FALSE, items |-> <<>>], sources).items

CompiledItems == Budgeted(SelectSeq(snapshot.sources, LAMBDA src : Retained(src.kind)))

(* The citation trigger of migration 0016: memory and revision are active   *)
(* and belong to the workspace of the manifest's epoch.                     *)
CitationLive(item, workspace) ==
  LET row == memory[item.ref[1]] IN
  /\ row.status = "active"
  /\ row.revisions[item.ref[2]].status = "active"
  /\ row.workspace = workspace

CitationsHold ==
  \A i \in DOMAIN CompiledItems :
    CompiledItems[i].kind = "memory" /\ CompiledItems[i].included
      => CitationLive(CompiledItems[i], daemonConfig.workspace)

(* insert_context_epoch binds a turn to the new epoch only if it had none;  *)
(* a turn that already ran under another epoch is a conflict.               *)
TurnUnbound(t) == ctxTurns[t].epoch = 0

CommitPasses(t) == CitationsHold /\ (NewEpoch => TurnUnbound(t))

PrepareAttempt(t) ==
  LET number == IF NewEpoch THEN Len(epochs) + 1 ELSE snapshot.epoch IN
  /\ snapshot.turn = t
  /\ CommitPasses(t)
  /\ IF NewEpoch
     THEN /\ Tick
          /\ epochs' = Append(epochs,
               [workspace |-> daemonConfig.workspace, policy |-> daemonConfig.policy,
                cursor |-> cursor + 1])
     ELSE UNCHANGED <<cursor, epochs>>
  /\ ctxTurns' = [ctxTurns EXCEPT ![t].epoch = number]
  /\ manifests' = Append(manifests,
       [turn |-> t, epoch |-> number, items |-> CompiledItems])
  /\ snapshot' = NoSnapshot
  /\ UNCHANGED <<memVars, compactions, sessionEffects, daemonConfig, fork, restarts>>

(* Any error of the preparation ends the run: the turn fails.              *)
FailPreparation(t) ==
  /\ snapshot.turn = t
  /\ ~CommitPasses(t)
  /\ ctxTurns' = [ctxTurns EXCEPT ![t].state = "failed"]
  /\ snapshot' = NoSnapshot
  /\ UNCHANGED <<memVars, epochs, cursor, compactions, sessionEffects, daemonConfig,
                 fork, manifests, restarts>>

(* The daemon is stopped and started under a configuration edited offline;  *)
(* a running turn is recovered, what its driver had loaded is lost.         *)
RestartDaemon(c) ==
  /\ restarts < MaxRestarts
  /\ restarts' = restarts + 1
  /\ daemonConfig' = c
  /\ snapshot' = NoSnapshot
  /\ UNCHANGED <<memVars, epochs, cursor, ctxTurns, compactions, sessionEffects, fork,
                 manifests>>

-----------------------------------------------------------------------------
(* Effects of the session, as far as a compaction must carry them forward:  *)
(* one with a pending approval, then one with an outcome.                   *)

EffectEvent(e, from, to) ==
  /\ sessionEffects[e].state = from
  /\ Tick
  /\ sessionEffects' = [sessionEffects EXCEPT ![e] = [state |-> to, cursor |-> cursor + 1]]
  /\ UNCHANGED <<memVars, epochs, ctxTurns, compactions, daemonConfig, fork, snapshot,
                 manifests, restarts>>

UpTo(last, state) ==
  {e \in CtxEffects : sessionEffects[e].state = state /\ sessionEffects[e].cursor <= last}

(* Everything open or decided up to the last cursor must be carried; one    *)
(* that lies before the range makes the range invalid.                      *)
RequiredCarry(first, last, state) ==
  [carried |-> UpTo(last, state),
   valid |-> \A e \in UpTo(last, state) : sessionEffects[e].cursor >= first]

(* The range is not empty, not too wide, and both ends are events.          *)
ValidSourceRange(first, last) ==
  first <= last /\ last <= cursor /\ last - first < MaximumSourceEvents

CommitCompaction(first, last) ==
  LET approvals == RequiredCarry(first, last, "awaiting")
      outcomes == RequiredCarry(first, last, "decided") IN
  /\ epochs # <<>>
  /\ ValidSourceRange(first, last)
  /\ approvals.valid /\ outcomes.valid
  /\ Tick
  /\ compactions' = Append(compactions,
       [first |-> first, last |-> last, cursor |-> cursor + 1,
        approvals |-> approvals.carried, outcomes |-> outcomes.carried])
  /\ UNCHANGED <<memVars, epochs, ctxTurns, sessionEffects, daemonConfig, fork, snapshot,
                 manifests, restarts>>

-----------------------------------------------------------------------------
(* Recorded replay of one manifest, from what the store holds now.          *)

OfKind(m, kind) == SelectSeq(m.items, LAMBDA item : item.kind = kind)

ReplayNewestCutoff(m) ==
  IF ApplicableCompactions(m.turn) = {} THEN 0
  ELSE compactions[NewestCompaction(ApplicableCompactions(m.turn))].last

(* The cutoff is the one of the compaction the manifest names.              *)
ReplayCutoff(m) ==
  IF OfKind(m, "compaction") = <<>> THEN 0
  ELSE compactions[Head(OfKind(m, "compaction")).ref[1]].last

(* A deleted memory can be rendered again only from the manifest itself.    *)
MemoryRenders(item) ==
  memory[item.ref[1]].revisions[item.ref[2]].content \/ item.included

RoleMatches(kind) ==
  kind \in {"user", "conversation_user", "memory", "compaction", "conversation_assistant"}

(* The sources are derived again, compaction and memory from the manifest.  *)
ReplayExpected(m) ==
  ConversationSources(m.turn, CurrentEpoch(m.turn), ReplayCutoff(m))
    \o <<User(m.turn)>> \o OfKind(m, "compaction") \o OfKind(m, "memory")

(* The same sources in the same order, with the same budget decisions.      *)
ReplayMatches(m) ==
  /\ Budgeted(ReplayExpected(m)) = m.items
  /\ \A i \in DOMAIN m.items : m.items[i].included => RoleMatches(m.items[i].kind)

VerifyContextManifest(m) ==
  /\ \A i \in DOMAIN m.items : m.items[i].kind = "memory" => MemoryRenders(m.items[i])
  /\ ReplayMatches(m)

SideWork ==
  restarts + Len(compactions)
    + MapThenSumSet(LAMBDA e : CASE sessionEffects[e].state = "none" -> 0
                                 [] sessionEffects[e].state = "awaiting" -> 1
                                 [] OTHER -> 2, CtxEffects)
    + MapThenSumSet(LAMBDA m : memory[m].revision
                                 + (IF memory[m].status = "none" THEN 0 ELSE 1), Memories)

ContextNext ==
  \/ \E t \in CtxTurnIds :
       \/ AdmitTurn(t)
       \/ PromoteTurn(t)
       \/ LoadAgentRun(t)
       \/ PrepareAttempt(t)
       \/ FailPreparation(t)
       \/ CompleteTurn(t)
  \/ /\ SideWork < MaxSideWork
     /\ \/ MemoryNext /\ UNCHANGED <<epochs, ctxOnly>>
        \/ \E c \in CtxConfigs : RestartDaemon(c)
        \/ \E e \in CtxEffects :
             EffectEvent(e, "none", "awaiting") \/ EffectEvent(e, "awaiting", "decided")
        \/ \E first, last \in 1..MaxCursor : CommitCompaction(first, last)

-----------------------------------------------------------------------------
(* The context tables keep their shape.                                     *)
ContextTypeOK ==
  /\ MemoryTypeOK
  /\ cursor \in 0..MaxCursor
  /\ \A t \in CtxTurnIds :
       /\ ctxTurns[t].state \in {"none", "queued", "running", "completed", "failed"}
       /\ ctxTurns[t].epoch \in 0..Len(epochs)
  /\ snapshot.turn \in 0..MaxCtxTurns
  /\ \A i \in DOMAIN epochs : epochs[i] \in EpochRow
  /\ \A i \in DOMAIN compactions :
       /\ compactions[i] \in CompactionRow
       /\ compactions[i].first <= compactions[i].last
       /\ compactions[i].last < compactions[i].cursor
  /\ \A i \in DOMAIN manifests : ManifestOK(manifests[i])

(* All requests of a turn run under one epoch, across restarts with another  *)
(* configuration (insert_context_epoch, prepare_model_attempt).             *)
TurnKeepsEpoch ==
  \A i, j \in DOMAIN manifests :
    manifests[i].turn = manifests[j].turn => manifests[i].epoch = manifests[j].epoch

(* After an epoch rotation nothing derived from an earlier epoch reaches a   *)
(* request: no turn of another epoch, no compaction committed before it, no  *)
(* copied turn of another configuration (the retain filter of the driver).  *)
RotationForgets ==
  \A i \in DOMAIN manifests : \A k \in DOMAIN manifests[i].items :
    LET m == manifests[i]
        item == m.items[k] IN
    /\ item.kind \in {"conversation_user", "conversation_assistant"} =>
          ctxTurns[item.ref[1]].epoch = m.epoch
    /\ item.kind = "compaction" =>
          compactions[item.ref[1]].cursor > epochs[m.epoch].cursor
    /\ item.kind = "fork_conversation_user" => fork.config = ConfigOf(m.epoch)

(* Every approval still pending and every decided effect up to a             *)
(* compaction's last event is in its carry-forward, however late it is read  *)
(* (validate_required_carry_forward).                                       *)
OpenWorkIsCarried ==
  \A c \in DOMAIN compactions :
    /\ UpTo(compactions[c].last, "awaiting") \subseteq compactions[c].approvals
    /\ UpTo(compactions[c].last, "decided") \subseteq compactions[c].outcomes

(* Recorded replay accepts every manifest of an ordinary session at any      *)
(* later time, whatever was compacted, corrected, expired or answered since, *)
(* as long as no memory it left out for space was deleted                   *)
(* (verify_context_manifest).                                               *)
ManifestReplays ==
  fork.refs = 0 =>
    \A i \in DOMAIN manifests :
      (\A k \in DOMAIN manifests[i].items :
          manifests[i].items[k].kind = "memory" => MemoryRenders(manifests[i].items[k]))
      => VerifyContextManifest(manifests[i])

(* What the context of a session promises while memories, compactions and   *)
(* configurations change: a turn keeps its epoch, a rotation forgets the    *)
(* workspace, a compaction carries open work, and manifests replay.         *)
ContextSafety ==
  /\ ContextTypeOK
  /\ TurnKeepsEpoch
  /\ RotationForgets
  /\ OpenWorkIsCarried
  /\ ManifestReplays
=============================================================================
