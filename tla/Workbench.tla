----------------------------- MODULE Workbench -----------------------------
(* The owner's workbench over sessions: titles, provider selection, check-    *)
(* points, forks and transcripts (sqlite/workbench.rs, provider_selection.rs, *)
(* transcript.rs).  Every operation is one immediate transaction, so one      *)
(* action; what interleaves is the commands of several clients, each of which *)
(* reads a revision first and sends its command later, and the turns of the   *)
(* sessions meanwhile.  A cursor is a position of the presentation timeline;  *)
(* only the events whose cursor something compares are kept.                  *)
EXTENDS Integers, Sequences, FiniteSets, SequencesExt, FiniteSetsExt

CONSTANTS WbSessions,    \* session identities; the first one exists at the start
          FirstSession,
          Titles, Selections,   \* owner titles, exact provider selections
          ForkKeys,      \* idempotency keys of fork commands
          WbClients,     \* owner clients (CLI, terminal, dashboard)
          TurnSizes,     \* bytes of one turn's two messages
          InlineBytes,   \* an answer of a larger turn is stored as an artifact
          ConfiguredSelections,              \* exact selections the daemon offers
          HistoryTurns, HistoryBytes,        \* ceilings of fork references
          TranscriptTurns, TranscriptBytes,  \* ceilings of an export
          MaxWbCursor, MaxWbTurns, MaxWbEpochs, MaxWbCompactions   \* bounds of the instance

VARIABLES wbSessions,   \* session rows with metadata, selection and lineage
          wbTurns,      \* inputs and the canonical turns made from them, by sequence
          wbCursor,     \* last timeline cursor
          wbHead,       \* session -> cursor of its newest event
          checkpoints, wbCompactions, forks,
          wbViews       \* client -> what it read before its next command

wbVars == <<wbSessions, wbTurns, wbCursor, wbHead, checkpoints, wbCompactions, forks, wbViews>>

NoRow == [open |-> FALSE, revision |-> 0, title |-> "derived", selection |-> "automatic",
          epoch |-> 0, root |-> "none", parent |-> 0]
NoView == [session |-> "none", revision |-> 0, title |-> "derived", selection |-> "automatic"]
NoFork == [checkpoint |-> 0, session |-> "none", refs |-> <<>>]

\* A session without a parent checkpoint is its own root.
RootRow(s, root, parent) == [NoRow EXCEPT !.open = TRUE, !.root = root, !.parent = parent]

WorkbenchInit ==
  /\ wbSessions = [s \in WbSessions |->
                     IF s = FirstSession THEN RootRow(s, s, 0) ELSE NoRow]
  /\ wbTurns = <<>>
  /\ wbCursor = 1
  /\ wbHead = [s \in WbSessions |-> IF s = FirstSession THEN 1 ELSE 0]
  /\ checkpoints = <<>> /\ wbCompactions = {}
  /\ forks = [k \in ForkKeys |-> NoFork]
  /\ wbViews = [c \in WbClients |-> NoView]

TurnsOf(s) == {t \in DOMAIN wbTurns : wbTurns[t].session = s}
InState(s, states) == {t \in TurnsOf(s) : wbTurns[t].state \in states}
PendingInputs(s) == InState(s, {"pending"})
ActiveTurn(s) == InState(s, {"running"})

InsertSessionEvent(s) ==
  /\ wbCursor < MaxWbCursor
  /\ wbCursor' = wbCursor + 1
  /\ wbHead' = [wbHead EXCEPT ![s] = wbCursor + 1]

HighWatermark(s) == wbHead[s]

AdmitWbInput(s, size) ==
  /\ wbSessions[s].open /\ Len(wbTurns) < MaxWbTurns
  /\ InsertSessionEvent(s)
  /\ wbTurns' = Append(wbTurns, [session |-> s, state |-> "pending", size |-> size,
                                 input |-> wbCursor + 1, completion |-> 0, epoch |-> 0])
  /\ wbSessions' = [wbSessions EXCEPT ![s].revision = @ + 1]
  /\ UNCHANGED <<checkpoints, wbCompactions, forks, wbViews>>

\* The oldest pending input becomes the session's one active turn.
PromoteWbInput(s) ==
  /\ PendingInputs(s) # {} /\ ActiveTurn(s) = {}
  /\ LET t == Min(PendingInputs(s))
     IN wbTurns' = [wbTurns EXCEPT ![t].state = "running"]
  /\ wbSessions' = [wbSessions EXCEPT ![s].revision = @ + 1]
  /\ UNCHANGED <<wbCursor, wbHead, checkpoints, wbCompactions, forks, wbViews>>

\* The first model attempt binds the turn to the session's current epoch, after
\* rotating it when the daemon's configuration changed since.
BindWbEpoch(s, rotate) ==
  /\ \E t \in ActiveTurn(s) :
       /\ wbTurns[t].epoch = 0
       /\ LET e == IF rotate \/ wbSessions[s].epoch = 0
                   THEN wbSessions[s].epoch + 1 ELSE wbSessions[s].epoch
          IN /\ e <= MaxWbEpochs
             /\ wbTurns' = [wbTurns EXCEPT ![t].epoch = e]
             /\ wbSessions' = [wbSessions EXCEPT ![s].epoch = e]
  /\ UNCHANGED <<wbCursor, wbHead, checkpoints, wbCompactions, forks, wbViews>>

\* A turn completes after a final answer, or ends failed or cancelled.
EndWbTurn(s, state) ==
  /\ \E t \in ActiveTurn(s) :
       /\ state = "completed" => wbTurns[t].epoch # 0
       /\ wbTurns' = [wbTurns EXCEPT ![t].state = state, ![t].completion = wbCursor + 1]
  /\ InsertSessionEvent(s)
  /\ wbSessions' = [wbSessions EXCEPT ![s].revision = @ + 1]
  /\ UNCHANGED <<checkpoints, wbCompactions, forks, wbViews>>

\* A compaction replaces the history up to the last cursor of its source range,
\* which ends at any event of the session.
CompactWb(s) ==
  /\ Cardinality(wbCompactions) < MaxWbCompactions
  /\ \E t \in TurnsOf(s) : \E last \in {wbTurns[t].input, wbTurns[t].completion} \ {0} :
       wbCompactions' = wbCompactions \cup
         {[session |-> s, last |-> last, cursor |-> wbCursor + 1]}
  /\ InsertSessionEvent(s)
  /\ UNCHANGED <<wbSessions, wbTurns, checkpoints, forks, wbViews>>

(***************************************************************************)
(* Fenced commands: the client reads the session, then sends its command   *)
(* with the revision it saw; the transaction compares it with the row.      *)
(***************************************************************************)
ReadSession(c, s) ==
  /\ wbSessions[s].open /\ wbViews[c] = NoView
  /\ wbViews' = [wbViews EXCEPT ![c] =
       [session |-> s, revision |-> wbSessions[s].revision,
        title |-> wbSessions[s].title, selection |-> wbSessions[s].selection]]
  /\ UNCHANGED <<wbSessions, wbTurns, wbCursor, wbHead, checkpoints, wbCompactions, forks>>

FencedUnchecked(c) == wbViews[c].session # "none"

Fenced(c) ==
  /\ wbViews[c].session # "none"
  /\ wbSessions[wbViews[c].session].revision = wbViews[c].revision

\* A refused command leaves the store as it was; the client starts over.
Conflict(c) ==
  /\ wbViews[c].session # "none" /\ ~Fenced(c)
  /\ wbViews' = [wbViews EXCEPT ![c] = NoView]
  /\ UNCHANGED <<wbSessions, wbTurns, wbCursor, wbHead, checkpoints, wbCompactions, forks>>

\* valid_session_metadata, the use case's check before the store's.
ValidSessionMetadata(text) == text # "blank"

UpdateSessionTitle(c, title) ==
  /\ ValidSessionMetadata(title)
  /\ Fenced(c)
  /\ LET s == wbViews[c].session
     IN /\ wbSessions' = [wbSessions EXCEPT ![s] =
             [@ EXCEPT !.revision = @ + 1, !.title = title]]
        /\ InsertSessionEvent(s)
  /\ wbViews' = [wbViews EXCEPT ![c] = NoView]
  /\ UNCHANGED <<wbTurns, checkpoints, wbCompactions, forks>>

\* Automatic routing is always allowed, an exact selection must be configured.
CheckedProviderSelection(selection) ==
  selection \in ConfiguredSelections \cup {"automatic"}

UpdateProviderSelection(c, selection) ==
  /\ CheckedProviderSelection(selection)
  /\ Fenced(c)
  /\ LET s == wbViews[c].session
     IN /\ wbSessions' = [wbSessions EXCEPT ![s] =
             [@ EXCEPT !.revision = @ + 1, !.selection = selection]]
        /\ InsertSessionEvent(s)
  /\ wbViews' = [wbViews EXCEPT ![c] = NoView]
  /\ UNCHANGED <<wbTurns, checkpoints, wbCompactions, forks>>

(***************************************************************************)
(* References a fork may take: the newest inline successful turns of the   *)
(* checkpoint's epoch, completed by its cursor and admitted after the last *)
(* compaction the checkpoint knew of, under the two history ceilings.       *)
(***************************************************************************)
CompactionCutoffCurrent(s, cursor) ==
  Max({0} \cup {c.last : c \in {c \in wbCompactions : c.session = s}})

CompactionCutoff(s, cursor) ==
  Max({0} \cup {c.last : c \in {c \in wbCompactions : c.session = s /\ c.cursor <= cursor}})

\* ROW_NUMBER and the running SUM, both newest first.
Newest(ts, turns, bytes) ==
  {t \in ts :
     LET newer == {u \in ts : u >= t}
     IN /\ Cardinality(newer) <= turns
        /\ MapThenSumSet(LAMBDA u : wbTurns[u].size, newer) <= bytes}

ForkCandidates(s, cursor, epoch) ==
  {t \in InState(s, {"completed"}) :
     /\ wbTurns[t].epoch = epoch
     /\ wbTurns[t].completion <= cursor
     /\ wbTurns[t].size <= InlineBytes
     /\ wbTurns[t].input > CompactionCutoff(s, cursor)}

EligibleReferences(s, cursor, epoch) ==
  SetToSortSeq(Newest(ForkCandidates(s, cursor, epoch), HistoryTurns, HistoryBytes),
               LAMBDA a, b : a < b)

(***************************************************************************)
(* Checkpoints.                                                             *)
(***************************************************************************)
\* The last canonical turn, which must have completed; a session that never had
\* one is bound by its current epoch alone.
LastTurn(s) == LET started == TurnsOf(s) \ PendingInputs(s)
               IN IF started = {} THEN 0 ELSE Max(started)

CheckpointBoundary(s) ==
  LET t == LastTurn(s)
  IN [turn |-> t, epoch |-> IF t = 0 THEN wbSessions[s].epoch ELSE wbTurns[t].epoch]

Quiescent(s) ==
  /\ ActiveTurn(s) = {} /\ PendingInputs(s) = {}
  /\ LastTurn(s) # 0 => wbTurns[LastTurn(s)].state = "completed"

\* The cursor is the session's high watermark before the checkpoint's own event.
\* `eligible` is history: what a fork made at this instant would refer to.
PreparedCheckpoint(s) ==
  LET b == CheckpointBoundary(s)
  IN [session |-> s, cursor |-> HighWatermark(s), turn |-> b.turn, epoch |-> b.epoch,
      revision |-> wbSessions[s].revision,
      eligible |-> EligibleReferences(s, HighWatermark(s), b.epoch)]

CreateSessionCheckpoint(c) ==
  /\ Fenced(c)
  /\ LET s == wbViews[c].session
     IN /\ Quiescent(s)
        /\ checkpoints' = Append(checkpoints, PreparedCheckpoint(s))
        /\ wbSessions' = [wbSessions EXCEPT ![s].revision = @ + 1]
        /\ InsertSessionEvent(s)
  /\ wbViews' = [wbViews EXCEPT ![c] = NoView]
  /\ UNCHANGED <<wbTurns, wbCompactions, forks>>

(***************************************************************************)
(* Forks.  A key that already made a fork answers with that fork, whatever *)
(* happened to the sessions since; a new key makes a new session.           *)
(***************************************************************************)
\* A fork's session has a fresh identity.
FreshSessions == {s \in WbSessions : ~wbSessions[s].open}

LoadExistingFork(k) == forks[k]

\* An exact retry reads the first receipt again and changes nothing, and a key
\* reused for another checkpoint is refused; neither is a step of its own.
ForkSession(k, cp) ==
  /\ LoadExistingFork(k) = NoFork
  /\ FreshSessions # {}
  /\ LET source == checkpoints[cp]
         new == CHOOSE s \in FreshSessions : TRUE
     IN /\ forks' = [forks EXCEPT ![k] =
             [checkpoint |-> cp, session |-> new,
              refs |-> EligibleReferences(source.session, source.cursor, source.epoch)]]
        /\ wbSessions' = [wbSessions EXCEPT ![new] =
             RootRow(new, wbSessions[source.session].root, cp)]
        /\ InsertSessionEvent(new)
  /\ UNCHANGED <<wbTurns, checkpoints, wbCompactions, wbViews>>

(***************************************************************************)
(* The transcript of a session: header, lineage and the newest successful  *)
(* turns under the export ceilings, read in one snapshot.                   *)
(***************************************************************************)
EligibleTurns(s) == InState(s, {"completed"})

TranscriptRows(s) ==
  SetToSortSeq(Newest(EligibleTurns(s), TranscriptTurns, TranscriptBytes),
               LAMBDA a, b : a < b)

\* Total bytes of a set of turns.
BytesOf(ts) == MapThenSumSet(LAMBDA u : wbTurns[u].size, ts)

\* A session is its own root exactly when it has no parent checkpoint; a stored
\* row of any other shape refuses the export.
LineageShapeHolds(root, s, parent) == (root = s) <=> (parent = 0)

\* The export's model: header, lineage, bounds and turns with their citations.
Transcript(s) ==
  LET rows == TranscriptRows(s)
  IN [session |-> s, root |-> wbSessions[s].root, parent |-> wbSessions[s].parent,
      high |-> HighWatermark(s), eligible |-> Cardinality(EligibleTurns(s)),
      omitted |-> Cardinality(EligibleTurns(s)) - Len(rows),
      bytes |-> BytesOf({rows[i] : i \in DOMAIN rows}),
      oldest |-> IF rows = <<>> THEN 0 ELSE rows[1],
      turns |-> [i \in DOMAIN rows |->
                   [sequence |-> rows[i], user |-> wbTurns[rows[i]].input,
                    completion |-> wbTurns[rows[i]].completion,
                    size |-> wbTurns[rows[i]].size]]]

\* The checks the command-line client makes before it writes the export.
ValidateTranscript(x) ==
  /\ x.high # 0
  /\ Len(x.turns) <= TranscriptTurns /\ x.omitted + Len(x.turns) = x.eligible
  /\ LineageShapeHolds(x.root, x.session, x.parent)
  /\ \A i \in DOMAIN x.turns :
       /\ i > 1 => x.turns[i - 1].sequence < x.turns[i].sequence
       /\ x.turns[i].user # 0 /\ x.turns[i].user <= x.turns[i].completion
       /\ x.turns[i].completion <= x.high
  /\ x.bytes <= TranscriptBytes
  /\ x.oldest = (IF x.turns = <<>> THEN 0 ELSE x.turns[1].sequence)

WorkbenchNext ==
  \/ \E s \in WbSessions, size \in TurnSizes : AdmitWbInput(s, size)
  \/ \E s \in WbSessions : PromoteWbInput(s) \/ CompactWb(s)
  \/ \E s \in WbSessions, rotate \in BOOLEAN : BindWbEpoch(s, rotate)
  \/ \E s \in WbSessions, state \in {"completed", "failed"} : EndWbTurn(s, state)
  \/ \E c \in WbClients, s \in WbSessions : ReadSession(c, s)
  \/ \E c \in WbClients : Conflict(c) \/ CreateSessionCheckpoint(c)
  \/ \E c \in WbClients, t \in Titles : UpdateSessionTitle(c, t)
  \/ \E c \in WbClients, p \in Selections \cup {"automatic"} : UpdateProviderSelection(c, p)
  \/ \E k \in ForkKeys, cp \in DOMAIN checkpoints : ForkSession(k, cp)

(***************************************************************************)
(* Properties                                                               *)
(***************************************************************************)
\* Types, and the session rows' counters: a row that is not open was never
\* written, a turn that ended has a cursor, every head is a past cursor.
WorkbenchTypeOK ==
  /\ wbSessions \in [WbSessions ->
       [open : BOOLEAN, revision : Nat, title : Titles \cup {"derived"},
        selection : Selections \cup {"automatic"}, epoch : 0..MaxWbEpochs,
        root : WbSessions \cup {"none"}, parent : Nat]]
  /\ \A s \in WbSessions : ~wbSessions[s].open => wbSessions[s] = NoRow /\ wbHead[s] = 0
  /\ \A s \in WbSessions : Cardinality(ActiveTurn(s)) <= 1
  /\ \A t \in DOMAIN wbTurns :
       (wbTurns[t].state \in {"completed", "failed"}) <=> (wbTurns[t].completion # 0)
  /\ \A s \in WbSessions : wbHead[s] \in 0..wbCursor

\* A title or provider selection is replaced only by a client that had read the
\* value it replaces: the revision fence of update_session_title and
\* update_session_provider_selection loses no owner's update, however the
\* commands of two clients and the turns interleave.
NoLostUpdate ==
  \A s \in WbSessions :
    wbSessions[s].open /\ wbSessions'[s] # wbSessions[s] =>
      /\ wbSessions'[s].title # wbSessions[s].title =>
           \E c \in WbClients : /\ wbViews[c].session = s /\ wbViews'[c] = NoView
                                /\ wbViews[c].title = wbSessions[s].title
      /\ wbSessions'[s].selection # wbSessions[s].selection =>
           \E c \in WbClients : /\ wbViews[c].session = s /\ wbViews'[c] = NoView
                                /\ wbViews[c].selection = wbSessions[s].selection

\* A checkpoint splits its session's history cleanly: every input admitted by
\* its cursor had ended by its cursor, the newest of them is the completed
\* source turn, and nothing that ends later was admitted before it.
CheckpointSplitsHistory ==
  \A i \in DOMAIN checkpoints :
    LET cp == checkpoints[i]
        past == {t \in TurnsOf(cp.session) : wbTurns[t].input <= cp.cursor}
    IN /\ \A t \in past : wbTurns[t].completion \in 1..cp.cursor
       /\ past # {} => cp.turn = Max(past) /\ wbTurns[cp.turn].state = "completed"
       /\ past = {} => cp.turn = 0

\* A fork refers to exactly the turns that were eligible when its checkpoint was
\* created, whenever the fork command runs: later turns, rotated epochs and
\* later compactions of the source do not change it, so two forks of one
\* checkpoint start from the same conversation.
ForkIsOfCheckpoint ==
  \A k \in ForkKeys :
    forks[k] # NoFork => forks[k].refs = checkpoints[forks[k].checkpoint].eligible

\* One command key makes one session, and a session is made by one key: a retry
\* after a lost answer neither makes a second fork nor replaces the first.
ForkIsMadeOnce ==
  \A k \in ForkKeys : forks[k] # NoFork => forks'[k] = forks[k]

\* Lineage stays a forest: every open session's chain of parent checkpoints
\* ends in the root its row names, which is a session without a parent, so the
\* transcript's lineage check never refuses an export.
LineageIsRooted ==
  \A s \in WbSessions :
    wbSessions[s].open =>
      /\ LineageShapeHolds(wbSessions[s].root, s, wbSessions[s].parent)
      /\ wbSessions[wbSessions[s].root].parent = 0
      /\ wbSessions[s].parent # 0 =>
           wbSessions[checkpoints[wbSessions[s].parent].session].root = wbSessions[s].root

\* An export ends with the session's newest successful turn whenever that turn
\* fits the export's byte ceiling at all, and the exported turns are the
\* consecutive newest ones: what is omitted is older than what is included.
TranscriptIsNewest ==
  \A s \in WbSessions :
    LET rows == TranscriptRows(s)
        kept == {rows[i] : i \in DOMAIN rows}
        left == EligibleTurns(s) \ kept
    IN /\ \A a \in left, b \in kept : a < b
       /\ left # {} /\ kept # {} =>
            \/ Len(rows) = TranscriptTurns
            \/ BytesOf(kept \cup {Max(left)}) > TranscriptBytes
       /\ left # {} /\ kept = {} => wbTurns[Max(left)].size > TranscriptBytes

\* Every export the daemon makes of an open session passes the checks of the
\* client that asked for it, whatever turns, forks and renames came before.
ExportIsAccepted ==
  \A s \in WbSessions : wbSessions[s].open => ValidateTranscript(Transcript(s))

\* What the workbench promises while sessions go on: a checkpoint splits the
\* history at a quiet point, a fork holds what its checkpoint did, lineages are
\* rooted, and a transcript is the newest part that the client accepts.
WorkbenchSafety ==
  /\ WorkbenchTypeOK
  /\ CheckpointSplitsHistory
  /\ ForkIsOfCheckpoint
  /\ LineageIsRooted
  /\ TranscriptIsNewest
  /\ ExportIsAccepted

\* No command of one client overwrites or repeats what another did since it
\* read.
WorkbenchSteps ==
  [][/\ NoLostUpdate
     /\ ForkIsMadeOnce]_wbVars
=============================================================================
