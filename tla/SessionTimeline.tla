-------------------------- MODULE SessionTimeline --------------------------
(* The presentation timeline of one session and its readers: the page query   *)
(* (sqlite/timeline.rs), the event stream that repeats it (events_handler of  *)
(* the API), the bounded permits and pooled snapshot readers both need, and   *)
(* the command-line watcher that reconnects after its last cursor.  An event  *)
(* of the session, its turns, runs, tasks and effects belongs to the session  *)
(* for ever; a memory event belongs to it as soon as one of its context       *)
(* epochs names the event's workspace.                                        *)
EXTENDS Integers, Sequences, FiniteSets, SequencesExt, FiniteSetsExt

CONSTANTS Watchers, Workspaces,
          FirstWorkspace,   \* workspace of the session's first epoch
          PageLimit,        \* events of one page
          Subscribers,      \* permits for open event streams
          Commands,         \* permits for concurrent backend calls
          ReaderCapacity,   \* pooled snapshot readers
          MaxTlEvents, MaxBreaks   \* bounds: events, disturbances (lost streams, restarts, other calls)

VARIABLES tlLog,      \* cursor -> "session" or the workspace of a memory event
          tlEpochs,   \* workspaces named by the session's epochs so far
          daemonUp, breaks,
          others,     \* backend permits held by other requests
          readers,    \* idle pooled readers
          permits,    \* idle subscriber permits
          streams,    \* watcher -> the daemon's side of its event stream
          watch       \* watcher -> cursor, printed cursors, place

tlVars == <<tlLog, tlEpochs, daemonUp, breaks, others, readers, permits, streams, watch>>

\* Error events of a stream, among the cursors of its other events.
RetryEvent == 0
RefusedEvent == -1

NoStream == [state |-> "closed", after |-> 0, sent |-> <<>>]
NewWatch == [at |-> "connect", after |-> 0, printed |-> <<>>]

TimelineInit ==
  /\ tlLog = <<"session">> /\ tlEpochs = {FirstWorkspace}
  /\ daemonUp = TRUE /\ breaks = 0 /\ others = 0
  /\ readers = ReaderCapacity /\ permits = Subscribers
  /\ streams = [w \in Watchers |-> NoStream]
  /\ watch = [w \in Watchers |-> NewWatch]

(***************************************************************************)
(* The page query.  Membership is decided when the page is read.            *)
(***************************************************************************)
Belongs(c) == tlLog[c] = "session" \/ tlLog[c] \in tlEpochs

Visible == {c \in DOMAIN tlLog : Belongs(c)}
TimelineHigh == Max({0} \cup Visible)

CursorAhead(after) == after > TimelineHigh

PageNewest(after) ==
  LET found == SetToSortSeq({c \in Visible : c > after}, LAMBDA a, b : a > b)
  IN Reverse(SubSeq(found, 1, Min({PageLimit, Len(found)})))

Page(after) ==
  LET found == SetToSortSeq({c \in Visible : c > after}, LAMBDA a, b : a < b)
  IN SubSeq(found, 1, Min({PageLimit, Len(found)}))

(***************************************************************************)
(* Canonical state moves on.                                                *)
(***************************************************************************)
AppendTimelineEvent(kind) ==
  /\ daemonUp /\ Len(tlLog) < MaxTlEvents
  /\ tlLog' = Append(tlLog, kind)
  /\ UNCHANGED <<tlEpochs, daemonUp, breaks, others, readers, permits, streams, watch>>

\* A turn rotates the session to an epoch of the currently configured workspace.
RotateWorkspace(ws) ==
  /\ daemonUp /\ ws \notin tlEpochs /\ Len(tlLog) < MaxTlEvents
  /\ tlEpochs' = tlEpochs \cup {ws}
  /\ tlLog' = Append(tlLog, "session")
  /\ UNCHANGED <<daemonUp, breaks, others, readers, permits, streams, watch>>

(***************************************************************************)
(* Admission of backend calls: run_backend takes a permit or answers busy,  *)
(* and the call holds a pooled reader while it reads its snapshot.          *)
(***************************************************************************)
OtherCommandBegins ==
  /\ daemonUp /\ others < Commands /\ readers > 0 /\ breaks < MaxBreaks
  /\ others' = others + 1 /\ readers' = readers - 1 /\ breaks' = breaks + 1
  /\ UNCHANGED <<tlLog, tlEpochs, daemonUp, permits, streams, watch>>

\* A reader goes back to the pool; one whose snapshot cannot be closed is
\* replaced by a new connection, unless that cannot be opened either.
ReturnReader(close) == IF close = "lost" THEN readers ELSE readers + 1

OtherCommandEnds(close) ==
  /\ others > 0
  /\ others' = others - 1 /\ readers' = ReturnReader(close)
  /\ UNCHANGED <<tlLog, tlEpochs, daemonUp, breaks, permits, streams, watch>>

CommandPermit == others < Commands

(***************************************************************************)
(* The event stream of one watcher.                                         *)
(***************************************************************************)
\* A subscriber permit is taken before the response begins, or the request is
\* refused as busy and the watcher tries again.
OpenStream(w) ==
  /\ daemonUp /\ watch[w].at = "connect" /\ streams[w].state = "closed" /\ permits > 0
  /\ permits' = permits - 1
  /\ streams' = [streams EXCEPT ![w] =
       [state |-> "open", after |-> watch[w].after, sent |-> <<>>]]
  /\ watch' = [watch EXCEPT ![w].at = "stream"]
  /\ UNCHANGED <<tlLog, tlEpochs, daemonUp, breaks, others, readers>>

\* The stream's generator returns after its last event and drops the permit.
EndStream(w, last) ==
  /\ streams' = [streams EXCEPT ![w].state = "ending", ![w].sent = last]
  /\ permits' = permits + 1

\* One page: a cursor beyond the session's newest event ends the stream with an
\* error that no reconnection repairs.
StreamPage(w) ==
  /\ daemonUp /\ streams[w].state = "open" /\ streams[w].sent = <<>>
  /\ CommandPermit /\ readers > 0
  /\ IF CursorAhead(streams[w].after)
     THEN EndStream(w, <<RefusedEvent>>)
     ELSE LET page == Page(streams[w].after)
          IN /\ page # <<>>
             /\ streams' = [streams EXCEPT ![w].sent = page, ![w].after = Last(page)]
             /\ UNCHANGED permits
  /\ UNCHANGED <<tlLog, tlEpochs, daemonUp, breaks, others, readers, watch>>

\* Without a command permit the stream ends with a retryable error event.
StreamBusy(w) ==
  /\ daemonUp /\ streams[w].state = "open" /\ streams[w].sent = <<>> /\ ~CommandPermit
  /\ EndStream(w, <<RetryEvent>>)
  /\ UNCHANGED <<tlLog, tlEpochs, daemonUp, breaks, others, readers, watch>>

\* The connection breaks: a prefix of what was sent still arrives.
StreamBreaks(w) ==
  /\ streams[w].state = "open" /\ breaks < MaxBreaks
  /\ breaks' = breaks + 1
  /\ \E n \in 0..Len(streams[w].sent) : EndStream(w, SubSeq(streams[w].sent, 1, n))
  /\ UNCHANGED <<tlLog, tlEpochs, daemonUp, others, readers, watch>>

\* Shutdown ends every stream and every call in flight; a restart begins with
\* full pools, and the watchers find the new connection descriptor.
DaemonStops ==
  /\ daemonUp /\ breaks < MaxBreaks
  /\ daemonUp' = FALSE /\ breaks' = breaks + 1
  /\ others' = 0 /\ readers' = 0 /\ permits' = 0
  /\ streams' = [w \in Watchers |->
       IF streams[w].state = "open" THEN [streams[w] EXCEPT !.state = "ending"] ELSE streams[w]]
  /\ UNCHANGED <<tlLog, tlEpochs, watch>>

DaemonStarts ==
  /\ ~daemonUp
  /\ daemonUp' = TRUE
  /\ readers' = ReaderCapacity /\ permits' = Subscribers
  /\ UNCHANGED <<tlLog, tlEpochs, breaks, others, streams, watch>>

(***************************************************************************)
(* The watcher.                                                             *)
(***************************************************************************)
\* parse_timeline_event: the cursor must advance.
Advances(w, c) == c > watch[w].after

PrintEvent(w) ==
  /\ watch[w].at = "stream" /\ streams[w].sent # <<>>
  /\ Head(streams[w].sent) \notin {RetryEvent, RefusedEvent}
  /\ LET c == Head(streams[w].sent)
     IN watch' = IF Advances(w, c)
                 THEN [watch EXCEPT ![w].after = c, ![w].printed = Append(@, c)]
                 ELSE [watch EXCEPT ![w].at = "failed"]
  /\ streams' = [streams EXCEPT ![w].sent = Tail(@)]
  /\ UNCHANGED <<tlLog, tlEpochs, daemonUp, breaks, others, readers, permits>>

\* An error event and the end of the stream both drop the response.
DropStream(w, at) ==
  /\ streams' = [streams EXCEPT ![w] = NoStream]
  /\ watch' = [watch EXCEPT ![w].at = at]

ReceiveErrorEvent(w) ==
  /\ watch[w].at = "stream" /\ streams[w].sent # <<>>
  /\ Head(streams[w].sent) \in {RetryEvent, RefusedEvent}
  /\ DropStream(w, IF Head(streams[w].sent) = RetryEvent THEN "connect" ELSE "failed")
  /\ UNCHANGED <<tlLog, tlEpochs, daemonUp, breaks, others, readers, permits>>

StreamEndsUnseen(w) ==
  /\ watch[w].at = "stream" /\ streams[w].state = "ending" /\ streams[w].sent = <<>>
  /\ watch[w].printed # <<>>
  /\ DropStream(w, "connect")
  /\ UNCHANGED <<tlLog, tlEpochs, daemonUp, breaks, others, readers, permits>>

StreamEnds(w) ==
  /\ watch[w].at = "stream" /\ streams[w].state = "ending" /\ streams[w].sent = <<>>
  /\ DropStream(w, "connect")
  /\ UNCHANGED <<tlLog, tlEpochs, daemonUp, breaks, others, readers, permits>>

TimelineNext ==
  \/ \E kind \in Workspaces \cup {"session"} : AppendTimelineEvent(kind)
  \/ \E ws \in Workspaces : RotateWorkspace(ws)
  \/ OtherCommandBegins
  \/ \E close \in {"closed", "replaced", "lost"} : OtherCommandEnds(close)
  \/ DaemonStops \/ DaemonStarts
  \/ \E w \in Watchers :
       \/ OpenStream(w) \/ StreamPage(w) \/ StreamBusy(w) \/ StreamBreaks(w)
       \/ PrintEvent(w) \/ ReceiveErrorEvent(w) \/ StreamEnds(w)

\* The daemon is restarted after a stop, calls finish, and the runtime polls
\* streams and the watcher's connection loop.  The load of other calls is finite,
\* as the bound on disturbances is.
TimelineFairness ==
  /\ WF_tlVars(DaemonStarts)
  /\ WF_tlVars(\E close \in {"closed", "replaced", "lost"} : OtherCommandEnds(close))
  /\ \A w \in Watchers :
       /\ WF_tlVars(OpenStream(w)) /\ WF_tlVars(StreamPage(w))
       /\ WF_tlVars(PrintEvent(w)) /\ WF_tlVars(ReceiveErrorEvent(w)) /\ WF_tlVars(StreamEnds(w))

(***************************************************************************)
(* Properties                                                               *)
(***************************************************************************)
\* Types and the two pools: no permit and no reader is invented.
TimelineTypeOK ==
  /\ tlLog \in Seq(Workspaces \cup {"session"}) /\ tlEpochs \subseteq Workspaces
  /\ daemonUp \in BOOLEAN /\ others \in 0..Commands
  /\ readers + others \in 0..ReaderCapacity
  /\ daemonUp => permits = Subscribers - Cardinality({w \in Watchers : streams[w].state = "open"})
  /\ \A w \in Watchers :
       /\ watch[w].at \in {"connect", "stream", "failed"}
       /\ streams[w].state \in {"closed", "open", "ending"}

\* A watcher that reconnects after its last cursor prints every event of the
\* session's own work up to that cursor, whatever streams broke, ended busy or
\* were cut by a restart: the page query neither skips nor reorders.
NothingSkipped ==
  \A w \in Watchers :
    \A c \in 1..watch[w].after :
      tlLog[c] = "session" => \E i \in DOMAIN watch[w].printed : watch[w].printed[i] = c

\* No event is printed twice or out of order across reconnections.
PrintedOnceInOrder ==
  \A w \in Watchers : \A i, j \in DOMAIN watch[w].printed :
    i < j => watch[w].printed[i] < watch[w].printed[j]

\* Resuming never fails: a cursor the watcher was given is never ahead of the
\* session's newest event, and a resumed stream never repeats it.
ResumeIsAccepted == \A w \in Watchers : watch[w].at # "failed"

\* All pooled readers of the running daemon were lost with their connections.
PoolIsEmpty == daemonUp /\ readers = 0 /\ others = 0

\* Every watcher catches up with the session again and again, as long as the
\* daemon keeps one pooled reader: no break, busy answer or restart strands it.
WatchersCatchUp ==
  []<>(PoolIsEmpty \/ \A w \in Watchers : \A c \in DOMAIN tlLog :
         tlLog[c] = "session" => c <= watch[w].after)

\* What a watcher is promised over broken streams: no event of the session is
\* skipped or printed twice, and its cursor is always accepted.
TimelineSafety ==
  /\ TimelineTypeOK
  /\ NothingSkipped
  /\ PrintedOnceInOrder
  /\ ResumeIsAccepted
=============================================================================
