---------------------------- MODULE ProviderAttempt ----------------------------
(***************************************************************************)
(* One dispatched provider attempt in the daemon: the worker in            *)
(* dispatch_model that waits for the answer with a timeout, the provider   *)
(* thread that streams text, and the sink that stores the text as bounded  *)
(* progress events.  The thread outlives a worker that stopped waiting.    *)
(***************************************************************************)
EXTENDS Naturals, Sequences, SequencesExt

CONSTANTS
    TextPieces,         \* pieces of text, one unit of bytes each
    MaxStreamed,        \* MAXIMUM_FINAL_TEXT_BYTES of the adapters
    MaxProgressBytes,   \* MAXIMUM_MODEL_PROGRESS_BYTES
    MaxProgressEvents,  \* MAXIMUM_MODEL_PROGRESS_EVENTS
    MaxDeltaBytes,      \* MAXIMUM_MODEL_PROGRESS_DELTA_BYTES
    FlushBytes          \* PROVIDER_PROGRESS_FLUSH_BYTES

\* The adapters stop at the final-text bound, so the sink never has to drop
\* a piece for its own byte bound.
ASSUME ProgressBounds ==
    /\ MaxStreamed \in Nat /\ MaxProgressBytes \in Nat /\ MaxStreamed <= MaxProgressBytes
    /\ MaxProgressEvents \in Nat
    /\ MaxDeltaBytes \in Nat \ {0} /\ FlushBytes \in Nat \ {0}

VARIABLES
    thread,     \* the provider thread: where it is, its time stamp, its answer
    worker,     \* the worker: where it is, local_timeout, completed_at, its result
    sink,       \* DurableProviderProgressState, and who holds its lock
    streamed,   \* history: the text handed to emit
    persisted   \* the model.output.delta events of the attempt

attemptVars == <<thread, worker, sink, streamed, persisted>>

Answers == {"answer", "failure", "unknown"}

AttemptInit ==
    /\ thread = [pc |-> "reading", stamp |-> "none", answer |-> "none"]
    /\ worker = [pc |-> "waiting", timeout |-> FALSE, completed |-> FALSE,
                 result |-> "none"]
    /\ sink = [pending |-> <<>>, sequence |-> 0, bytes |-> 0, disabled |-> FALSE,
               holder |-> "none"]
    /\ streamed = <<>> /\ persisted = <<>>

Cancelled == worker.timeout

-----------------------------------------------------------------------------
(***************************************************************************)
(* DurableProviderProgressSink.                                            *)
(***************************************************************************)

\* utf8_prefix_length: the prefix that fits.
FittingPrefix(text, maximum) ==
    SubSeq(text, 1, IF maximum < Len(text) THEN maximum ELSE Len(text))

\* emit(): under the sink's lock, unless the attempt was cancelled locally.
Push(text) ==
    IF Cancelled \/ sink.disabled THEN sink
    ELSE [sink EXCEPT !.pending =
            @ \o FittingPrefix(text, MaxProgressBytes - (sink.bytes + Len(@)))]

Discarded == [sink EXCEPT !.pending = <<>>, !.disabled = TRUE, !.holder = "none"]

\* flush(): a local cancellation discards what is pending; an unforced flush
\* is due when enough is pending or the interval has elapsed.
TakeSink(who, force) ==
    /\ sink.holder = "none"
    /\ IF Cancelled THEN sink' = Discarded
       ELSE \/ sink' = [sink EXCEPT !.holder = who]
            \/ ~force /\ Len(sink.pending) < FlushBytes /\ sink' = sink

NextDelta == FittingPrefix(sink.pending, MaxDeltaBytes)

Rest == SubSeq(sink.pending, Len(NextDelta) + 1, Len(sink.pending))

Exhausted == sink.sequence >= MaxProgressEvents \/ sink.bytes >= MaxProgressBytes

\* record_model_progress takes the delta while the attempt is dispatching and
\* its sequence and cumulative bytes continue the stored events.
StoreTakes ==
    /\ worker.pc # "recorded"
    /\ sink.sequence = Len(persisted)
    /\ sink.bytes = Len(FlattenSeq([i \in DOMAIN persisted |-> persisted[i].text]))

\* Mutant of FlushOne: after a failed write the next delta is tried.
FlushOneSkipping(force, stamp) ==
    \/ /\ sink.disabled \/ sink.pending = <<>>
       /\ sink' = [sink EXCEPT !.holder = "none"]
       /\ UNCHANGED persisted
    \/ /\ ~sink.disabled /\ sink.pending # <<>>
       /\ sink' = [sink EXCEPT !.pending = Rest]
       /\ UNCHANGED persisted
    \/ /\ ~sink.disabled /\ sink.pending # <<>> /\ ~Exhausted /\ StoreTakes
       /\ persisted' = Append(persisted, [text |-> NextDelta, stamp |-> stamp])
       /\ sink' = [sink EXCEPT !.pending = Rest, !.sequence = @ + 1,
                     !.bytes = @ + Len(NextDelta),
                     !.holder = IF ~force /\ Len(Rest) < FlushBytes THEN "none" ELSE @]

\* One iteration of the loop; a failed write disables the sink for good.
FlushOne(force, stamp) ==
    \/ /\ sink.disabled \/ sink.pending = <<>>
       /\ sink' = [sink EXCEPT !.holder = "none"]
       /\ UNCHANGED persisted
    \/ /\ ~sink.disabled /\ sink.pending # <<>>
       /\ sink' = Discarded
       /\ UNCHANGED persisted
    \/ /\ ~sink.disabled /\ sink.pending # <<>> /\ ~Exhausted /\ StoreTakes
       /\ persisted' = Append(persisted, [text |-> NextDelta, stamp |-> stamp])
       /\ sink' = [sink EXCEPT !.pending = Rest, !.sequence = @ + 1,
                     !.bytes = @ + Len(NextDelta),
                     !.holder = IF ~force /\ Len(Rest) < FlushBytes THEN "none" ELSE @]

-----------------------------------------------------------------------------
(***************************************************************************)
(* The provider thread.                                                    *)
(***************************************************************************)

\* The adapter hands a text delta to the sink.
Emit(text) ==
    /\ thread.pc = "reading" /\ Len(streamed) + Len(text) <= MaxStreamed
    /\ sink.holder = "none"
    /\ streamed' = streamed \o text
    /\ sink' = Push(text)
    /\ thread' = [thread EXCEPT !.pc = IF Cancelled THEN @ ELSE "stamping"]
    /\ UNCHANGED <<worker, persisted>>

\* The argument of flush(false, SystemClock.now()).
Stamp ==
    /\ thread.pc = "stamping"
    /\ thread' = [thread EXCEPT !.pc = "locking",
                     !.stamp = IF worker.completed THEN "late" ELSE "timely"]
    /\ UNCHANGED <<worker, sink, streamed, persisted>>

ThreadTakesSink ==
    /\ thread.pc = "locking"
    /\ TakeSink("thread", FALSE)
    /\ thread' = [thread EXCEPT !.pc =
                     IF sink'.holder = "thread" THEN "flushing" ELSE "reading"]
    /\ UNCHANGED <<worker, streamed, persisted>>

ThreadFlushes ==
    /\ thread.pc = "flushing"
    /\ FlushOne(FALSE, thread.stamp)
    /\ thread' = [thread EXCEPT !.pc =
                     IF sink'.holder = "none" THEN "reading" ELSE @]
    /\ UNCHANGED <<worker, streamed>>

\* complete_with_progress returns; the channel holds one answer.
Answer(a) ==
    /\ thread.pc = "reading"
    /\ thread' = [thread EXCEPT !.pc = "over", !.answer = a]
    /\ UNCHANGED <<worker, sink, streamed, persisted>>

-----------------------------------------------------------------------------
(***************************************************************************)
(* The worker: recv_timeout, completed_at, flush(true), and the record.    *)
(***************************************************************************)
Receive ==
    /\ worker.pc = "waiting" /\ thread.pc = "over"
    /\ worker' = [worker EXCEPT !.pc = "completing", !.result = thread.answer]
    /\ UNCHANGED <<thread, sink, streamed, persisted>>

ReceiveTimesOut ==
    /\ worker.pc = "waiting"
    /\ worker' = [worker EXCEPT !.pc = "completing", !.timeout = TRUE,
                     !.result = "unknown"]
    /\ UNCHANGED <<thread, sink, streamed, persisted>>

\* completed_at is read before the flush.
Complete ==
    /\ worker.pc = "completing"
    /\ worker' = [worker EXCEPT !.pc = "locking", !.completed = TRUE]
    /\ UNCHANGED <<thread, sink, streamed, persisted>>

WorkerTakesSink ==
    /\ worker.pc = "locking"
    /\ TakeSink("worker", TRUE)
    /\ worker' = [worker EXCEPT !.pc =
                     IF sink'.holder = "worker" THEN "flushing" ELSE "recording"]
    /\ UNCHANGED <<thread, streamed, persisted>>

WorkerFlushes ==
    /\ worker.pc = "flushing"
    /\ FlushOne(TRUE, "timely")
    /\ worker' = [worker EXCEPT !.pc =
                     IF sink'.holder = "none" THEN "recording" ELSE @]
    /\ UNCHANGED <<thread, streamed>>

\* An outcome-unknown error leaves the attempt dispatching for recovery; an
\* answer or a known failure is recorded.
RecordResult ==
    /\ worker.pc = "recording"
    /\ worker' = [worker EXCEPT !.pc =
                     IF worker.result = "unknown" THEN "left" ELSE "recorded"]
    /\ UNCHANGED <<thread, sink, streamed, persisted>>

AttemptNext ==
    \/ \E p \in TextPieces, n \in 1..2 : Emit([i \in 1..n |-> p])
    \/ Stamp \/ ThreadTakesSink \/ ThreadFlushes
    \/ \E a \in Answers : Answer(a)
    \/ Receive \/ ReceiveTimesOut \/ Complete
    \/ WorkerTakesSink \/ WorkerFlushes \/ RecordResult

-----------------------------------------------------------------------------
(***************************************************************************)
(* Properties.                                                             *)
(***************************************************************************)

\* Type correctness, and the sink's lock held by whoever is flushing.
AttemptTypeOK ==
    /\ thread.pc \in {"reading", "stamping", "locking", "flushing", "over"}
    /\ worker.pc \in {"waiting", "completing", "locking", "flushing", "recording",
                      "recorded", "left"}
    /\ (sink.holder = "thread") <=> (thread.pc = "flushing")
    /\ (sink.holder = "worker") <=> (worker.pc = "flushing")

PersistedText == FlattenSeq([i \in DOMAIN persisted |-> persisted[i].text])

\* The progress evidence of an attempt is a prefix of what was streamed,
\* within the event, delta and byte bounds that recorded replay checks,
\* whoever flushes, whichever write fails and whenever the worker gives up.
PersistedIsPrefix ==
    /\ IsPrefix(PersistedText, streamed)
    /\ Len(persisted) <= MaxProgressEvents
    /\ Len(PersistedText) <= MaxProgressBytes
    /\ \A i \in DOMAIN persisted : Len(persisted[i].text) \in 1..MaxDeltaBytes

\* A recorded attempt whose sink was never disabled kept all of the text.
RecordedKeepsProgress ==
    worker.pc = "recorded" /\ ~sink.disabled => PersistedText = streamed

\* No progress event is stamped after completed_at (agent.rs: "so replay
\* cannot observe progress after the terminal attempt timestamp"), even while
\* a thread the worker no longer waits for still streams.
ProgressIsTimely ==
    \A i \in DOMAIN persisted : persisted[i].stamp = "timely"

\* What the worker records is what the provider thread returned; while the
\* thread may still be streaming the outcome stays unknown.
SettledIsReturned ==
    worker.pc = "recorded" => thread.pc = "over" /\ worker.result = thread.answer

\* What one attempt promises while its thread, its worker and cancellation
\* race: stored progress is a prefix of the stream, a recorded answer keeps it,
\* none comes late, and the record says what the thread returned.
ProgressSafety ==
  /\ AttemptTypeOK
  /\ PersistedIsPrefix
  /\ RecordedKeepsProgress
  /\ ProgressIsTimely
  /\ SettledIsReturned
=============================================================================
