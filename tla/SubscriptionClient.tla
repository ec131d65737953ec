-------------------------- MODULE SubscriptionClient --------------------------
(***************************************************************************)
(* One dispatch of the subscription bridge: the official client is started *)
(* as a child process in a group of its own, three threads feed and drain  *)
(* its pipes, and the provider thread polls for cancellation, the deadline *)
(* and the exit, in that order.  The client may write anything, stop       *)
(* reading, and leave helper processes that hold its pipes.                *)
(***************************************************************************)
EXTENDS Naturals, Sequences, FiniteSets

CONSTANTS
    MaxClientLines,   \* MAXIMUM_RESPONSE_BYTES, in output lines
    MaxClientWrites   \* bound: lines the client writes

ASSUME ClientBounds == MaxClientLines \in Nat /\ MaxClientWrites \in Nat

VARIABLES
    bridge,    \* the provider thread: pc, the schema file, the result
    client,    \* the child, and a helper process holding its pipes
    pipes,     \* the writer thread and the two readers
    output,    \* lines the client wrote to stdout
    taken,     \* how many of them the stdout reader has
    limits     \* the cancellation request and the deadline

clientVars == <<bridge, client, pipes, output, taken, limits>>

\* JSON lines of the client.  A message carries a decision (an inconsistent
\* one has the wrong fields or names an undeclared tool), a usage record fits
\* the request or exceeds it; other events are "noise".
Decisions == {"final", "tool", "inconsistent", "absent"}
Lines == [type : {"message"}, value : Decisions]
         \cup [type : {"usage"}, value : {"fits", "exceeds"}]
         \cup [type : {"noise", "failed", "malformed"}, value : {"none"}]

NoClientResult == [class |-> "none", known |-> TRUE, retryable |-> FALSE, decision |-> "none"]
KnownError(class, retryable) ==
    [NoClientResult EXCEPT !.class = class, !.retryable = retryable]
UnknownError(class, retryable) == [KnownError(class, retryable) EXCEPT !.known = FALSE]
Decided(d) == [NoClientResult EXCEPT !.class = "ok", !.decision = d]

ClientInit ==
    /\ bridge = [pc |-> "checking", schema |-> FALSE, result |-> NoClientResult]
    /\ client = [state |-> "none", helper |-> "none"]
    /\ pipes = [writer |-> "none", stdout |-> "none", stderr |-> "none"]
    /\ output = <<>> /\ taken = 0
    /\ limits = [cancelled |-> FALSE, elapsed |-> FALSE]

\* The call returns; dropping the schema file removes it.
Returned(result) == [pc |-> "over", schema |-> FALSE, result |-> result]

-----------------------------------------------------------------------------
\* validate_request, cancellation, verify_executable, request_prompt and
\* remaining_timeout, then the schema file for the client.
Refusals == {KnownError("invalid_request", FALSE), KnownError("unavailable", FALSE),
             KnownError("unavailable", TRUE)}

CheckRequest ==
    /\ bridge.pc = "checking"
    /\ \/ \E e \in Refusals : bridge' = Returned(e)
       \/ limits.cancelled /\ bridge' = Returned(KnownError("cancelled", FALSE))
       \/ limits.elapsed /\ bridge' = Returned(KnownError("timeout", TRUE))
       \/ ~limits.cancelled /\ ~limits.elapsed
            /\ bridge' = [bridge EXCEPT !.pc = "starting", !.schema = TRUE]
    /\ UNCHANGED <<client, pipes, output, taken, limits>>

StartClient ==
    /\ bridge.pc = "starting"
    /\ \/ /\ bridge' = Returned(KnownError("unavailable", TRUE))
          /\ UNCHANGED <<client, pipes>>
       \/ /\ bridge' = [bridge EXCEPT !.pc = "poll_cancellation"]
          /\ client' = [client EXCEPT !.state = "running"]
          /\ pipes' = [p \in DOMAIN pipes |-> "busy"]
    /\ UNCHANGED <<output, taken, limits>>

-----------------------------------------------------------------------------
(***************************************************************************)
(* The client and the helper threads.                                      *)
(***************************************************************************)
PipesHeld == client.state = "running" \/ client.helper # "none"

ClientWrites(line) ==
    /\ client.state = "running" /\ Len(output) < MaxClientWrites
    /\ output' = Append(output, line)
    /\ UNCHANGED <<bridge, client, pipes, taken, limits>>

\* A helper in the client's process group, or one that left it.
ClientForks(helper) ==
    /\ client.state = "running" /\ client.helper = "none"
    /\ client' = [client EXCEPT !.helper = helper]
    /\ UNCHANGED <<bridge, pipes, output, taken, limits>>

ClientExits(state) ==
    /\ client.state = "running"
    /\ client' = [client EXCEPT !.state = state]
    /\ UNCHANGED <<bridge, pipes, output, taken, limits>>

HelperEnds ==
    /\ client.helper # "none"
    /\ client' = [client EXCEPT !.helper = "none"]
    /\ UNCHANGED <<bridge, pipes, output, taken, limits>>

\* stdin.write_all: done when the client has taken the prompt, failed when
\* nobody holds the pipe's other end.
WriterEnds ==
    /\ pipes.writer = "busy"
    /\ \/ PipesHeld /\ pipes' = [pipes EXCEPT !.writer = "done"]
       \/ ~PipesHeld /\ pipes' = [pipes EXCEPT !.writer = "failed"]
    /\ UNCHANGED <<bridge, client, output, taken, limits>>

\* read_bounded on stdout.
StdoutReads ==
    /\ pipes.stdout = "busy"
    /\ \/ /\ taken < Len(output) /\ taken' = Len(output)
          /\ pipes' = [pipes EXCEPT !.stdout =
                          IF Len(output) > MaxClientLines THEN "failed" ELSE @]
       \/ /\ taken = Len(output) /\ ~PipesHeld
          /\ pipes' = [pipes EXCEPT !.stdout = "done"]
          /\ UNCHANGED taken
    /\ UNCHANGED <<bridge, client, output, limits>>

StderrReads ==
    /\ pipes.stderr = "busy"
    /\ \/ PipesHeld /\ pipes' = [pipes EXCEPT !.stderr = "failed"]
       \/ ~PipesHeld /\ pipes' = [pipes EXCEPT !.stderr = "done"]
    /\ UNCHANGED <<bridge, client, output, taken, limits>>

RequestCancellation ==
    /\ bridge.pc # "over" /\ ~limits.cancelled /\ limits' = [limits EXCEPT !.cancelled = TRUE]
    /\ UNCHANGED <<bridge, client, pipes, output, taken>>

DeadlinePasses ==
    /\ bridge.pc # "over" /\ ~limits.elapsed /\ limits' = [limits EXCEPT !.elapsed = TRUE]
    /\ UNCHANGED <<bridge, client, pipes, output, taken>>

-----------------------------------------------------------------------------
(***************************************************************************)
(* run_bounded_process.                                                    *)
(***************************************************************************)

\* terminate_process kills the group, then wait() reaps the child.
TerminateProcess ==
    client' = [state |-> IF client.state = "running" THEN "killed" ELSE client.state,
               helper |-> IF client.helper = "grouped" THEN "none" ELSE client.helper]

\* What the client wrote no longer matters.
Abort(result) ==
    /\ TerminateProcess /\ output' = <<>> /\ taken' = 0
    /\ bridge' = [bridge EXCEPT !.pc = "joining", !.result = result]

PollCancellation ==
    /\ bridge.pc = "poll_cancellation"
    /\ \/ limits.cancelled /\ Abort(UnknownError("cancelled", FALSE))
       \/ ~limits.cancelled /\ bridge' = [bridge EXCEPT !.pc = "poll_deadline"]
            /\ UNCHANGED <<client, output, taken>>
    /\ UNCHANGED <<pipes, limits>>

PollDeadline ==
    /\ bridge.pc = "poll_deadline"
    /\ \/ limits.elapsed /\ Abort(UnknownError("timeout", TRUE))
       \/ ~limits.elapsed /\ bridge' = [bridge EXCEPT !.pc = "poll_exit"]
            /\ UNCHANGED <<client, output, taken>>
    /\ UNCHANGED <<pipes, limits>>

PollExit ==
    /\ bridge.pc = "poll_exit"
    /\ \/ /\ client.state # "running"
          /\ bridge' = [bridge EXCEPT !.pc = "collecting"]
          /\ UNCHANGED <<client, output, taken>>
       \/ /\ client.state = "running"
          /\ bridge' = [bridge EXCEPT !.pc = "poll_cancellation"]
          /\ UNCHANGED <<client, output, taken>>
       \/ Abort(UnknownError("unavailable", TRUE))
    /\ UNCHANGED <<pipes, limits>>

\* The threads are joined without a deadline.
Joined == \A p \in DOMAIN pipes : pipes[p] # "busy"

JoinCaptureThreads ==
    /\ bridge.pc = "joining" /\ Joined
    /\ bridge' = Returned(bridge.result)
    /\ UNCHANGED <<client, pipes, output, taken, limits>>

-----------------------------------------------------------------------------
Of(type) == {i \in DOMAIN output : output[i].type = type}
ValueOf(type) == output[CHOOSE i \in Of(type) : output[i].value # "absent"].value

\* normalize_output
NormalizeOutput ==
    IF ValueOf("usage") = "fits" /\ ValueOf("message") \in {"final", "tool"}
    THEN Decided(ValueOf("message"))
    ELSE UnknownError("invalid_response", FALSE)

\* A record that came twice is refused; one without its value is as if it
\* had not come.
Repeated(type) ==
    \E i, j \in Of(type) : i < j /\ output[i].value # "absent"

Present(type) == \E i \in Of(type) : output[i].value # "absent"

\* Mutant of DecodeCodexOutput: the exit status is not looked at.
DecodeCodexOutputAnyStatus ==
    IF Of("malformed") # {} \/ Repeated("message") \/ Repeated("usage")
    THEN UnknownError("invalid_response", FALSE)
    ELSE IF Of("failed") # {} THEN UnknownError("unavailable", TRUE)
    ELSE IF ~Present("message") \/ ~Present("usage")
    THEN UnknownError("invalid_response", FALSE)
    ELSE NormalizeOutput

DecodeCodexOutput ==
    IF Of("malformed") # {} \/ Repeated("message") \/ Repeated("usage")
    THEN UnknownError("invalid_response", FALSE)
    ELSE IF client.state # "exited" \/ Of("failed") # {}
    THEN UnknownError("unavailable", TRUE)
    ELSE IF ~Present("message") \/ ~Present("usage")
    THEN UnknownError("invalid_response", FALSE)
    ELSE NormalizeOutput

CollectOutput ==
    /\ bridge.pc = "collecting" /\ Joined
    /\ bridge' = Returned(
          IF \E p \in DOMAIN pipes : pipes[p] = "failed"
          THEN UnknownError("invalid_response", FALSE)
          ELSE DecodeCodexOutput)
    /\ UNCHANGED <<client, pipes, output, taken, limits>>

ClientNext ==
    \/ CheckRequest \/ StartClient
    \/ \E line \in Lines : ClientWrites(line)
    \/ \E helper \in {"grouped", "escaped"} : ClientForks(helper)
    \/ \E state \in {"exited", "failed"} : ClientExits(state)
    \/ HelperEnds \/ WriterEnds \/ StdoutReads \/ StderrReads
    \/ RequestCancellation \/ DeadlinePasses
    \/ PollCancellation \/ PollDeadline \/ PollExit
    \/ JoinCaptureThreads \/ CollectOutput

-----------------------------------------------------------------------------
(***************************************************************************)
(* Properties.                                                             *)
(***************************************************************************)

\* Type correctness; the schema file exists only while the call runs.
ClientTypeOK ==
    /\ client.state \in {"none", "running", "exited", "failed", "killed"}
    /\ client.helper \in {"none", "grouped", "escaped"}
    /\ taken <= Len(output)
    /\ bridge.schema => bridge.pc \notin {"checking", "over"}
    /\ bridge.pc = "over" => bridge.result # NoClientResult

\* A decision is taken only from a client that read the whole request, ended
\* well, and whose complete output holds one decision and one usage record.
DecisionIsWhole ==
    bridge.result.class = "ok" =>
        /\ client.state = "exited" /\ pipes.writer = "done"
        /\ taken = Len(output) /\ Len(output) <= MaxClientLines
        /\ {output[i].value : i \in Of("message")} \ {"absent"} = {bridge.result.decision}
        /\ Cardinality({i \in Of("message") : output[i].value # "absent"}) = 1
        /\ Of("failed") = {} /\ Of("malformed") = {}
        /\ Cardinality({i \in Of("usage") : output[i].value = "fits"}) = 1

\* Once the call has returned the client itself is dead, and after a
\* cancellation or a deadline so is its process group.
StoppedIsDead ==
    bridge.pc = "over" /\ client.state # "none" =>
        /\ client.state # "running"
        /\ bridge.result.class \in {"cancelled", "timeout"} => client.helper # "grouped"

\* A failure reported as known, which the run may retry, means that no client
\* was ever started.
KnownIsUnstarted ==
    bridge.pc = "over" /\ bridge.result.known /\ bridge.result.class # "ok" =>
        client.state = "none"

\* What one call of a subscription client promises whatever the process does:
\* a decision comes from whole output of a clean exit, a returned call leaves no
\* process, and a known failure means that nothing was started.
ClientSafety ==
  /\ ClientTypeOK
  /\ DecisionIsWhole
  /\ StoppedIsDead
  /\ KnownIsUnstarted
=============================================================================
