------------------------------ MODULE McpSession ------------------------------
(***************************************************************************)
(* Local stdio MCP servers (infrastructure/mcp.rs, application/mcp.rs and  *)
(* the `config mcp' commands).  Every use of a server is a fresh sandboxed *)
(* process driven over its pipes: initialize, a paginated tools/list and,  *)
(* for a call, one tools/call.  A thread reads standard output into a      *)
(* channel, another reads standard error; the host polls the channel.      *)
(***************************************************************************)
EXTENDS Naturals, Sequences, FiniteSets

CONSTANTS
  McpLines,            \* lines a server may write, as records
  McpAllowTools,       \* names the owner may select at `config mcp-add'
  McpReviewed,         \* tool lists an owner may have reviewed before
  McpMaximumMessages, McpMaximumListPages, McpMaximumTools,
  McpCallId,           \* the request id of tools/call, 10_000 in the code
  MaxMcpOutput,        \* bound: lines one server process writes
  MaxMcpAhead,         \* bound: lines written and not yet received by the host
  MaxMcpSessions       \* bound: sessions

VARIABLES
  mcpConfig,   \* the configured server: pins, grants and the enabled flag
  mcpFile,     \* the installed executable: absent, or whether its bytes are the pinned ones
  mcpDaemon,   \* [state, exposed]: the running daemon and the tools it offers
  mcp,         \* the session in progress
  child,       \* the sandboxed process: its state and what it wrote
  pipe,        \* lines written and not yet read by the stdout thread
  channel,     \* reader events not yet received by the host
  readers,     \* the two reader threads and the flag stderr_exceeded
  mcpSessions

mcpVars ==
  <<mcpConfig, mcpFile, mcpDaemon, mcp, child, pipe, channel, readers, mcpSessions>>

Unconfigured == [known |-> FALSE, enabled |-> FALSE, toolset |-> {}, grants |-> {}]
NoSession ==
  [pc |-> "idle", use |-> "none", step |-> "none", page |-> 0, seen |-> {},
   tools |-> <<>>, messages |-> 0, answered |-> <<>>, cancelled |-> FALSE,
   allow |-> {}, outcome |-> "none"]
NoChild == [state |-> "none", input |-> "closed", clean |-> TRUE, lines |-> 0, err |-> "within"]
NoReaders == [out |-> "none", err |-> "none", exceeded |-> FALSE]

-----------------------------------------------------------------------------
\* Definitions, grants and the discovery.

\* inspect_mcp_tool_definition: the name, the bounds and self-contained schemas.
DefinitionInspects(d) == d.supported

\* McpServerDiscovery::validate: at least one tool, and strictly increasing
\* names once the pages are sorted.
DiscoveryValidates(tools) ==
  /\ tools # <<>> /\ Len(tools) <= McpMaximumTools
  /\ \A i, j \in DOMAIN tools : i # j => tools[i].name # tools[j].name

\* McpServerDiscovery::toolset_digest.
Toolset(tools) == {tools[i] : i \in DOMAIN tools}

\* verify_discovery: the complete toolset and each reviewed definition.
VerifyDiscovery(tools) ==
  /\ Toolset(tools) = mcpConfig.toolset
  /\ mcpConfig.grants \subseteq Toolset(tools)

\* McpServerConfig::validate and validate_mcp_server_set, of the one server.
ServerValidates(s) ==
  /\ s.grants # {} /\ Cardinality(s.grants) <= McpMaximumTools
  /\ \A d, e \in s.grants : d.name = e.name => d = e

\* McpToolGrant::new for each selected name; the names are looked up in the
\* discovery.
GrantsFor(tools, allow) == {d \in Toolset(tools) : d.name \in allow}

-----------------------------------------------------------------------------
\* The process.

\* McpStdioEndpoint::new and verify_identity: the bytes have the digest.  At
\* `mcp-add' the digest is that of the file just read.
VerifyIdentity(use) == use = "add" \/ mcpFile = "pinned"

\* What starts a session: the owner's mcp-add or mcp-enable on a stopped home,
\* the daemon's startup, or a read tool call of the serving daemon.
McpStart(use, allow) ==
  /\ mcp.pc = "idle" /\ mcpSessions < MaxMcpSessions
  /\ CASE use = "add" -> mcpDaemon.state = "stopped" /\ ~mcpConfig.known /\ allow # {}
       [] use = "enable" -> mcpDaemon.state = "stopped" /\ mcpConfig.known /\ ~mcpConfig.enabled
       [] use = "load" -> mcpDaemon.state = "stopped" /\ mcpConfig.enabled
       [] use = "call" -> mcpDaemon.state = "serving" /\ mcpDaemon.exposed # {}
  /\ mcpSessions' = mcpSessions + 1
  /\ mcp' = [NoSession EXCEPT !.pc = IF VerifyIdentity(use) THEN "spawn" ELSE "dropped",
                              !.outcome = IF VerifyIdentity(use) THEN "none" ELSE "identity",
                              !.use = use, !.allow = allow]
  /\ mcpDaemon' = [mcpDaemon EXCEPT !.state = IF use = "load" THEN "starting" ELSE @]
  /\ UNCHANGED <<mcpConfig, mcpFile, child, pipe, channel, readers>>

\* McpSession::spawn: a cancelled caller launches nothing.
McpSpawn ==
  /\ mcp.pc = "spawn"
  /\ IF mcp.cancelled
     THEN /\ mcp' = [mcp EXCEPT !.pc = "dropped", !.outcome = "cancelled"]
          /\ UNCHANGED <<child, readers>>
     ELSE /\ mcp' = [mcp EXCEPT !.pc = "write", !.step = "initialize"]
          /\ child' = [NoChild EXCEPT !.state = "running", !.input = "open"]
          /\ readers' = [out |-> "running", err |-> "running", exceeded |-> FALSE]
  /\ UNCHANGED <<mcpConfig, mcpFile, mcpDaemon, pipe, channel, mcpSessions>>

\* The server writes whatever it likes, answers in advance included.
ServerWrites(l) ==
  /\ child.state = "running" /\ child.lines < MaxMcpOutput
  /\ Len(pipe) + Len(channel) < MaxMcpAhead
  /\ child' = [child EXCEPT !.clean = @ /\ l.kind \in {"result", "request", "note"}, !.lines = @ + 1]
  /\ pipe' = IF readers.out = "running" THEN Append(pipe, l) ELSE pipe
  /\ UNCHANGED <<mcpConfig, mcpFile, mcpDaemon, mcp, channel, readers, mcpSessions>>

ServerFloodsStderr ==
  /\ child.state = "running" /\ child.err = "within"
  /\ child' = [child EXCEPT !.err = "over"]
  /\ UNCHANGED <<mcpConfig, mcpFile, mcpDaemon, mcp, pipe, channel, readers, mcpSessions>>

ServerExits(status) ==
  /\ child.state = "running"
  /\ child' = [child EXCEPT !.state = status]
  /\ UNCHANGED <<mcpConfig, mcpFile, mcpDaemon, mcp, pipe, channel, readers, mcpSessions>>

\* read_bounded_line and capture_protocol_lines: a line, a line over its
\* bound, a malformed line, or the end of the output.
CaptureLine ==
  /\ readers.out = "running"
  /\ \/ /\ pipe # <<>>
        /\ channel' = Append(channel, Head(pipe))
        /\ pipe' = IF Head(pipe).kind \in {"long", "malformed"} THEN <<>> ELSE Tail(pipe)
        /\ readers' = [readers EXCEPT !.out = IF Head(pipe).kind \in {"long", "malformed"}
                                              THEN "finished" ELSE @]
     \/ /\ pipe = <<>> /\ child.state \notin {"none", "running"}
        /\ channel' = Append(channel, [kind |-> "eof"])
        /\ readers' = [readers EXCEPT !.out = "finished"]
        /\ UNCHANGED pipe
  /\ UNCHANGED <<mcpConfig, mcpFile, mcpDaemon, mcp, child, mcpSessions>>

\* The stderr thread returns at its bound or at the end of the stream.
CaptureStderr ==
  /\ readers.err = "running"
  /\ child.err = "over" \/ child.state \notin {"none", "running"}
  /\ readers' = [readers EXCEPT !.err = "finished", !.exceeded = child.err = "over"]
  /\ UNCHANGED <<mcpConfig, mcpFile, mcpDaemon, mcp, child, pipe, channel, mcpSessions>>

-----------------------------------------------------------------------------
\* The protocol.

Failing(error) ==
  [NoSession EXCEPT !.pc = "dropping", !.use = mcp.use, !.outcome = error]

\* The id a step's answer must carry.
ExpectedId ==
  CASE mcp.step = "initialize" -> 1
    [] mcp.step = "list" -> mcp.page + 2
    [] mcp.step = "call" -> McpCallId

\* request, notify and write_message: the pipe is broken once the server left.
McpWrite ==
  /\ mcp.pc = "write"
  /\ mcp' = IF child.state = "running" THEN [mcp EXCEPT !.pc = "wait"] ELSE Failing("process")
  /\ UNCHANGED <<mcpConfig, mcpFile, mcpDaemon, child, pipe, channel, readers, mcpSessions>>

\* initialize_and_discover, after the initialize response.
Initialized(l) ==
  IF l.body # "fits" THEN Failing("protocol")
  ELSE [mcp EXCEPT !.pc = "write", !.step = "list", !.answered = Append(@, l.id)]

\* The end of the list: sorted and validated; a call also verifies the pins.
Discovered(tools, l) ==
  LET listed == [mcp EXCEPT !.tools = tools, !.answered = Append(@, l.id)] IN
  CASE ~DiscoveryValidates(tools) -> Failing("protocol")
    [] DiscoveryValidates(tools) /\ mcp.use = "call" ->
         IF VerifyDiscovery(tools) THEN [listed EXCEPT !.pc = "write", !.step = "call"]
         ELSE Failing("drift")
    [] OTHER -> [listed EXCEPT !.pc = "closing", !.outcome = "discovered"]

\* One page of tools/list: its tools, then the cursor, which may not repeat
\* nor outlast the page bound.
Listed(l) ==
  IF Len(mcp.tools) + Len(l.tools) > McpMaximumTools THEN Failing("limit")
  ELSE IF \E i \in DOMAIN l.tools : ~DefinitionInspects(l.tools[i]) THEN Failing("protocol")
  ELSE IF l.next = "none" THEN Discovered(mcp.tools \o l.tools, l)
  ELSE IF l.next \in mcp.seen \/ mcp.page + 1 = McpMaximumListPages THEN Failing("protocol")
  ELSE [mcp EXCEPT !.pc = "write", !.page = @ + 1, !.seen = @ \cup {l.next},
                   !.tools = @ \o l.tools, !.answered = Append(@, l.id)]

\* normalize_tool_result, and the size of the result in McpReadTool::execute.
Called(l) ==
  IF l.body = "invalid" THEN Failing("protocol")
  ELSE [mcp EXCEPT !.pc = "closing", !.answered = Append(@, l.id),
                   !.outcome = IF l.body = "oversized" THEN "too_large" ELSE "called"]

Result(l) ==
  CASE mcp.step = "initialize" -> Initialized(l)
    [] mcp.step = "list" -> Listed(l)
    [] mcp.step = "call" -> Called(l)

\* Mutated form: the id of a response is not compared.
ResponseUnmatched(l) == IF l.kind = "error" THEN Failing("remote") ELSE Result(l)

\* The response branch of wait_for_response, and remote_error.
McpResponse(l) ==
  IF l.id # ExpectedId THEN Failing("protocol")
  ELSE IF l.kind = "error" THEN Failing("remote")
  ELSE Result(l)

\* One turn of the loop of wait_for_response on a received event; a request of
\* the server is answered (a ping, or a refusal) over the pipe.
McpReceive ==
  /\ mcp.pc = "wait" /\ ~mcp.cancelled /\ ~readers.exceeded /\ channel # <<>>
  /\ LET l == Head(channel)
         counted == [mcp EXCEPT !.messages = @ + 1] IN
     mcp' = CASE l.kind \in {"eof", "malformed"} -> Failing("process")
              [] l.kind = "long" -> Failing("limit")
              [] OTHER ->
                 IF mcp.messages + 1 > McpMaximumMessages THEN Failing("limit")
                 ELSE CASE l.kind \in {"result", "error"} ->
                             [McpResponse(l) EXCEPT !.messages = mcp.messages + 1]
                        [] l.kind = "request" ->
                             IF child.state = "running" THEN counted ELSE Failing("process")
                        [] l.kind = "note" -> counted
                        [] l.kind = "list_changed" -> Failing("drift")
                        [] l.kind = "garbage" -> Failing("protocol")
  /\ channel' = Tail(channel)
  /\ UNCHANGED <<mcpConfig, mcpFile, mcpDaemon, child, pipe, readers, mcpSessions>>

\* The other ways out of the loop: the probe, the deadline, the stderr flag,
\* and a process that has gone while nothing was received.
McpGivesUp(error) ==
  /\ mcp.pc = "wait"
  /\ CASE error = "cancelled" -> mcp.cancelled
       [] error = "timeout" -> ~mcp.cancelled
       [] error = "limit" -> ~mcp.cancelled /\ readers.exceeded
       [] error = "process" -> ~mcp.cancelled /\ channel = <<>> /\ child.state # "running"
  /\ mcp' = Failing(error)
  /\ UNCHANGED <<mcpConfig, mcpFile, mcpDaemon, child, pipe, channel, readers, mcpSessions>>

\* Discovery uses NeverCancelled; a call has the run's probe.
McpCancel ==
  /\ mcp.use = "call" /\ mcp.pc \in {"spawn", "write", "wait"} /\ ~mcp.cancelled
  /\ mcp' = [mcp EXCEPT !.cancelled = TRUE]
  /\ UNCHANGED <<mcpConfig, mcpFile, mcpDaemon, child, pipe, channel, readers, mcpSessions>>

-----------------------------------------------------------------------------
\* The end of a session.

\* McpSession::shutdown, on success or from Drop: the input is closed, and a
\* process that outlives the grace period is killed.
McpShutdown ==
  /\ mcp.pc \in {"closing", "dropping"} /\ child.input = "open"
  /\ child' = [child EXCEPT !.input = "closed"]
  /\ UNCHANGED <<mcpConfig, mcpFile, mcpDaemon, mcp, pipe, channel, readers, mcpSessions>>

McpKill ==
  /\ mcp.pc \in {"closing", "dropping"} /\ child.input = "closed" /\ child.state = "running"
  /\ child' = [child EXCEPT !.state = "killed"]
  /\ UNCHANGED <<mcpConfig, mcpFile, mcpDaemon, mcp, pipe, channel, readers, mcpSessions>>

McpJoined == readers.out = "finished" /\ readers.err = "finished"

\* validate_trailing_output: only notifications, within the count, up to EOF;
\* the first offending event decides.
Trailing ==
  LET Over(i) == channel[i].kind = "long"
                   \/ (channel[i].kind \notin {"eof", "malformed"}
                        /\ mcp.messages + i > McpMaximumMessages)
      Bad(i) == channel[i].kind \notin {"note", "eof"} \/ Over(i)
      bad == {i \in DOMAIN channel : Bad(i)} IN
  IF bad = {} THEN IF channel = <<>> THEN "process" ELSE "ok"
  ELSE IF Over(CHOOSE i \in bad : \A j \in bad : i <= j) THEN "limit" ELSE "protocol"

\* The checks after both threads are joined; a session that was already
\* failing keeps its error.
FinalCheck ==
  CASE mcp.pc = "dropping" -> mcp.outcome
    [] mcp.pc = "closing" ->
         IF readers.exceeded THEN "limit"
         ELSE IF Trailing # "ok" THEN Trailing
         ELSE IF child.state = "exited_ok" THEN mcp.outcome ELSE "process"

McpJoin ==
  /\ mcp.pc \in {"closing", "dropping"} /\ child.input = "closed"
  /\ child.state # "running" /\ McpJoined
  /\ mcp' = [mcp EXCEPT !.pc = "dropped", !.outcome = FinalCheck]
  /\ UNCHANGED <<mcpConfig, mcpFile, mcpDaemon, child, pipe, channel, readers, mcpSessions>>

\* configure_mcp_add: grants for the selected names, the executable installed,
\* the server published enabled.
AddServer ==
  LET s == [known |-> TRUE, enabled |-> TRUE, toolset |-> Toolset(mcp.tools),
            grants |-> GrantsFor(mcp.tools, mcp.allow)] IN
  IF /\ mcp.outcome = "discovered" /\ mcpFile # "changed"
     /\ \A n \in mcp.allow : \E d \in Toolset(mcp.tools) : d.name = n
     /\ ServerValidates(s)
  THEN mcpConfig' = s /\ mcpFile' = "pinned"
  ELSE UNCHANGED <<mcpConfig, mcpFile>>

\* load_mcp_read_tools: every grant of a verified server, or no start at all.
LoadedDaemon ==
  IF mcp.outcome = "discovered" /\ VerifyDiscovery(mcp.tools)
  THEN [state |-> "serving", exposed |-> mcpConfig.grants]
  ELSE [state |-> "stopped", exposed |-> {}]

\* The caller's use of the session's result.
McpFinish ==
  /\ mcp.pc = "dropped"
  /\ CASE mcp.use = "add" -> AddServer /\ UNCHANGED mcpDaemon
       [] mcp.use = "enable" ->
            /\ mcpConfig' = [mcpConfig EXCEPT !.enabled =
                 mcp.outcome = "discovered" /\ VerifyDiscovery(mcp.tools)]
            /\ UNCHANGED <<mcpFile, mcpDaemon>>
       [] mcp.use = "load" -> mcpDaemon' = LoadedDaemon /\ UNCHANGED <<mcpConfig, mcpFile>>
       [] mcp.use = "call" -> UNCHANGED <<mcpConfig, mcpFile, mcpDaemon>>
  /\ mcp' = NoSession /\ child' = NoChild /\ readers' = NoReaders
  /\ pipe' = <<>> /\ channel' = <<>>
  /\ UNCHANGED mcpSessions

\* The daemon stops; disable and revoke need a stopped home and keep the file.
McpDaemonStops ==
  /\ mcpDaemon.state = "serving" /\ mcp.pc = "idle"
  /\ mcpDaemon' = [state |-> "stopped", exposed |-> {}]
  /\ UNCHANGED <<mcpConfig, mcpFile, mcp, child, pipe, channel, readers, mcpSessions>>

McpDisable ==
  /\ mcpDaemon.state = "stopped" /\ mcp.pc = "idle" /\ mcpConfig.enabled
  /\ mcpConfig' = [mcpConfig EXCEPT !.enabled = FALSE]
  /\ UNCHANGED <<mcpFile, mcpDaemon, mcp, child, pipe, channel, readers, mcpSessions>>

McpRevoke ==
  /\ mcpDaemon.state = "stopped" /\ mcp.pc = "idle" /\ mcpConfig.known
  /\ mcpConfig' = Unconfigured
  /\ UNCHANGED <<mcpFile, mcpDaemon, mcp, child, pipe, channel, readers, mcpSessions>>

\* Environment: the installed bytes change.  A change between verify_identity
\* and spawn is not told apart, the process may answer anything as it is.
McpFileChanges ==
  /\ mcpFile = "pinned" /\ mcp.pc = "idle"
  /\ mcpFile' = "changed"
  /\ UNCHANGED <<mcpConfig, mcpDaemon, mcp, child, pipe, channel, readers, mcpSessions>>

-----------------------------------------------------------------------------

\* No server, or one added and enabled by an earlier mcp-add.
McpInit ==
  /\ mcpConfig \in {Unconfigured} \cup
       {[known |-> TRUE, enabled |-> TRUE, toolset |-> Toolset(tools),
         grants |-> GrantsFor(tools, allow)] : tools \in McpReviewed, allow \in McpAllowTools}
  /\ mcpFile = IF mcpConfig.known THEN "pinned" ELSE "absent"
  /\ mcpDaemon = [state |-> "stopped", exposed |-> {}]
  /\ mcp = NoSession /\ child = NoChild /\ readers = NoReaders
  /\ pipe = <<>> /\ channel = <<>> /\ mcpSessions = 0

McpNext ==
  \/ \E a \in McpAllowTools : McpStart("add", a)
  \/ \E u \in {"enable", "load", "call"} : McpStart(u, {})
  \/ McpSpawn \/ McpWrite \/ McpReceive \/ McpCancel
  \/ \E e \in {"cancelled", "timeout", "limit", "process"} : McpGivesUp(e)
  \/ \E l \in McpLines : ServerWrites(l)
  \/ ServerFloodsStderr \/ \E s \in {"exited_ok", "exited_bad"} : ServerExits(s)
  \/ CaptureLine \/ CaptureStderr
  \/ McpShutdown \/ McpKill \/ McpJoin \/ McpFinish
  \/ McpDaemonStops \/ McpDisable \/ McpRevoke \/ McpFileChanges
-----------------------------------------------------------------------------

McpOutcomes ==
  {"none", "identity", "cancelled", "timeout", "limit", "process", "protocol", "drift",
   "remote", "discovered", "called", "too_large"}

\* The session follows its pcs, and holds no more than the bounds of mcp.rs.
McpTypeOK ==
  /\ mcp.pc \in {"idle", "spawn", "write", "wait", "closing", "dropping", "dropped"}
  /\ mcp.outcome \in McpOutcomes
  /\ mcp.page < McpMaximumListPages /\ mcp.messages <= McpMaximumMessages
  /\ Len(mcp.tools) <= McpMaximumTools
  /\ mcpFile \in {"absent", "pinned", "changed"}
  /\ mcpDaemon.state \in {"stopped", "starting", "serving"}

\* tools/call is only sent in a session whose complete tool list reproduced the
\* owner's pins, whatever the server listed at review or at startup.
CallIsReviewed ==
  mcp.step = "call" => /\ mcpConfig.enabled /\ Toolset(mcp.tools) = mcpConfig.toolset
                       /\ mcpDaemon.exposed \subseteq Toolset(mcp.tools)

\* A serving daemon exposes exactly the reviewed definitions of an enabled
\* server, although the server chooses its list anew in every process.
ExposedIsReviewed ==
  mcpDaemon.exposed # {} => mcpConfig.enabled /\ mcpDaemon.exposed = mcpConfig.grants

\* A result is only reported after the whole output has been judged: a stderr
\* flood, a late list_changed or a second response never loses the race
\* against the reader threads (the comment in McpSession::shutdown).
SuccessIsClean ==
  mcp.pc = "dropped" /\ mcp.outcome \in {"discovered", "called", "too_large"} =>
    /\ child.state = "exited_ok" /\ child.err = "within" /\ child.clean

\* The answers a session used are those of its own requests, one each and in
\* their order, although a server may answer early, twice or out of turn.
AnswersInOrder ==
  \A i \in DOMAIN mcp.answered :
    mcp.answered[i] = i \/ (i = Len(mcp.answered) /\ mcp.answered[i] = McpCallId)

\* However a session ends, its process is gone and both threads are joined.
NoProcessLeft ==
  mcp.pc = "dropped" => /\ child.state # "running" /\ child.input = "closed"
                        /\ readers.out # "running" /\ readers.err # "running"

\* What a session with an MCP server promises whatever the server writes: calls
\* and exposed tools are the reviewed ones, a success had clean output, answers
\* match requests, and no process is left.
McpSafety ==
  /\ McpTypeOK
  /\ CallIsReviewed
  /\ ExposedIsReviewed
  /\ SuccessIsClean
  /\ AnswersInOrder
  /\ NoProcessLeft
=============================================================================
