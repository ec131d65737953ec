------------------------------ MODULE Dashboard ------------------------------
(* The loopback dashboard (mealyctl/src/dashboard.rs): a foreground adapter   *)
(* between a browser page and the daemon.  It runs one command at a time.  A  *)
(* memory or extension command first reads the row it is about and answers    *)
(* by itself when the row shows that the command is already done, or can no   *)
(* longer be; other commands go straight to the daemon.  Every request has a  *)
(* deadline: past it the page is told nothing is known, the permit is free    *)
(* again, and the daemon may still be working on what was posted.             *)
EXTENDS Integers, Sequences, FiniteSets

CONSTANTS DashCommands,                      \* the commands the page may send
          MaxRequests, MaxSends, MaxOthers   \* bounds: requests, deliveries, changes by other clients

VARIABLES rows,       \* row -> its states, one for every revision
          keyed,      \* requests whose key the daemon has recorded
          proposals,  \* memories proposed, by the request in their provenance
          requests,   \* what the page asked for, in order
          dash,       \* the command the adapter runs
          flights,    \* posted and not yet handled: <<request, delivery>>
          sends, otherChanges

dashVars == <<rows, keyed, proposals, requests, dash, flights, sends, otherChanges>>

(***************************************************************************)
(* The commands: the row each is about, the statuses it starts from, the    *)
(* status it leads to, whether the adapter reads the row first and whether  *)
(* the daemon fences it by the expected revision.                           *)
(***************************************************************************)
RowCommand(op, row, from, to) ==
  [op |-> op, kind |-> "row", row |-> row, from |-> from, to |-> to, pin |-> "keep",
   sourced |-> FALSE, preflight |-> row \in {"memory", "extension"}, fenced |-> TRUE]

TitleCommand == RowCommand("title", "session", {"open"}, "open")
SelectionCommand == RowCommand("selection", "session", {"open"}, "open")
CheckpointCommand == RowCommand("checkpoint", "session", {"open"}, "open")

\* schedule_lifecycle with its three actions.
PauseCommand == RowCommand("pause", "schedule", {"active"}, "paused")
ResumeCommand == RowCommand("resume", "schedule", {"paused"}, "active")
CancelCommand == RowCommand("cancel", "schedule", {"active", "paused"}, "cancelled")

\* Activation names a revision of the memory and is fenced by its status only.
ActivateCommand ==
  [RowCommand("activate", "memory", {"proposed"}, "active") EXCEPT !.fenced = FALSE]
CorrectCommand ==
  [RowCommand("correct", "memory", {"active"}, "active") EXCEPT !.sourced = TRUE]
PinCommand(pin) == [RowCommand(pin, "memory", {"active"}, "active") EXCEPT !.pin = pin]
ExpireCommand == RowCommand("expire", "memory", {"active"}, "expired")
RejectCommand == RowCommand("reject", "memory", {"proposed"}, "rejected")
DeleteCommand ==
  RowCommand("delete", "memory", {"proposed", "active", "expired", "rejected"}, "deleted")

EnableCommand ==
  RowCommand("enable", "extension", {"installed", "disabled", "failed"}, "enabled")
DisableCommand == RowCommand("disable", "extension", {"enabled"}, "disabled")
RevokeCommand ==
  RowCommand("revoke", "extension", {"installed", "enabled", "disabled", "failed"}, "revoked")

\* Commands the daemon itself remembers by their key.
KeyedCommand(op) == [RowCommand(op, "none", {}, "none") EXCEPT !.kind = "keyed"]
InputCommand == KeyedCommand("input")
ApprovalCommand == KeyedCommand("approval")
CancelTaskCommand == KeyedCommand("task_cancel")
ReconcileCommand == KeyedCommand("reconcile")
ForkCommand == KeyedCommand("fork")
CreateScheduleCommand == KeyedCommand("schedule_create")

\* A proposal is found again by the source locator derived from its key.
ProposeCommand ==
  [RowCommand("propose", "memory", {}, "proposed") EXCEPT !.kind = "propose", !.fenced = FALSE]

Snapshot(status) == [status |-> status, pinned |-> FALSE, source |-> 0]
IdleDash == [at |-> "idle", request |-> 0, delivery |-> 0, reply |-> "none"]

DashInit ==
  /\ rows = [session |-> <<Snapshot("open")>>, schedule |-> <<Snapshot("active")>>,
             memory |-> <<Snapshot("proposed")>>, extension |-> <<Snapshot("installed")>>]
  /\ keyed = {} /\ proposals = <<>> /\ requests = <<>>
  /\ dash = IdleDash /\ flights = {} /\ sends = 0 /\ otherChanges = 0

Revision(row) == Len(rows[row]) - 1
Now(row) == rows[row][Len(rows[row])]

\* memory_matches_correction, and the retention a pin asks for.
Shows(c, i, state) ==
  /\ state.status = c.to
  /\ c.sourced => state.source = i
  /\ c.pin # "keep" => state.pinned = (c.pin = "pin")

ProposedBy(i) == {k \in DOMAIN proposals : proposals[k] = i}

\* The daemon's own fence: the expected revision and the status.
DaemonFence(c, expected) ==
  /\ c.fenced => Revision(c.row) = expected
  /\ Now(c.row).status \in c.from

Changed(c, i) ==
  LET now == Now(c.row)
  IN [status |-> c.to, source |-> IF c.sourced THEN i ELSE now.source,
      pinned |-> IF c.pin = "keep" THEN now.pinned ELSE c.pin = "pin"]

Write(c, i) == rows' = [rows EXCEPT ![c.row] = Append(@, Changed(c, i))]

\* The response is checked for the state asked for, one revision on.
ReplyTo(c, i, expected) ==
  IF Revision(c.row) = expected /\ Shows(c, i, Changed(c, i)) THEN "ok" ELSE "protocol"

Awaited(f) == dash.at = "wait" /\ dash.request = f[1] /\ dash.delivery = f[2]

Deliver(f, reply) ==
  /\ flights' = flights \ {f}
  /\ dash' = IF Awaited(f) THEN [dash EXCEPT !.at = "reply", !.reply = reply] ELSE dash

CountApplied(i) == requests' = [requests EXCEPT ![i].applied = @ + 1]

HandleRow(f) ==
  LET i == f[1]  c == requests[i].command  expected == requests[i].expected
  IN /\ f \in flights /\ c.kind = "row"
     /\ IF DaemonFence(c, expected)
        THEN Write(c, i) /\ CountApplied(i) /\ Deliver(f, ReplyTo(c, i, expected))
        ELSE UNCHANGED <<rows, requests>> /\ Deliver(f, "conflict")
     /\ UNCHANGED <<keyed, proposals, sends, otherChanges>>

HandleKeyed(f) ==
  LET i == f[1]
  IN /\ f \in flights /\ requests[i].command.kind = "keyed"
     /\ keyed' = keyed \cup {i}
     /\ IF i \in keyed THEN UNCHANGED requests ELSE CountApplied(i)
     /\ Deliver(f, "ok")
     /\ UNCHANGED <<rows, proposals, sends, otherChanges>>

\* The daemon gives every proposal an identity of its own.
HandleProposal(f) ==
  LET i == f[1]
  IN /\ f \in flights /\ requests[i].command.kind = "propose"
     /\ proposals' = Append(proposals, i)
     /\ CountApplied(i)
     /\ Deliver(f, "ok")
     /\ UNCHANGED <<rows, keyed, sends, otherChanges>>

\* Another client of the owner changes a row from its current revision.
OtherClient(c) ==
  /\ otherChanges < MaxOthers /\ c.kind = "row" /\ Now(c.row).status \in c.from
  /\ \E i \in DOMAIN requests : requests[i].command.row = c.row
  /\ Write(c, 0)
  /\ otherChanges' = otherChanges + 1
  /\ UNCHANGED <<keyed, proposals, requests, dash, flights, sends>>

(***************************************************************************)
(* The adapter.                                                             *)
(***************************************************************************)
\* One command permit; a command that finds it taken is refused unchanged.
Begin(i, c) ==
  /\ dash.at = "idle" /\ sends < MaxSends
  /\ sends' = sends + 1
  /\ dash' = [IdleDash EXCEPT !.at = IF c.preflight THEN "read" ELSE "post",
                              !.request = i, !.delivery = sends + 1]

\* The revision the page shows: any the row has had.
Rendered(c) == IF c.kind = "row" THEN 0..Revision(c.row) ELSE {0}

SendCommand(c, expected) ==
  /\ Len(requests) < MaxRequests
  /\ Begin(Len(requests) + 1, c)
  /\ requests' = Append(requests, [command |-> c, expected |-> expected, applied |-> 0,
                                   answers |-> {}, late |-> FALSE])
  /\ UNCHANGED <<rows, keyed, proposals, flights, otherChanges>>

\* The page delivers an earlier request again, with its key and its revision.
RetryCommand(i) ==
  /\ Begin(i, requests[i].command)
  /\ requests' = [requests EXCEPT ![i].late = @ \/ \E f \in flights : f[1] = i]
  /\ UNCHANGED <<rows, keyed, proposals, flights, otherChanges>>

Answer(i, answer) ==
  /\ requests' = [requests EXCEPT ![i].answers = @ \cup {answer}]
  /\ dash' = IdleDash

AlreadyAtExpected(c, i, expected) == Revision(c.row) = expected /\ Shows(c, i, Now(c.row))

\* The row shows the command's own result, one revision after the expected one.
Already(c, i, expected) == Revision(c.row) = expected + 1 /\ Shows(c, i, Now(c.row))

SourcePresent(i) == \E k \in DOMAIN rows["memory"] : rows["memory"][k].source = i

Stale(c, i, expected) ==
  \/ Revision(c.row) # expected
  \/ Now(c.row).status \notin c.from
  \/ c.sourced /\ SourcePresent(i)

RowDecision(c, i, expected) ==
  IF Already(c, i, expected) THEN "ok"
  ELSE IF Stale(c, i, expected) THEN "conflict" ELSE "post"

ProposalDecision(i) ==
  CASE Cardinality(ProposedBy(i)) > 1 -> "protocol"
    [] Cardinality(ProposedBy(i)) = 1 -> "ok"
    [] OTHER -> "post"

Preflight ==
  /\ dash.at = "read"
  /\ LET i == dash.request  c == requests[i].command
         decision == IF c.kind = "propose" THEN ProposalDecision(i)
                     ELSE RowDecision(c, i, requests[i].expected)
     IN IF decision = "post"
        THEN dash' = [dash EXCEPT !.at = "post"] /\ UNCHANGED requests
        ELSE Answer(i, decision)
  /\ UNCHANGED <<rows, keyed, proposals, flights, sends, otherChanges>>

PostToDaemon ==
  /\ dash.at = "post"
  /\ flights' = flights \cup {<<dash.request, dash.delivery>>}
  /\ dash' = [dash EXCEPT !.at = "wait"]
  /\ UNCHANGED <<rows, keyed, proposals, requests, sends, otherChanges>>

ReceiveReply ==
  /\ dash.at = "reply"
  /\ Answer(dash.request, dash.reply)
  /\ UNCHANGED <<rows, keyed, proposals, flights, sends, otherChanges>>

AmbiguousAnswer == "unknown"

\* The client's deadline passes, or the connection breaks: nothing is known.
GiveUp ==
  /\ dash.at \in {"read", "wait", "reply"}
  /\ Answer(dash.request, AmbiguousAnswer)
  /\ UNCHANGED <<rows, keyed, proposals, flights, sends, otherChanges>>

\* A post nobody waits for may never have reached the daemon.
LosePost(f) ==
  /\ f \in flights /\ ~Awaited(f)
  /\ flights' = flights \ {f}
  /\ UNCHANGED <<rows, keyed, proposals, requests, dash, sends, otherChanges>>

DashNext ==
  \/ \E c \in DashCommands :
       OtherClient(c) \/ \E expected \in Rendered(c) : SendCommand(c, expected)
  \/ \E i \in DOMAIN requests : RetryCommand(i)
  \/ \E f \in flights : HandleRow(f) \/ HandleKeyed(f) \/ HandleProposal(f) \/ LosePost(f)
  \/ Preflight \/ PostToDaemon \/ ReceiveReply \/ GiveUp

(***************************************************************************)
(* Properties                                                               *)
(***************************************************************************)
\* Types; a reply is held only for the delivery that waits for it.
DashTypeOK ==
  /\ dash.at \in {"idle", "read", "post", "wait", "reply"}
  /\ dash.at = "reply" => dash.reply # "none" /\ <<dash.request, dash.delivery>> \notin flights
  /\ dash.at = "wait" => <<dash.request, dash.delivery>> \in flights
  /\ \A i \in DOMAIN requests :
       requests[i].answers \subseteq {"ok", "conflict", "unknown", "protocol"}

\* A request changes the daemon's state at most once, however often the page
\* delivers it, whichever answers were lost and whatever other clients did.  A
\* proposal has only the adapter's list to be recognised by: it is exempt when it
\* was sent again while an earlier post of it was still under way.
AppliedOnce ==
  \A i \in DOMAIN requests :
    \/ requests[i].applied <= 1
    \/ requests[i].command.kind = "propose" /\ requests[i].late

\* Success is told only of a change that stands in the row's history, one
\* revision after the one the page had rendered.
OkIsTrue ==
  \A i \in DOMAIN requests :
    LET r == requests[i]
    IN "ok" \in r.answers =>
         CASE r.command.kind = "row" ->
                /\ Len(rows[r.command.row]) >= r.expected + 2
                /\ Shows(r.command, i, rows[r.command.row][r.expected + 2])
           [] r.command.kind = "keyed" -> i \in keyed
           [] OTHER -> ProposedBy(i) # {}

\* A request only ever refused as stale, with nothing left under way, changed
\* nothing: the page may drop it.
RefusedIsUnapplied ==
  \A i \in DOMAIN requests :
    /\ requests[i].answers = {"conflict"}
    /\ \A f \in flights : f[1] # i
    /\ dash.request # i
    => requests[i].applied = 0

\* The daemon's answers never surprise the adapter: what is applied is applied
\* one revision after the expected one, also for an activation, which the daemon
\* does not fence by revision.
NoProtocolError ==
  \A i \in DOMAIN requests :
    "protocol" \in requests[i].answers =>
      requests[i].command.kind = "propose" /\ requests[i].late

\* What the dashboard promises when answers are lost and another client acts: a
\* command is applied once, a success is true, a refusal left nothing applied,
\* and the daemon's answer is always one the page understands.
DashboardSafety ==
  /\ DashTypeOK
  /\ AppliedOnce
  /\ OkIsTrue
  /\ RefusedIsUnapplied
  /\ NoProtocolError
=============================================================================
