----------------------------- MODULE ChatClient -----------------------------
(* The interactive chat of the command-line client (run_chat and its          *)
(* watchers in mealyctl/src/main.rs) against one session.  Every input the    *)
(* owner sends is followed by a watcher of its own: it submits the input with *)
(* retries, polls the timeline until the input is promoted or steered, and    *)
(* polls the promoted task until it ends, showing approvals it waits for.     *)
(* Closing the chat stops the watchers; resuming it reads the session's       *)
(* status, scans the retained timeline and starts watchers for open work.     *)
EXTENDS Integers, Sequences, FiniteSets, SequencesExt, FiniteSetsExt

CONSTANTS ChatInputs,       \* lines the owner sends, numbered in order
          ApprovingInputs,  \* the ones whose turns ask for approvals
          SteeringInputs,   \* the ones delivered by steering the active turn
          ChatPage,         \* events of one timeline page
          TrackedTurns,     \* watchers one chat runs at most
          MaxAttempts,      \* submissions of one input
          MaxResumes, MaxApprovals   \* bounds of the instance

VARIABLES chLog,      \* timeline: events about inputs
          inputs,     \* input -> its durable state
          chat,       \* the chat process
          watchers,   \* input -> its watcher
          resumes     \* chats opened so far

chatVars == <<chLog, inputs, chat, watchers, resumes>>

NoInput == 0
NoWatcher == [at |-> "none", after |-> 0, attempts |-> 0, promoted |-> FALSE, rendered |-> {}]
NewInput == [state |-> "none", approval |-> 0, waiting |-> FALSE, accepted |-> 0]
ClosedChat == [at |-> "closed", active |-> NoInput, latest |-> 0, after |-> 0,
               pending |-> {}, found |-> NoInput, blind |-> FALSE]

ChatInit ==
  /\ chLog = <<>>
  /\ inputs = [i \in ChatInputs |-> NewInput]
  /\ chat = [ClosedChat EXCEPT !.at = "open"]
  /\ watchers = [i \in ChatInputs |-> NoWatcher]
  /\ resumes = 0

InputsIn(state) == {i \in ChatInputs : inputs[i].state = state}
ChatEvent(type, i) == [type |-> type, input |-> i]
OldestPending(i) == /\ i \in InputsIn("pending")
                    /\ \A j \in InputsIn("pending") : inputs[i].accepted <= inputs[j].accepted

(***************************************************************************)
(* The daemon's side.                                                       *)
(***************************************************************************)
\* Promotion commits input.promoted and, caused by it, task.created together.
PromoteInput(i) ==
  /\ OldestPending(i) /\ InputsIn("active") = {}
  /\ chLog' = chLog \o <<ChatEvent("promoted", i), ChatEvent("created", i)>>
  /\ inputs' = [inputs EXCEPT ![i].state = "active"]
  /\ UNCHANGED <<chat, watchers, resumes>>

SteerInput(i) ==
  /\ OldestPending(i) /\ i \in SteeringInputs /\ InputsIn("active") # {}
  /\ chLog' = Append(chLog, ChatEvent("steered", i))
  /\ inputs' = [inputs EXCEPT ![i].state = "steered"]
  /\ UNCHANGED <<chat, watchers, resumes>>

TaskWaits(i) ==
  /\ inputs[i].state = "active" /\ ~inputs[i].waiting
  /\ i \in ApprovingInputs /\ inputs[i].approval < MaxApprovals
  /\ inputs' = [inputs EXCEPT ![i].waiting = TRUE, ![i].approval = @ + 1]
  /\ UNCHANGED <<chLog, chat, watchers, resumes>>

EndTask(i) ==
  /\ inputs[i].state = "active" /\ ~inputs[i].waiting
  /\ inputs' = [inputs EXCEPT ![i].state = "done"]
  /\ UNCHANGED <<chLog, chat, watchers, resumes>>

\* One page of the timeline after a cursor, and whether more follow.
ChatPageAfter(after) == SubSeq(chLog, after + 1, Min({Len(chLog), after + ChatPage}))
HasMore(after) == Len(chLog) > after + ChatPage

(***************************************************************************)
(* Sending.                                                                 *)
(***************************************************************************)
LiveWatchers == {i \in ChatInputs : watchers[i].at \in {"submit", "task", "result"}}

SendLine(i) ==
  /\ chat.at = "open" /\ inputs[i] = NewInput /\ watchers[i] = NoWatcher
  /\ \A j \in ChatInputs : j < i => inputs[j] # NewInput \/ watchers[j] # NoWatcher
  /\ Cardinality(LiveWatchers) < TrackedTurns
  /\ watchers' = [watchers EXCEPT ![i].at = "submit"]
  /\ UNCHANGED <<chLog, inputs, chat, resumes>>

Admit(i) ==
  IF inputs[i].state = "none"
  THEN /\ chLog' = Append(chLog, ChatEvent("accepted", i))
       /\ inputs' = [inputs EXCEPT ![i].state = "pending", ![i].accepted = Len(chLog) + 1]
  ELSE UNCHANGED <<chLog, inputs>>

\* A retry that failed for the last time gives up on the input.
Retried(i) ==
  [watchers EXCEPT ![i] = IF @.attempts + 1 = MaxAttempts
                          THEN [NoWatcher EXCEPT !.at = "failed"]
                          ELSE [@ EXCEPT !.attempts = @ + 1]]

Answered(i) ==
  [watchers EXCEPT ![i] = [NoWatcher EXCEPT !.at = "task", !.after = inputs'[i].accepted]]

SubmitInput(i, outcome) ==
  /\ watchers[i].at = "submit"
  /\ CASE outcome = "answered" -> Admit(i) /\ watchers' = Answered(i)
       [] outcome = "lost" -> Admit(i) /\ watchers' = Retried(i)
       [] outcome = "unreached" -> UNCHANGED <<chLog, inputs>> /\ watchers' = Retried(i)
  /\ UNCHANGED <<chat, resumes>>

(***************************************************************************)
(* Watching.                                                                *)
(***************************************************************************)
\* wait_for_chat_task over one page, event by event: steering ends the watch,
\* the task caused by the noted promotion starts the next phase at its cursor.
ObserveTask(w, i, page) ==
  LET hit(k) ==
        \/ page[k] = ChatEvent("steered", i)
        \/ /\ page[k] = ChatEvent("created", i)
           /\ w.promoted \/ \E j \in 1..(k - 1) : page[j] = ChatEvent("promoted", i)
      hits == {k \in DOMAIN page : hit(k)}
      promoted == w.promoted \/ \E k \in DOMAIN page : page[k] = ChatEvent("promoted", i)
  IN IF hits = {}
     THEN [w EXCEPT !.after = @ + Len(page), !.promoted = promoted]
     ELSE LET k == Min(hits)
          IN [NoWatcher EXCEPT !.at = IF page[k].type = "steered" THEN "steered" ELSE "result",
                               !.after = w.after + k]

PollTask(i) ==
  /\ chat.at = "open" /\ watchers[i].at = "task" /\ watchers[i].after < Len(chLog)
  /\ watchers' = [watchers EXCEPT ![i] = ObserveTask(@, i, ChatPageAfter(watchers[i].after))]
  /\ UNCHANGED <<chLog, inputs, chat, resumes>>

RenderedApprovals(w, i) == w.rendered \cup {inputs[i].approval}

\* wait_for_chat_result: the progress events up to the newest one are shown (and
\* left out here), then the task itself is read.
PollResult(i) ==
  /\ chat.at = "open" /\ watchers[i].at = "result"
  /\ watchers' = [watchers EXCEPT ![i] =
       IF inputs[i].state = "done" THEN [NoWatcher EXCEPT !.at = "finished"]
       ELSE [@ EXCEPT !.rendered =
               IF inputs[i].waiting THEN RenderedApprovals(watchers[i], i) ELSE @]]
  /\ watchers' # watchers
  /\ UNCHANGED <<chLog, inputs, chat, resumes>>

\* The owner decides an approval the chat has shown.
ResolveApproval(i) ==
  /\ chat.at = "open" /\ inputs[i].waiting /\ inputs[i].approval \in watchers[i].rendered
  /\ inputs' = [inputs EXCEPT ![i].waiting = FALSE]
  /\ UNCHANGED <<chLog, chat, watchers, resumes>>

(***************************************************************************)
(* Closing and resuming.                                                    *)
(***************************************************************************)
\* The watchers are aborted; what they had reported stays reported.
CloseChat ==
  /\ chat.at = "open" /\ resumes < MaxResumes
  /\ chat' = ClosedChat
  /\ watchers' = [i \in ChatInputs |->
       IF i \in LiveWatchers THEN NoWatcher ELSE watchers[i]]
  /\ UNCHANGED <<chLog, inputs, resumes>>

\* The session's status is read first.
ReadChatStatus ==
  /\ chat.at = "closed"
  /\ resumes' = resumes + 1
  /\ chat' = [ClosedChat EXCEPT !.at = "scan", !.latest = Len(chLog),
                !.active = IF InputsIn("active") = {} THEN NoInput
                           ELSE CHOOSE i \in InputsIn("active") : TRUE]
  /\ UNCHANGED <<chLog, inputs, watchers>>

\* observe_resumable_chat_event over one page.
ObservePage(c, page) ==
  LET of(types) == {page[k].input : k \in {k \in DOMAIN page : page[k].type \in types}}
  IN [c EXCEPT !.after = @ + Len(page),
               !.pending = (@ \cup of({"accepted"})) \ of({"promoted", "steered"}),
               !.found = IF c.active \in of({"created"}) THEN c.active ELSE @]

ScanPage ==
  /\ chat.at = "scan" /\ HasMore(chat.after)
  /\ chat' = ObservePage(chat, ChatPageAfter(chat.after))
  /\ UNCHANGED <<chLog, inputs, watchers, resumes>>

\* The first `room' of the pending inputs, oldest first.
FirstPending(pending, room) ==
  {i \in pending : Cardinality({j \in pending : inputs[j].accepted < inputs[i].accepted}) < room}

\* start_resumed_chat_watchers: the active task is followed from the status'
\* cursor, a pending input from its acceptance.
ResumedWatchers(c) ==
  LET tasks == {c.found} \ {NoInput}
      queued == FirstPending(c.pending, TrackedTurns - Cardinality(tasks))
  IN [i \in ChatInputs |->
       IF i \in tasks THEN [NoWatcher EXCEPT !.at = "result", !.after = c.latest]
       ELSE IF i \in queued THEN [NoWatcher EXCEPT !.at = "task", !.after = inputs[i].accepted]
       ELSE watchers[i]]

LastScannedFirst == TRUE
LastScanned == ~HasMore(chat.after)

\* The last page ends the scan and starts the watchers.
FinishScan ==
  /\ chat.at = "scan" /\ LastScanned
  /\ LET c == ObservePage(chat, ChatPageAfter(chat.after))
     IN /\ chat' = [ClosedChat EXCEPT !.at = "open"]
        /\ watchers' = ResumedWatchers(c)
  /\ UNCHANGED <<chLog, inputs, resumes>>

\* A failed request, or a history beyond CHAT_MAXIMUM_RESUME_EVENTS: the owner is
\* told that existing work could not be rediscovered and the chat opens without.
ScanFails ==
  /\ chat.at = "scan"
  /\ chat' = [ClosedChat EXCEPT !.at = "open", !.blind = TRUE]
  /\ UNCHANGED <<chLog, inputs, watchers, resumes>>

ChatNext ==
  \/ \E i \in ChatInputs :
       \/ PromoteInput(i) \/ SteerInput(i) \/ TaskWaits(i) \/ EndTask(i)
       \/ SendLine(i) \/ PollTask(i) \/ PollResult(i) \/ ResolveApproval(i)
       \/ \E outcome \in {"answered", "lost", "unreached"} : SubmitInput(i, outcome)
  \/ CloseChat \/ ReadChatStatus \/ ScanPage \/ FinishScan \/ ScanFails

\* The daemon promotes, steers and ends turns, the owner decides what the chat
\* shows, and the chat's runtime polls its watchers and finishes its scan.
ChatFairness ==
  /\ WF_chatVars(ReadChatStatus) /\ WF_chatVars(ScanPage) /\ WF_chatVars(FinishScan)
  /\ \A i \in ChatInputs :
       /\ WF_chatVars(PromoteInput(i) \/ SteerInput(i)) /\ WF_chatVars(EndTask(i))
       /\ WF_chatVars(\E outcome \in {"answered", "lost", "unreached"} : SubmitInput(i, outcome))
       /\ WF_chatVars(PollTask(i)) /\ WF_chatVars(PollResult(i)) /\ WF_chatVars(ResolveApproval(i))

(***************************************************************************)
(* Properties                                                               *)
(***************************************************************************)
\* Types, and the watcher bound of one chat.
ChatTypeOK ==
  /\ \A i \in ChatInputs :
       /\ inputs[i].state \in {"none", "pending", "active", "steered", "done"}
       /\ watchers[i].at \in {"none", "submit", "task", "result", "finished", "failed", "steered"}
       /\ watchers[i].after \in 0..Len(chLog)
  /\ Cardinality(InputsIn("active")) <= 1
  /\ Cardinality(LiveWatchers) <= TrackedTurns

\* A line is admitted once, however many of its answers were lost.
SentOnce ==
  \A i \in ChatInputs :
    Cardinality({k \in DOMAIN chLog : chLog[k] = ChatEvent("accepted", i)}) <= 1

\* A watcher that waits for its input's turn has not yet read past it: the
\* event that ends its wait is still ahead of its cursor, so no order of
\* promotion, lost answers and resumption leaves it waiting for ever.
TurnIsAhead ==
  \A i \in ChatInputs : \A k \in DOMAIN chLog :
    watchers[i].at = "task" /\ chLog[k] \in {ChatEvent("created", i), ChatEvent("steered", i)}
      => watchers[i].after < k

\* After a resumption every input still waiting in the inbox has a watcher, up
\* to the watcher bound, oldest first, unless the owner was told that the scan
\* failed: no order of lost answers, promotions and pages loses one.
PendingIsWatched ==
  chat.at = "open" /\ ~chat.blind =>
    \A i \in InputsIn("pending") :
      \/ watchers[i].at # "none"
      \/ Cardinality(LiveWatchers \cup {j \in ChatInputs : watchers[j].at \in {"finished", "steered"}})
           >= TrackedTurns

\* What the chat promises over lost answers and resumptions: a line is admitted
\* once, a watcher has its turn ahead of it, and waiting inputs are watched.
ChatSafety ==
  /\ ChatTypeOK
  /\ SentOnce
  /\ TurnIsAhead
  /\ PendingIsWatched
=============================================================================
