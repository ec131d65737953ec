------------------------------ MODULE CodexLogin ------------------------------
(***************************************************************************)
(* Onboarding a ChatGPT subscription: mealyctl drives the official Codex   *)
(* app-server over stdio, reads the account, runs a managed sign-in if     *)
(* there is none, and picks a model of the account's catalog.  Reader      *)
(* threads queue the server's lines; responses are matched by id, and      *)
(* notifications that arrive while a response is awaited are kept.         *)
(***************************************************************************)
EXTENDS Naturals, Sequences, FiniteSets, SequencesExt

CONSTANTS
    CodexModels,        \* model names
    DefaultModel,       \* OPENAI_SUBSCRIPTION_DEFAULT_MODEL
    Cursors,            \* page cursors
    MaxPending,         \* MAXIMUM_PENDING_NOTIFICATIONS
    MaxPages,           \* MAXIMUM_MODEL_PAGES
    MaxCodexMessages,   \* MAXIMUM_MESSAGES
    MaxQueued           \* bound: lines the server is ahead of mealyctl

ASSUME CodexBounds ==
    DefaultModel \in CodexModels /\ MaxPending \in Nat /\ MaxPages \in Nat

VARIABLES
    setup,      \* mealyctl: pc, the request awaited, the challenge, the outcome
    queue,      \* ReaderEvents not yet received
    pending,    \* pending_notifications
    catalog,    \* list_models: models and cursors so far
    server,     \* the child process and its stdout
    heard       \* history: messages received, and what they settled

codexVars == <<setup, queue, pending, catalog, server, heard>>

LoginIds == {"mine", "other"}
Kinds == {"signed_out", "chatgpt", "other"}

\* What the server may send: a response with some id, a notification, or
\* something else.
Response(id, value) == [type |-> "response", id |-> id, value |-> value]
Completed(login, ok) == [type |-> "completed", login |-> login, ok |-> ok]
Junk == [type |-> "junk"]
Closed == [type |-> "closed"]

NoCatalog == [models |-> <<>>, defaults |-> {}, cursors |-> {}, pages |-> 0]
NothingHeard == [account |-> "none", completed |-> {}]

CodexInit ==
    /\ setup \in [pc : {"initialize"}, id : {1}, outcome : {"open"},
                  requested : CodexModels \cup {"none"}]
    /\ queue = <<>> /\ pending = <<>>
    /\ catalog = NoCatalog
    /\ server = [state |-> "running", stdout |-> "open", sent |-> 0]
    /\ heard = NothingHeard

\* Dropping the client kills its process group and reaps the child.
Dropped == [state |-> "dead", stdout |-> "closed", sent |-> 0]

Fail(reason) ==
    /\ setup' = [setup EXCEPT !.pc = "over", !.id = 0, !.outcome = reason]
    /\ server' = Dropped /\ queue' = <<>> /\ pending' = <<>>
    /\ catalog' = NoCatalog /\ heard' = NothingHeard

-----------------------------------------------------------------------------
(***************************************************************************)
(* The server and the reader threads.                                      *)
(***************************************************************************)
Pages == [entries : SUBSET CodexModels, default : CodexModels \cup {"none"},
          next : Cursors \cup {"none"}]

Values ==
    CASE setup.pc = "initialize" -> {"object"}
      [] setup.pc \in {"account", "confirm_account"} -> Kinds
      [] setup.pc = "login" -> {"challenge"}
      [] setup.pc = "list" -> Pages
      [] OTHER -> {"object"}

Messages ==
    {Response(i, v) : i \in {setup.id, setup.id - 1}, v \in Values}
    \cup {Completed(l, ok) : l \in LoginIds, ok \in BOOLEAN}
    \cup {Junk}

\* read_stdout queues a line.
ServerSends(m) ==
    /\ server.state = "running" /\ server.stdout = "open"
    /\ server.sent < MaxCodexMessages /\ Len(queue) < MaxQueued
    /\ queue' = Append(queue, m)
    /\ server' = [server EXCEPT !.sent = @ + 1]
    /\ UNCHANGED <<setup, pending, catalog, heard>>

\* The reader stops: at the end of the stream, a broken line or a bound it
\* says so; at an empty line it does not.
ServerStops(said) ==
    /\ server.state = "running" /\ server.stdout = "open"
    /\ queue' = IF said THEN Append(queue, Closed) ELSE queue
    /\ server' = [server EXCEPT !.stdout = "closed"]
    /\ UNCHANGED <<setup, pending, catalog, heard>>

-----------------------------------------------------------------------------
(***************************************************************************)
(* mealyctl.                                                               *)
(***************************************************************************)
Requesting == {"initialize", "account", "login", "confirm_account", "list"}

\* list_models takes one page.
PageFits(p) ==
    /\ \A m \in p.entries : m \notin Range(catalog.models)
    /\ p.next = "none" \/ p.next \notin catalog.cursors

TakePage(p) ==
    [models |-> catalog.models \o SetToSeq(p.entries),
     defaults |-> catalog.defaults \cup (p.entries \cap {p.default}),
     cursors |-> catalog.cursors \cup ({p.next} \ {"none"}),
     pages |-> catalog.pages + 1]

\* select_codex_subscription_model
SelectModel(c, requested) ==
    IF requested # "none"
    THEN IF requested \in Range(c.models) THEN requested ELSE "none"
    ELSE IF Cardinality(c.defaults) = 1 THEN CHOOSE m \in c.defaults : TRUE
    ELSE IF c.defaults = {} /\ DefaultModel \in Range(c.models) THEN DefaultModel
    ELSE "none"

Receive1 == queue' = Tail(queue) /\ UNCHANGED server

\* The next request, with the next id.
Request(pc) == setup' = [setup EXCEPT !.pc = pc, !.id = @ + 1]

\* The response to the awaited request.
HandleResponse(v) ==
    \/ /\ setup.pc = "initialize"
       /\ Request("account") /\ Receive1 /\ UNCHANGED <<pending, catalog, heard>>
    \/ /\ setup.pc = "account"
       /\ heard' = [heard EXCEPT !.account = v]
       /\ IF v = "chatgpt" THEN Request("list")
          ELSE setup' = [setup EXCEPT !.pc = "ask"]
       /\ Receive1 /\ UNCHANGED <<pending, catalog>>
    \/ /\ setup.pc = "login"
       /\ setup' = [setup EXCEPT !.pc = "wait"]
       /\ Receive1 /\ UNCHANGED <<pending, catalog, heard>>
    \/ /\ setup.pc = "confirm_account" /\ v = "chatgpt"
       /\ heard' = [heard EXCEPT !.account = v]
       /\ Request("list") /\ Receive1 /\ UNCHANGED <<pending, catalog>>
    \/ /\ setup.pc = "confirm_account" /\ v # "chatgpt"
       /\ Fail("login_failed")
    \/ /\ setup.pc = "list" /\ ~PageFits(v)
       /\ Fail("invalid")
    \/ /\ setup.pc = "list" /\ PageFits(v) /\ v.next # "none"
       /\ IF catalog.pages + 1 < MaxPages
          THEN /\ catalog' = TakePage(v) /\ Request("list") /\ Receive1
               /\ UNCHANGED <<pending, heard>>
          ELSE Fail("invalid")
    \/ /\ setup.pc = "list" /\ PageFits(v) /\ v.next = "none"
       /\ LET c == TakePage(v)
              model == SelectModel(c, setup.requested)
          IN  IF c.models = <<>> \/ model = "none" THEN Fail("no_model")
              ELSE /\ catalog' = c
                   /\ setup' = [setup EXCEPT !.pc = "over", !.outcome = model]
                   /\ server' = Dropped /\ queue' = <<>> /\ pending' = <<>>
                   /\ UNCHANGED heard

Note(m) == [heard EXCEPT !.completed =
              IF m.login = "mine" THEN @ \cup {m.ok} ELSE @]

\* A notification is kept while there is room.
KeepNotification(m) ==
    IF Len(pending) >= MaxPending THEN Fail("invalid")
    ELSE /\ pending' = Append(pending, m) /\ heard' = Note(m)
         /\ Receive1 /\ UNCHANGED <<setup, catalog>>

\* request(): the loop around read_message.
ReadResponse ==
    /\ setup.pc \in Requesting /\ queue # <<>>
    /\ LET m == Head(queue)
       IN  CASE m.type = "response" ->
                    IF m.id # setup.id THEN Fail("invalid") ELSE HandleResponse(m.value)
             [] m.type = "completed" -> KeepNotification(m)
             [] OTHER -> Fail("invalid")

\* The owner agrees to the managed sign-in on a terminal, or not.
AskOwner ==
    /\ setup.pc = "ask"
    /\ \/ Request("login") /\ UNCHANGED <<queue, pending, catalog, server, heard>>
       \/ Fail("declined")

\* Mutant of Matching: any completed login will do.
MatchingAny == {i \in DOMAIN pending : TRUE}

\* wait_for_notification
Matching == {i \in DOMAIN pending : pending[i].login = "mine"}

WaitForLogin ==
    /\ setup.pc = "wait"
    /\ \/ /\ Matching # {}
          /\ LET i == CHOOSE i \in Matching : \A j \in Matching : i <= j
                 m == pending[i]
             IN  IF ~m.ok THEN Fail("login_failed")
                 ELSE /\ Request("confirm_account")
                      /\ pending' = RemoveAt(pending, i)
                      /\ UNCHANGED <<queue, catalog, server, heard>>
       \/ /\ Matching = {} /\ queue # <<>>
          /\ LET m == Head(queue)
             IN  IF m.type # "completed" THEN Fail("invalid")
                 ELSE IF m.login # "mine" THEN KeepNotification(m)
                 ELSE IF ~m.ok THEN Fail("login_failed")
                 ELSE /\ Request("confirm_account")
                      /\ heard' = Note(m) /\ Receive1 /\ UNCHANGED <<pending, catalog>>

\* recv_timeout elapses while nothing is queued.
CodexTimeout ==
    /\ setup.pc \in Requesting \cup {"wait"} /\ queue = <<>>
    /\ setup.pc = "wait" => Matching = {}
    /\ Fail("timeout")

CodexNext ==
    \/ \E m \in Messages : ServerSends(m)
    \/ \E said \in BOOLEAN : ServerStops(said)
    \/ ReadResponse \/ AskOwner \/ WaitForLogin \/ CodexTimeout

-----------------------------------------------------------------------------
(***************************************************************************)
(* Properties.                                                             *)
(***************************************************************************)

\* Type correctness; when the setup is over no server process is left.
CodexTypeOK ==
    /\ Len(pending) <= MaxPending
    /\ setup.outcome \in CodexModels \cup {"open", "invalid", "timeout", "declined",
                                           "login_failed", "no_model"}
    /\ (setup.outcome = "open") <=> (setup.pc # "over")
    /\ (setup.pc = "over") => server.state = "dead"

Accepted == setup.outcome \in CodexModels

\* A completion of this sign-in that was received is never lost, however
\* early it came: until it is acted on it is among the pending ones.
CompletionIsKept ==
    setup.pc \in {"login", "wait"} =>
        \A ok \in heard.completed : \E i \in DOMAIN pending :
            pending[i].login = "mine" /\ pending[i].ok = ok

\* A sign-in goes on only after its own completion, and a catalog is read
\* and a model set up only for an account the server, asked last, said is a
\* ChatGPT one.
SigninIsOwn ==
    /\ setup.pc = "confirm_account" => TRUE \in heard.completed
    /\ setup.pc = "list" \/ Accepted => heard.account = "chatgpt"

\* The catalog never repeats a model, never follows a cursor twice, and ends
\* within its pages; the chosen model is in it.
CatalogIsFinite ==
    /\ IsInjective(catalog.models) /\ catalog.pages <= MaxPages
    /\ Accepted => setup.outcome \in Range(catalog.models)

\* What the Codex setup promises in any order of responses and notifications: a
\* completion that came early is not lost, only this sign-in counts, and the
\* catalogue ends.
SetupSafety ==
  /\ CodexTypeOK
  /\ CompletionIsKept
  /\ SigninIsOwn
  /\ CatalogIsFinite
=============================================================================
