------------------------------ MODULE MCClients ------------------------------
(***************************************************************************)
(* Model checking of what the owner waits for: the timeline with its        *)
(* watchers, the chat, and the update and provider-switch transactions of   *)
(* the host, one of each, so that either helper can find the host in the    *)
(* middle of the other's.  The parts share no state: `part' is chosen       *)
(* initially and only that part moves; no action with fairness is enabled   *)
(* in a part at rest.                                                       *)
(***************************************************************************)
EXTENDS SessionTimeline, ChatClient, HostTransactions

VARIABLE part

mcVars == <<part, tlVars, chatVars, hostVars>>

\* Every watcher has a stream open and has printed all there is.
RestingTimeline ==
  /\ tlLog = <<"session">> /\ tlEpochs = {FirstWorkspace}
  /\ daemonUp = TRUE /\ breaks = 0 /\ others = 0
  /\ readers = ReaderCapacity /\ permits = Subscribers - Cardinality(Watchers)
  /\ streams = [w \in Watchers |-> [state |-> "open", after |-> 1, sent |-> <<>>]]
  /\ watch = [w \in Watchers |-> [at |-> "stream", after |-> 1, printed |-> <<1>>]]

MCInit ==
  /\ part \in {"timeline", "chat", "host"}
  /\ ChatInit /\ HostInit
  /\ IF part = "timeline" THEN TimelineInit ELSE RestingTimeline

MCNext ==
  /\ UNCHANGED part
  /\ \/ part = "timeline" /\ TimelineNext /\ UNCHANGED <<chatVars, hostVars>>
     \/ part = "chat" /\ ChatNext /\ UNCHANGED <<tlVars, hostVars>>
     \/ part = "host" /\ HostNext /\ UNCHANGED <<tlVars, chatVars>>

MCSpec ==
  /\ MCInit /\ [][MCNext]_mcVars
  /\ TimelineFairness /\ ChatFairness /\ HostFairness
=============================================================================
