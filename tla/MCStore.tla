------------------------------- MODULE MCStore -------------------------------
(***************************************************************************)
(* Model checking of components of the daemon that share no state: the     *)
(* home directory, the artifact directory, the webhook routes, governed    *)
(* memory, the session context built on it, and the loop of one run with   *)
(* its replay.  `part' is chosen initially and only that component moves.  *)
(***************************************************************************)
EXTENDS DaemonHome, ArtifactStore, WebhookIngress, SessionContext, AgentReplay

CONSTANTS w1, w2

VARIABLE part

MCConfigs == {[workspace |-> w1, policy |-> 1], [workspace |-> w2, policy |-> 2]}

MCInit ==
  /\ part \in {"home", "artifacts", "webhook", "memory", "context", "loop"}
  /\ HomeInit /\ (part # "home" => supported = 1)
  /\ ArtifactInit /\ WhInit /\ ContextInit /\ Init
  /\ part # "context" => fork.refs = 0

\* Governed memory without the session's bound on side work: the owner has a
\* session with one epoch.
MemoryAlone ==
  /\ UNCHANGED ctxOnly
  /\ \/ MemoryNext /\ UNCHANGED epochs
     \/ /\ epochs = <<>> /\ UNCHANGED memVars
        /\ epochs' = <<[workspace |-> w1, policy |-> 1, cursor |-> 0]>>

MCNext ==
  /\ UNCHANGED part
  /\ \/ part = "home" /\ HomeNext /\ UNCHANGED <<vars, artifactVars, whVars, ctxVars>>
     \/ part = "artifacts" /\ ArtifactNext /\ UNCHANGED <<vars, homeVars, whVars, ctxVars>>
     \/ part = "webhook" /\ WhNext /\ UNCHANGED <<vars, homeVars, artifactVars, ctxVars>>
     \/ part = "memory" /\ MemoryAlone /\ UNCHANGED <<vars, homeVars, artifactVars, whVars>>
     \/ part = "context" /\ ContextNext /\ UNCHANGED <<vars, homeVars, artifactVars, whVars>>
     \/ part = "loop" /\ Next /\ UNCHANGED <<homeVars, artifactVars, whVars, ctxVars>>
=============================================================================
