------------------------------- MODULE MCOwner -------------------------------
(***************************************************************************)
(* Model checking of what the owner manages: sessions on the workbench, the *)
(* dashboard and the configuration of the home.  The parts                  *)
(* share no state: `part' is chosen initially and only that part moves.     *)
(***************************************************************************)
EXTENDS Workbench, Dashboard, HomeConfig

VARIABLE part

MCCommands ==
  {TitleCommand, SelectionCommand, CheckpointCommand,
   PauseCommand, ResumeCommand, CancelCommand,
   ActivateCommand, CorrectCommand, PinCommand("pin"), PinCommand("unpin"),
   ExpireCommand, RejectCommand, DeleteCommand,
   EnableCommand, DisableCommand, RevokeCommand,
   InputCommand, ApprovalCommand, CancelTaskCommand, ReconcileCommand,
   ForkCommand, CreateScheduleCommand, ProposeCommand}

\* Commands about different rows touch no common state of the daemon: one
\* behaviour is about one row, or about keyed commands.
OneRow ==
  \A i \in DOMAIN requests' : requests'[i].command.row = requests'[1].command.row

\* Sizes of turns: the first one is small.
FirstIsSmall == wbTurns' # <<>> => wbTurns'[1].size = 1

WbSymmetry == Permutations(WbClients) \cup Permutations(ForkKeys)

\* A new home and one in use: two skills, a search credential, a subscription
\* provider and a writable workspace.
Skill(s, i, r, ok) == [skill |-> s, instructions |-> i, resources |-> r, sound |-> ok]
MCManifest == [k1 |-> Skill("k", 1, 0, TRUE), k2 |-> Skill("k", 2, 1, TRUE), l1 |-> Skill("l", 1, 1, TRUE), l2 |-> Skill("l", 0, 0, FALSE)]
MCCredential == [p |-> "s", q |-> NoSecret]
MCLatency == [p |-> 3, q |-> 2]
UsedHome ==
  [config |-> [DefaultConfig EXCEPT !.web = TRUE, !.search = "s", !.primary = "q", !.timeout = 2,
                 !.workspaces["w"] = "write",
                 !.skills = [k |-> [package |-> "k1", enabled |-> TRUE], l |-> [package |-> "l1", enabled |-> FALSE]]],
   content |-> {"k1", "l1"}, secrets |-> [s |-> "v1"]]
MCHomes == {NewHome, UsedHome}

MCInit ==
  /\ part \in {"workbench", "dashboard", "config"}
  /\ WorkbenchInit /\ DashInit /\ HomeConfigInit
  /\ part # "config" => config = DefaultConfig

AllBut(p) ==
  /\ UNCHANGED part
  /\ p # "workbench" => UNCHANGED wbVars
  /\ p # "dashboard" => UNCHANGED dashVars
  /\ p # "config" => UNCHANGED homeConfigVars

MCNext ==
  \/ part = "workbench" /\ WorkbenchNext /\ FirstIsSmall /\ AllBut("workbench")
  \/ part = "dashboard" /\ DashNext /\ OneRow /\ AllBut("dashboard")
  \/ part = "config" /\ HomeConfigNext /\ AllBut("config")
=============================================================================
