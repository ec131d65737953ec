-------------------------- MODULE HostTransactions --------------------------
(***************************************************************************)
(* The two disconnect-resistant host transactions of mealyctl: the archive *)
(* update (lifecycle.rs, main.rs run_update_transaction) and the primary   *)
(* provider switch (provider_switch.rs, run_provider_switch_transaction).  *)
(* Each is one durable document (journal) and one helper process that the  *)
(* user service manager restarts on failure.  Helpers of one home take     *)
(* turns through the service-mutation lock, but lose it when they die, so  *)
(* one helper can find the host in the middle of another's transaction.    *)
(*                                                                         *)
(* An installed program is named by the update that installs it, a         *)
(* configuration file by the switch that writes it.  Installer, service    *)
(* manager and owner are modelled by what the helpers see of them.         *)
(***************************************************************************)
EXTENDS Naturals, FiniteSets

CONSTANTS
  Updates,          \* identities of archive-update transactions
  Switches,         \* identities of provider-switch transactions
  StartLimitBurst,  \* process starts the service manager allows a helper
  MaxFaults         \* bound: crashes, I/O failures, refusals, owner edits

ASSUME HostAssumption ==
  /\ Updates \cap Switches = {}
  /\ StartLimitBurst \in Nat \ {0}
  /\ MaxFaults \in Nat

VARIABLES
  journal,       \* [Transactions -> HostRecord \cup {NoRecord}], durable
  helper,        \* [Transactions -> HelperRow], the helper processes
  program,       \* the program in the active slot, or "damaged"
  config,        \* the content of config.json, or "edited"
  archives,      \* switches whose previous configuration is archived
  service,       \* "inactive", "queued" (start accepted) or "active"
  running,       \* program and configuration the running daemon loaded
  identity,      \* the loaded service fragment is the generated one
  mutationLock,  \* the transaction holding service-mutations.lock
  faults

hostVars == <<journal, helper, program, config, archives, service, running,
              identity, mutationLock, faults>>

Transactions == Updates \cup Switches
NoRecord == [phase |-> "none", evidence |-> FALSE, rollback |-> FALSE,
             prior |-> "base", daemon |-> "base"]
Nobody == "nobody"

TerminalPhases == {"committed", "aborted", "rolled_back", "recovery_failed"}

UpdateTransactionPhase ==
  {"scheduled", "prepared", "draining", "stopped", "activated", "starting",
   "verifying", "rolling_back"} \cup TerminalPhases

Programs == {"base"} \cup Updates
Configs == {"base"} \cup Switches

\* evidence: the backup of an update, the archive path of a switch;
\* prior, daemon: what the slot held, and the program installed, at launch.
HostRecord ==
  [phase : UpdateTransactionPhase, evidence : BOOLEAN, rollback : BOOLEAN,
   prior : Programs \cup Configs \cup {"edited", "damaged"},
   daemon : Programs \cup {"damaged"}]

HelperPcs == {"none", "loading", "locking", "resume", "persist", "write",
              "rb_stop", "rb_restore", "rb_write", "rb_start", "rb_qualify",
              "ab_qualify", "failed", "exited", "gave_up"}

\* again: the failure being handled happened inside the recovery itself;
\* identityLost: the failure that ended the resume was ServiceIdentity.
HelperRow ==
  [pc : HelperPcs, mem : HostRecord \cup {NoRecord}, starts : Nat,
   again : BOOLEAN, identityLost : BOOLEAN]

-----------------------------------------------------------------------------
(* What the helpers can observe.                                           *)

Slot(t) == IF t \in Updates THEN program ELSE config

\* active_transaction_slot and active_config_slot.
ActiveSlot(t, rec) ==
  CASE Slot(t) = rec.prior -> "previous"
    [] Slot(t) = t -> "candidate"
    [] OTHER -> "unknown"

\* lock_stopped_home and the installer's flock: a daemon that is up holds
\* mealyd.lock, one whose start is only queued does not yet.
HomeUnlocked == service # "active"

ServiceTrusted(t, rec, requireActive) ==
  /\ identity
  /\ t \in Updates => program # "damaged"
  /\ t \in Switches => program = rec.daemon
  /\ requireActive => service = "active"

\* Readiness, doctor and slot checks of one qualification attempt; a switch
\* also compares the catalog served by the daemon with the expected route.
Qualifies(t, rec, slot) ==
  /\ service = "active"
  /\ ActiveSlot(t, rec) = slot
  /\ t \in Switches =>
       /\ ServiceTrusted(t, rec, TRUE)
       /\ running.config = IF slot = "candidate" THEN t ELSE rec.prior

ValidPhaseTransition(t, from, to) ==
  \/ from = to
  \/ /\ to = "recovery_failed"
     /\ from \notin TerminalPhases
  \/ /\ to = "rolling_back"
     /\ from \notin TerminalPhases \cup {"scheduled"}
  \/ /\ to = "aborted"
     /\ \/ from = "scheduled"
        \/ t \in Switches /\ from \in {"prepared", "draining", "stopped"}
  \/ <<from, to>> \in
       {<<"scheduled", "prepared">>, <<"prepared", "draining">>,
        <<"draining", "stopped">>, <<"stopped", "activated">>,
        <<"activated", "starting">>, <<"starting", "verifying">>,
        <<"verifying", "committed">>, <<"rolling_back", "rolled_back">>}

\* validate_update_transaction: a document that rolled back may only say so.
ValidUpdateRecord(rec) ==
  /\ rec.evidence \/ rec.phase \in {"scheduled", "aborted", "recovery_failed"}
  /\ rec.rollback <=> rec.phase \in {"rolling_back", "rolled_back"}

\* validate_transaction of provider_switch.rs.
ValidSwitchRecord(rec) ==
  /\ rec.phase \in {"rolling_back", "rolled_back"} => rec.rollback
  /\ rec.rollback =>
       rec.phase \in {"rolling_back", "rolled_back", "recovery_failed"}

ValidRecord(t, rec) ==
  IF t \in Updates THEN ValidUpdateRecord(rec) ELSE ValidSwitchRecord(rec)

Terminal(t) == journal[t].phase \in TerminalPhases

UpdateRecoveryRoute(rec, slot, trusted) ==
  CASE rec.phase \in TerminalPhases -> "fail_closed"
    [] rec.phase = "scheduled" /\ slot = "previous" /\ trusted -> "abort"
    [] rec.evidence /\ \/ slot # "unknown"
                       \/ rec.phase \in {"activated", "starting",
                                         "verifying", "rolling_back"}
         -> "restore"
    [] OTHER -> "fail_closed"

SwitchRecoveryRoute(rec, slot) ==
  CASE rec.phase \in TerminalPhases -> "fail_closed"
    [] slot = "previous" /\ rec.phase \in {"scheduled", "prepared",
                                           "draining", "stopped"} -> "abort"
    [] rec.phase # "scheduled" /\ slot # "unknown" -> "restore"
    [] OTHER -> "fail_closed"

RecoveryRoute(t) ==
  LET rec == helper[t].mem
      slot == ActiveSlot(t, rec)
  IN  IF t \in Updates
      THEN UpdateRecoveryRoute(rec, slot, ~helper[t].identityLost)
      ELSE SwitchRecoveryRoute(rec, slot)

-----------------------------------------------------------------------------
(* Steps of a helper.                                                      *)

At(t, pc) == helper[t].pc = pc
InPhase(t, phase) == At(t, "resume") /\ helper[t].mem.phase = phase
Goto(t, pc) == helper' = [helper EXCEPT ![t].pc = pc]

Fault == faults < MaxFaults /\ faults' = faults + 1
NoFault == UNCHANGED faults

\* Decide the next document and go on to write it.
Record(t, rec) ==
  helper' = [helper EXCEPT ![t].pc = "persist", ![t].mem = rec]

Advance(t, phase) == Record(t, [helper[t].mem EXCEPT !.phase = phase])

FailWith(t, lost) ==
  helper' = [helper EXCEPT ![t].pc = "failed", ![t].identityLost = lost]

Fail(t) == FailWith(t, FALSE)

\* The service manager starts the daemon with what is installed now.
StartService ==
  service' = IF service = "inactive" THEN "queued" ELSE service

host == <<program, config, archives, running, identity, mutationLock>>

ServiceUp ==
  /\ service = "queued"
  /\ service' = "active"
  /\ running' = [program |-> program, config |-> config]
  /\ UNCHANGED <<journal, helper, program, config, archives, identity,
                 mutationLock, faults>>

\* launch_update_transaction / launch_provider_switch_transaction: the
\* request is durable before the helper is scheduled.
Launch(t) ==
  /\ journal[t] = NoRecord
  /\ identity /\ service = "active" /\ program # "damaged"
  /\ t \in Switches => running.config = config
  /\ journal' = [journal EXCEPT ![t] =
       [phase |-> "scheduled", evidence |-> FALSE, rollback |-> FALSE,
        prior |-> Slot(t), daemon |-> program]]
  /\ Goto(t, "loading")
  /\ UNCHANGED <<program, config, archives, service, running, identity,
                 mutationLock, faults>>

\* systemd-run reports a failure although the helper may have been started:
\* the client, which holds no lock, aborts the document it wrote.  The report
\* comes at the helper's exec, so the document is still as launched.
LaunchReportsFailure(t) ==
  /\ journal[t] # NoRecord /\ helper[t].starts <= 1
  /\ Fault
  /\ journal[t].phase = "scheduled"
  /\ journal' = [journal EXCEPT ![t].phase = "aborted"]
  /\ UNCHANGED <<helper, program, config, archives, service, running,
                 identity, mutationLock>>

\* run_update_transaction reads the document before it waits for the locks.
HelperLoad(t) ==
  /\ At(t, "loading")
  /\ helper' = [helper EXCEPT ![t] =
       [pc |-> "locking", mem |-> journal[t], starts |-> @.starts + 1,
        again |-> FALSE, identityLost |-> FALSE]]
  /\ UNCHANGED <<journal, service, faults, host>>

HelperLock(t) ==
  /\ At(t, "locking")
  /\ mutationLock = Nobody
  /\ mutationLock' = t
  /\ IF helper[t].mem.phase \in TerminalPhases
     THEN Goto(t, "exited")
     ELSE Goto(t, "resume")
  /\ UNCHANGED <<journal, program, config, archives, service, running,
                 identity, faults>>

\* The helper ends: it releases its lock, and a terminal document means
\* success to the service manager.  Any other end is restarted.
HelperExit(t) ==
  /\ At(t, "exited")
  /\ mutationLock' = IF mutationLock = t THEN Nobody ELSE mutationLock
  /\ \/ Terminal(t) /\ helper[t].mem.phase \in TerminalPhases /\ Goto(t, "none")
     \/ /\ ~(Terminal(t) /\ helper[t].mem.phase \in TerminalPhases)
        /\ Goto(t, IF helper[t].starts < StartLimitBurst
                   THEN "loading" ELSE "gave_up")
  /\ UNCHANGED <<journal, program, config, archives, service, running,
                 identity, faults>>

\* The helper process dies between two of its steps.
HelperCrash(t) ==
  /\ helper[t].pc \notin {"none", "gave_up", "loading", "exited"}
  /\ Fault
  /\ mutationLock' = IF mutationLock = t THEN Nobody ELSE mutationLock
  /\ Goto(t, IF helper[t].starts < StartLimitBurst
             THEN "loading" ELSE "gave_up")
  /\ UNCHANGED <<journal, program, config, archives, service, running,
                 identity>>

AfterPersist(t) ==
  CASE helper[t].mem.phase = "rolling_back" -> "rb_stop"
    [] helper[t].mem.phase \in TerminalPhases -> "exited"
    [] OTHER -> "resume"

\* persist_update_transaction / persist_transaction.  A refused document is
\* a failure of the resume, or ends the process when recovery wrote it.
PersistRefused(t) ==
  \/ ~ValidRecord(t, helper[t].mem)
  \/ ~ValidPhaseTransition(t, journal[t].phase, helper[t].mem.phase)

Persist(t) ==
  /\ At(t, "persist")
  /\ \/ /\ ~PersistRefused(t) /\ NoFault
        /\ journal' = [journal EXCEPT ![t] = helper[t].mem]
        /\ Goto(t, AfterPersist(t))
     \/ /\ \/ PersistRefused(t) /\ NoFault
           \/ ~PersistRefused(t) /\ Fault
        /\ UNCHANGED journal
        /\ IF helper[t].mem.phase \in
                {"aborted", "rolling_back", "recovery_failed"}
           THEN Goto(t, "exited") ELSE Fail(t)
  /\ UNCHANGED <<service, host>>

\* A check of the resume fails, or one of its external calls is refused.
\* A drain that fails may still have stopped the service.
CheckFails(t) ==
  LET rec == helper[t].mem
      active == \/ rec.phase = "verifying"
                \/ t \in Switches /\ rec.phase \in {"scheduled", "prepared"}
      checked == \/ t \in Updates
                 \/ rec.phase \in {"scheduled", "prepared", "stopped"}
  IN  checked /\ ~ServiceTrusted(t, rec, active)

IdentityFails(t) ==
  /\ At(t, "resume") /\ CheckFails(t)
  /\ FailWith(t, t \in Updates)
  /\ UNCHANGED <<journal, service, faults, host>>

Passes(t) == ~CheckFails(t)

\* Scheduled: reverify the candidate and back up through the running daemon
\* (update), or compare the catalog and probe the candidate (switch).
SchedulePasses(t) ==
  /\ service = "active" /\ ActiveSlot(t, helper[t].mem) = "previous"
  /\ t \in Switches => running.config = helper[t].mem.prior

Schedule(t) ==
  /\ InPhase(t, "scheduled") /\ Passes(t)
  /\ \/ /\ SchedulePasses(t) /\ NoFault
        /\ Record(t, [helper[t].mem EXCEPT !.phase = "prepared",
                                           !.evidence = t \in Updates])
     \/ /\ IF SchedulePasses(t) THEN Fault ELSE NoFault
        /\ Fail(t)
  /\ UNCHANGED <<journal, service, host>>

StepOver(t) ==
  /\ \/ InPhase(t, "prepared") /\ Passes(t) /\ Advance(t, "draining")
     \/ InPhase(t, "activated") /\ Passes(t) /\ Advance(t, "starting")
  /\ UNCHANGED <<journal, service, faults, host>>

Drain(t) ==
  /\ InPhase(t, "draining") /\ Passes(t)
  /\ \/ /\ service' = IF service = "active" THEN "inactive" ELSE service
        /\ NoFault /\ Advance(t, "stopped")
     \/ service' \in {service, "inactive"} /\ Fault /\ Fail(t)
  /\ UNCHANGED <<journal, program, config, archives, running, identity,
                 mutationLock>>

\* Stopped, update: reverify and run the installer, which takes the home
\* lock itself and so refuses while the daemon runs.
ActivateProgram(t) ==
  /\ t \in Updates /\ InPhase(t, "stopped") /\ Passes(t)
  /\ \/ /\ ActiveSlot(t, helper[t].mem) = "candidate"
        /\ Advance(t, "activated") /\ UNCHANGED <<program, faults>>
     \/ /\ ActiveSlot(t, helper[t].mem) = "previous"
        /\ \/ /\ HomeUnlocked /\ program' = t /\ NoFault
              /\ Advance(t, "activated")
           \/ /\ HomeUnlocked /\ program' \in {program, "damaged"}
              /\ Fault /\ Fail(t)
           \/ ~HomeUnlocked /\ UNCHANGED <<program, faults>> /\ Fail(t)
     \/ /\ ActiveSlot(t, helper[t].mem) = "unknown"
        /\ Fail(t) /\ UNCHANGED <<program, faults>>
  /\ UNCHANGED <<journal, config, archives, service, running, identity,
                 mutationLock>>

\* Stopped, switch: note the archive path durably, then inspect the file.
PrepareConfig(t) ==
  /\ t \in Switches /\ InPhase(t, "stopped") /\ Passes(t)
  /\ IF ~helper[t].mem.evidence
     THEN Record(t, [helper[t].mem EXCEPT !.evidence = TRUE])
     ELSE CASE ActiveSlot(t, helper[t].mem) = "candidate" ->
                 Advance(t, "activated")
            [] ActiveSlot(t, helper[t].mem) = "previous" -> Goto(t, "write")
            [] OTHER -> Fail(t)
  /\ UNCHANGED <<journal, service, faults, host>>

\* Under the stopped-home lock: archive the previous bytes, write the
\* candidate, and look again.
ArchiveConfig(t) ==
  /\ At(t, "write") /\ t \notin archives
  /\ IF HomeUnlocked
     THEN archives' = archives \cup {t} /\ UNCHANGED helper
     ELSE Fail(t) /\ UNCHANGED archives
  /\ UNCHANGED <<journal, program, config, service, running, identity,
                 mutationLock, faults>>

ActivateConfig(t) ==
  /\ At(t, "write") /\ t \in archives
  /\ IF HomeUnlocked
     THEN config' = t /\ Advance(t, "activated")
     ELSE Fail(t) /\ UNCHANGED config
  /\ UNCHANGED <<journal, program, archives, service, running, identity,
                 mutationLock, faults>>

Start(t) ==
  /\ InPhase(t, "starting") /\ Passes(t)
  /\ \/ StartService /\ NoFault /\ Advance(t, "verifying")
     \/ UNCHANGED service /\ Fault /\ Fail(t)
  /\ UNCHANGED <<journal, host>>

\* Mutant of Verify: readiness of whatever runs is taken for the candidate's.
VerifyReadiness(t) ==
  /\ InPhase(t, "verifying") /\ Passes(t)
  /\ service = "active" /\ NoFault
  /\ Advance(t, "committed")
  /\ UNCHANGED <<journal, service, host>>

\* qualify_update_slot / qualify_provider_switch: wait for readiness, which
\* may not come, then look at the slot.
Verify(t) ==
  /\ InPhase(t, "verifying") /\ Passes(t)
  /\ \/ Qualifies(t, helper[t].mem, "candidate") /\ NoFault
        /\ Advance(t, "committed")
     \/ /\ service # "queued"
        /\ IF Qualifies(t, helper[t].mem, "candidate") THEN Fault ELSE NoFault
        /\ Fail(t)
  /\ UNCHANGED <<journal, service, host>>

\* resume_rollback_transaction: stop, restore the prior slot, start, and
\* qualify it.  The manager swaps the slots back only if the prior one is
\* complete; the switch writes the previous snapshot back.
ResumeRollback(t) ==
  /\ InPhase(t, "rolling_back")
  /\ Goto(t, "rb_stop")
  /\ UNCHANGED <<journal, service, faults, host>>

RollbackStop(t) ==
  /\ At(t, "rb_stop")
  /\ \/ service' = "inactive" /\ NoFault /\ Goto(t, "rb_restore")
     \/ UNCHANGED service /\ Fault /\ Fail(t)
  /\ UNCHANGED <<journal, host>>

RollbackProgram(t) ==
  /\ t \in Updates /\ At(t, "rb_restore")
  /\ LET slot == ActiveSlot(t, helper[t].mem) IN
     \/ /\ slot = "previous" /\ UNCHANGED <<program, faults>>
        /\ IF identity THEN Goto(t, "rb_start") ELSE FailWith(t, TRUE)
     \/ /\ slot = "candidate" /\ HomeUnlocked
        /\ \/ /\ program' = helper[t].mem.prior /\ NoFault
              /\ IF identity THEN Goto(t, "rb_start") ELSE FailWith(t, TRUE)
           \/ program' \in {program, "damaged"} /\ Fault /\ Fail(t)
     \/ /\ slot = "unknown" \/ (slot = "candidate" /\ ~HomeUnlocked)
        /\ Fail(t) /\ UNCHANGED <<program, faults>>
  /\ UNCHANGED <<journal, config, archives, service, running, identity,
                 mutationLock>>

InspectConfigForRollback(t) ==
  /\ t \in Switches /\ At(t, "rb_restore")
  /\ CASE ~ServiceTrusted(t, helper[t].mem, FALSE) -> Fail(t)
       [] ActiveSlot(t, helper[t].mem) = "previous" -> Goto(t, "rb_start")
       [] ActiveSlot(t, helper[t].mem) = "candidate" -> Goto(t, "rb_write")
       [] OTHER -> Fail(t)
  /\ UNCHANGED <<journal, service, faults, host>>

RollbackConfig(t) ==
  /\ At(t, "rb_write")
  /\ IF HomeUnlocked
     THEN config' = helper[t].mem.prior /\ Goto(t, "rb_start")
     ELSE Fail(t) /\ UNCHANGED config
  /\ UNCHANGED <<journal, program, archives, service, running, identity,
                 mutationLock, faults>>

RollbackStart(t) ==
  /\ At(t, "rb_start")
  /\ \/ StartService /\ NoFault /\ Goto(t, "rb_qualify")
     \/ UNCHANGED service /\ Fault /\ Fail(t)
  /\ UNCHANGED <<journal, host>>

RollbackQualify(t) ==
  /\ At(t, "rb_qualify")
  /\ \/ Qualifies(t, helper[t].mem, "previous") /\ NoFault
        /\ Advance(t, "rolled_back")
     \/ /\ service # "queued"
        /\ IF Qualifies(t, helper[t].mem, "previous") THEN Fault ELSE NoFault
        /\ Fail(t)
  /\ UNCHANGED <<journal, service, host>>

-----------------------------------------------------------------------------
(* recover_failed_update_transaction, recover_provider_switch_transaction. *)

BeginRollback(t) ==
  helper' = [helper EXCEPT
    ![t] = [@ EXCEPT !.pc = "persist", !.again = TRUE,
       !.mem = [@ EXCEPT !.phase = "rolling_back", !.rollback = TRUE]]]

GiveUp(t) == Advance(t, "recovery_failed")

\* Mutant of Recover: nothing is decided when neither slot is recognised.
RecoverKnownSlots(t) ==
  /\ At(t, "failed") /\ ~helper[t].again
  /\ \/ /\ RecoveryRoute(t) = "abort"
        /\ StartService /\ Goto(t, "ab_qualify")
     \/ RecoveryRoute(t) = "restore" /\ BeginRollback(t) /\ UNCHANGED service
  /\ UNCHANGED <<journal, faults, host>>

Recover(t) ==
  /\ At(t, "failed") /\ ~helper[t].again
  /\ \/ /\ RecoveryRoute(t) = "abort"
        /\ StartService /\ Goto(t, "ab_qualify")
     \/ RecoveryRoute(t) = "restore" /\ BeginRollback(t) /\ UNCHANGED service
     \/ RecoveryRoute(t) = "fail_closed" /\ StartService /\ GiveUp(t)
  /\ UNCHANGED <<journal, faults, host>>

\* The untouched prior service qualifies: aborted.  Otherwise an update
\* fails closed and a switch that left "scheduled" rolls back.
AbortQualify(t) ==
  /\ At(t, "ab_qualify")
  /\ \/ /\ Qualifies(t, helper[t].mem, "previous") /\ NoFault
        /\ Advance(t, "aborted") /\ UNCHANGED service
     \/ /\ service # "queued"
        /\ IF Qualifies(t, helper[t].mem, "previous") THEN Fault ELSE NoFault
        /\ IF t \in Switches /\ helper[t].mem.phase # "scheduled"
           THEN BeginRollback(t) /\ UNCHANGED service
           ELSE GiveUp(t) /\ StartService
  /\ UNCHANGED <<journal, host>>

\* The rollback that recovery began failed as well.
RecoverAgain(t) ==
  /\ At(t, "failed") /\ helper[t].again
  /\ GiveUp(t)
  /\ UNCHANGED <<journal, service, faults, host>>

-----------------------------------------------------------------------------
(* The owner: a service fragment edited in place, and a configuration      *)
(* changed by any stopped-daemon command (home lock, not mutation lock).   *)

DamageIdentity ==
  /\ identity /\ Fault
  /\ identity' = FALSE
  /\ UNCHANGED <<journal, helper, program, config, archives, service, running,
                 mutationLock>>

EditConfig ==
  /\ HomeUnlocked /\ config # "edited" /\ Fault
  /\ config' = "edited"
  /\ UNCHANGED <<journal, helper, program, archives, service, running,
                 identity, mutationLock>>

-----------------------------------------------------------------------------
HostInit ==
  /\ journal = [t \in Transactions |-> NoRecord]
  /\ helper = [t \in Transactions |->
       [pc |-> "none", mem |-> NoRecord, starts |-> 0, again |-> FALSE,
        identityLost |-> FALSE]]
  /\ program = "base" /\ config = "base" /\ archives = {}
  /\ service = "active"
  /\ running = [program |-> "base", config |-> "base"]
  /\ identity = TRUE /\ mutationLock = Nobody /\ faults = 0

HelperStep(t) ==
  \/ HelperLoad(t) \/ HelperLock(t) \/ HelperExit(t) \/ Persist(t)
  \/ IdentityFails(t) \/ Schedule(t) \/ StepOver(t) \/ Drain(t)
  \/ ActivateProgram(t) \/ PrepareConfig(t) \/ ArchiveConfig(t)
  \/ ActivateConfig(t) \/ Start(t) \/ Verify(t) \/ ResumeRollback(t)
  \/ RollbackStop(t) \/ RollbackProgram(t) \/ InspectConfigForRollback(t)
  \/ RollbackConfig(t) \/ RollbackStart(t) \/ RollbackQualify(t)
  \/ Recover(t) \/ AbortQualify(t) \/ RecoverAgain(t)

HostNext ==
  \/ ServiceUp \/ DamageIdentity \/ EditConfig
  \/ \E t \in Transactions :
       Launch(t) \/ LaunchReportsFailure(t) \/ HelperCrash(t) \/ HelperStep(t)

HostFairness ==
  /\ WF_hostVars(ServiceUp)
  /\ \A t \in Transactions : WF_hostVars(HelperStep(t))

HostSpec == HostInit /\ [][HostNext]_hostVars /\ HostFairness

-----------------------------------------------------------------------------
(* Properties.                                                             *)

\* Journals, helpers and the host keep their shape.
HostTypeOK ==
  /\ journal \in [Transactions -> HostRecord \cup {NoRecord}]
  /\ helper \in [Transactions -> HelperRow]
  /\ program \in Programs \cup {"damaged"}
  /\ config \in Configs \cup {"edited"}
  /\ archives \subseteq Switches
  /\ service \in {"inactive", "queued", "active"}
  /\ running \in [program : Programs \cup {"damaged"},
                  config : Configs \cup {"edited"}]
  /\ identity \in BOOLEAN
  /\ mutationLock \in Transactions \cup {Nobody}
  /\ faults \in 0..MaxFaults

\* Whatever helpers die and take over the lock from each other, a program
\* slot or the configuration is replaced by a transaction only while its
\* durable document says stopped (with the backup taken, or the archive
\* named and written) or rolling back, and never under a running daemon.
ReplacedOnlyPrepared ==
  \A t \in Transactions :
    (mutationLock = t /\ faults' = faults
       /\ <<program, config>>' # <<program, config>>) =>
      /\ service # "active"
      /\ \/ journal[t].phase = "rolling_back"
         \/ /\ journal[t].phase = "stopped" /\ journal[t].evidence
            /\ t \in Switches => t \in archives

\* A document claims an outcome only when the host is in it: committed with
\* the candidate installed and running, rolled back with the prior slot
\* installed and running, aborted with the candidate not installed.
OutcomeIsTrue ==
  \A t \in Transactions :
    journal'[t] # journal[t] =>
      LET phase == journal'[t].phase
          live == IF t \in Updates THEN running.program ELSE running.config
      IN  /\ phase = "committed" =>
               service = "active" /\ Slot(t) = t /\ live = t
          /\ phase = "rolled_back" =>
               /\ service = "active"
               /\ Slot(t) = journal[t].prior /\ live = journal[t].prior
          /\ phase = "aborted" => Slot(t) # t

\* Every launched transaction ends: its document is terminal, or the service
\* manager has stopped restarting the helper.
TransactionEnds ==
  \A t \in Transactions :
    journal[t] # NoRecord ~> (Terminal(t) \/ At(t, "gave_up"))

\* No step of a helper, its successor or a recovery claims an outcome the host
\* is not in, or replaces a program or configuration unprepared.
HostSteps ==
  [][/\ HostTypeOK'
     /\ OutcomeIsTrue
     /\ ReplacedOnlyPrepared]_hostVars
=============================================================================
