----------------------------- MODULE DaemonHome -----------------------------
(***************************************************************************)
(* The private home directory of mealyd: who owns it (mealyd.lock), what a *)
(* daemon does between taking the lock and serving (schema inspection,     *)
(* pre-migration snapshot, open and migrate, forced-shutdown marker, run   *)
(* record), how it leaves (clean drain, forced drain, crash), and how a    *)
(* stopped home is replaced by a verified backup or a migration snapshot   *)
(* through an atomic directory exchange.                                   *)
(*                                                                         *)
(* A directory keeps its identity when it is renamed or exchanged; the     *)
(* home path names one of them.  Locks and open databases follow the       *)
(* directory, paths are resolved anew.  The database content is the set of *)
(* commits it holds.                                                       *)
(***************************************************************************)
EXTENDS Naturals, FiniteSets

CONSTANTS
  Daemons,       \* daemon processes that may be started on the home
  Schemas,       \* schema versions of installable programs, 1..n
  Parts,         \* kinds of file that can be damaged at rest
  MaxDirs,       \* bound: directories ever created beside the first
  MaxCommits,    \* bound: canonical commits
  MaxStarts,     \* bound: daemon starts that reach a run record
  MaxArchives,   \* bound: complete backups kept in one home
  MaxHomeFaults  \* bound: crashes, failed calls and damaged archives

ASSUME HomeAssumption ==
  /\ Parts \subseteq
       {"database", "config", "artifacts", "extensions", "secrets"}
  /\ Schemas \subseteq Nat \ {0}
  /\ {MaxDirs, MaxCommits, MaxStarts, MaxArchives, MaxHomeFaults} \subseteq Nat

VARIABLES
  dirs,       \* [Dirs -> DirRow]
  homeDir,    \* the directory the home path names
  daemons,    \* [Daemons -> DaemonRow]
  activator,  \* the mealyctl process replacing the home
  supported,  \* schema version of the installed program
  commits,    \* canonical commits so far
  starts,     \* daemon start identities so far
  homeFaults

homeVars == <<dirs, homeDir, daemons, activator, supported, commits, starts,
              homeFaults>>

Dirs == 0..MaxDirs
Starts == 1..MaxStarts
NoStart == 0
Cli == "mealyctl"
Unlocked == "unlocked"

RunStatus == {"absent", "running", "clean", "forced", "unclean"}

\* Files that can be damaged at rest: extensions stands for the configured
\* skill packages, MCP executables and browser bundle, secrets for the owner
\* identity with the channel and provider credentials.
BesideDatabase == Parts \ {"database", "config"}

\* What a complete backup or a migration snapshot holds; secrets says that
\* the encrypted secret archive is included.
BackupRow ==
  [kind : {"complete", "migration"}, data : SUBSET (1..MaxCommits),
   runs : [Starts -> RunStatus], schema : Nat, to : Nat, secrets : BOOLEAN,
   damaged : SUBSET Parts]

DirRow ==
  [state : {"absent", "partial", "whole"}, data : SUBSET (1..MaxCommits),
   schema : Nat, runs : [Starts -> RunStatus], marker : {NoStart} \cup Starts,
   backups : SUBSET BackupRow, damaged : SUBSET BesideDatabase,
   lock : Daemons \cup {Cli, Unlocked}]

\* dir is the directory of the open database, lockDir the one whose lock
\* file is open; worker is the blocking task that ends a clean drain.
DaemonRow ==
  [pc : {"off", "opened", "locked", "inspected", "stored", "up", "draining",
         "forcing"},
   lockDir : Dirs, dir : Dirs, start : {NoStart} \cup Starts,
   worker : {"none", "waiting", "completed", "done"}]

ActivatorRow ==
  [pc : {"idle", "locked", "materialized", "sealed", "exchanged",
         "compensating"},
   lockDir : Dirs, candidate : Dirs, from : BackupRow]

NoDir == [state |-> "absent", data |-> {}, schema |-> 0,
          runs |-> [s \in Starts |-> "absent"], marker |-> NoStart,
          backups |-> {}, damaged |-> {}, lock |-> Unlocked]
IdleDaemon == [pc |-> "off", lockDir |-> 0, dir |-> 0, start |-> NoStart,
               worker |-> "none"]
NoBackup == [kind |-> "complete", data |-> {},
             runs |-> [s \in Starts |-> "absent"], schema |-> 0, to |-> 0,
             secrets |-> FALSE, damaged |-> {}]
IdleActivator == [pc |-> "idle", lockDir |-> 0, candidate |-> 0,
                  from |-> NoBackup]

-----------------------------------------------------------------------------
HomeFault == homeFaults < MaxHomeFaults /\ homeFaults' = homeFaults + 1
NoHomeFault == UNCHANGED homeFaults

DaemonAt(d, pc) == daemons[d].pc = pc

\* A process that ends closes its lock file.
Released(ds, who) ==
  [i \in Dirs |-> IF ds[i].lock = who THEN [ds[i] EXCEPT !.lock = Unlocked]
                                      ELSE ds[i]]

DaemonEnds(d) ==
  /\ daemons' = [daemons EXCEPT ![d] = IdleDaemon]
  /\ dirs' = Released(dirs, d)

-----------------------------------------------------------------------------
(* Starting a daemon.                                                      *)

\* acquire_instance_lock: open the file behind the home path, then try the
\* lock of the file that was opened.
OpenInstanceLock(d) ==
  /\ DaemonAt(d, "off") /\ starts < MaxStarts
  /\ daemons' = [daemons EXCEPT ![d].pc = "opened", ![d].lockDir = homeDir]
  /\ UNCHANGED <<dirs, homeDir, activator, supported, commits, starts,
                 homeFaults>>

AcquireInstanceLock(d) ==
  /\ DaemonAt(d, "opened")
  /\ LET i == daemons[d].lockDir
     IN  IF dirs[i].lock = Unlocked
         THEN /\ dirs' = [dirs EXCEPT ![i].lock = d]
              /\ daemons' = [daemons EXCEPT ![d].pc = "locked"]
         ELSE DaemonEnds(d)
  /\ UNCHANGED <<homeDir, activator, supported, commits, starts, homeFaults>>

\* create_pre_migration_backup, published under the home before the store is
\* opened for writing; a failure ends the start.
MigrationSnapshot(row) ==
  [kind |-> "migration", data |-> row.data, runs |-> row.runs,
   schema |-> row.schema, to |-> supported, secrets |-> FALSE,
   damaged |-> {}]

\* load_or_create_daemon_config checks the configured executables and
\* bundles; load_or_create_identity decodes the owner identity.
ConfigLoads(row) == row.damaged \cap {"extensions", "secrets"} = {}

InspectSchema(d) ==
  /\ DaemonAt(d, "locked")
  /\ LET row == dirs[homeDir]
         older == row.schema # 0 /\ row.schema < supported
     IN  \/ /\ NoHomeFault /\ ConfigLoads(row)
            /\ dirs' = IF older
                       THEN [dirs EXCEPT ![homeDir].backups =
                               @ \cup {MigrationSnapshot(row)}]
                       ELSE dirs
            /\ daemons' = [daemons EXCEPT ![d].pc = "inspected"]
         \/ /\ IF ConfigLoads(row) THEN older /\ HomeFault ELSE NoHomeFault
            /\ DaemonEnds(d)
  /\ UNCHANGED <<homeDir, activator, supported, commits, starts>>

\* SqliteStore::open migrates in one transaction, and refuses a newer schema;
\* a failed open leaves the database as it was (with a forensic copy).
OpenStore(d) ==
  /\ DaemonAt(d, "inspected")
  /\ \/ /\ dirs[homeDir].schema <= supported /\ NoHomeFault
        /\ dirs' = [dirs EXCEPT ![homeDir].schema = supported]
        /\ daemons' = [daemons EXCEPT ![d].pc = "stored", ![d].dir = homeDir]
     \/ /\ IF dirs[homeDir].schema <= supported THEN HomeFault
                                                ELSE NoHomeFault
        /\ DaemonEnds(d)
  /\ UNCHANGED <<homeDir, activator, supported, commits, starts>>

\* complete_daemon_run: only a running record is completed.
CanComplete(row, s) == s # NoStart /\ row.runs[s] = "running"

\* The marker's run is completed as forced.  A conflict is accepted only if
\* the newest run is the marker's and is already recorded as forced.
NewestRun(row) ==
  LET known == {s \in Starts : row.runs[s] # "absent"}
  IN  IF known = {} THEN NoStart
      ELSE CHOOSE s \in known : \A r \in known : r <= s

Reconciles(row) ==
  \/ CanComplete(row, row.marker)
  \/ row.marker = NewestRun(row) /\ row.runs[row.marker] = "forced"

ReconciledRow(row) ==
  [row EXCEPT !.marker = NoStart,
     !.runs = IF CanComplete(row, row.marker)
              THEN [@ EXCEPT ![row.marker] = "forced"] ELSE @]

\* begin_daemon_run closes every record left running by a vanished process.
BegunRow(row, s) ==
  [row EXCEPT !.runs = [r \in Starts |->
     CASE r = s -> "running"
       [] r # s /\ row.runs[r] = "running" -> "unclean"
       [] OTHER -> row.runs[r]]]

Begin(d) ==
  /\ DaemonAt(d, "stored")
  /\ LET i == daemons[d].dir
         row == dirs[i]
     IN  IF row.marker # NoStart /\ ~Reconciles(row)
         THEN DaemonEnds(d) /\ UNCHANGED starts
         ELSE /\ starts < MaxStarts /\ starts' = starts + 1
              /\ dirs' = [dirs EXCEPT ![i] =
                   BegunRow(IF row.marker = NoStart THEN row
                            ELSE ReconciledRow(row), starts + 1)]
              /\ daemons' = [daemons EXCEPT ![d].pc = "up",
                                            ![d].start = starts + 1]
  /\ UNCHANGED <<homeDir, activator, supported, commits, homeFaults>>

-----------------------------------------------------------------------------
(* Serving, backing up and leaving.                                        *)

Commit(d) ==
  /\ DaemonAt(d, "up") /\ commits < MaxCommits
  /\ commits' = commits + 1
  /\ dirs' = [dirs EXCEPT ![daemons[d].dir].data = @ \cup {commits + 1}]
  /\ UNCHANGED <<homeDir, daemons, activator, supported, starts, homeFaults>>

\* Artifact copies must match the rows of the database copy, extension copies
\* the digests of the configuration copy; secrets are read only for an archive
\* with a passphrase.
Captures(row) == row.damaged \cap {"artifacts", "extensions"} = {}

SecretsCaptured(row) == "secrets" \notin row.damaged

\* create_complete_archive holds the writer: online copy, configuration,
\* artifacts checked against the copy, then one rename publishes it.
CreateBackup(d) ==
  /\ DaemonAt(d, "up") /\ Captures(dirs[homeDir])
  /\ Cardinality({b \in dirs[homeDir].backups : b.kind = "complete"})
       < MaxArchives
  /\ \E secrets \in BOOLEAN :
       LET row == dirs[daemons[d].dir]
       IN  /\ secrets => SecretsCaptured(dirs[homeDir])
           /\ dirs' = [dirs EXCEPT ![homeDir].backups = @ \cup
                {[kind |-> "complete", data |-> row.data, runs |-> row.runs,
                  schema |-> row.schema, to |-> 0, secrets |-> secrets,
                  damaged |-> {}]}]
  /\ UNCHANGED <<homeDir, daemons, activator, supported, commits, starts,
                 homeFaults>>

DrainRequested(d) ==
  /\ DaemonAt(d, "up")
  /\ daemons' = [daemons EXCEPT ![d].pc = "draining",
                                ![d].worker = "waiting"]
  /\ UNCHANGED <<dirs, homeDir, activator, supported, commits, starts,
                 homeFaults>>

\* The blocking worker takes the writer and records a clean end ...
WorkerCompletes(d) ==
  /\ daemons[d].worker = "waiting"
  /\ LET i == daemons[d].dir
         s == daemons[d].start
     IN  IF CanComplete(dirs[i], s)
         THEN /\ dirs' = [dirs EXCEPT ![i].runs[s] = "clean"]
              /\ daemons' = [daemons EXCEPT ![d].worker = "completed"]
         ELSE /\ UNCHANGED dirs
              /\ daemons' = [daemons EXCEPT ![d].worker = "done"]
  /\ UNCHANGED <<homeDir, activator, supported, commits, starts, homeFaults>>

\* ... and keeps the writer while it checkpoints.
WorkerCheckpoints(d) ==
  /\ daemons[d].worker = "completed"
  /\ daemons' = [daemons EXCEPT ![d].worker = "done"]
  /\ UNCHANGED <<dirs, homeDir, activator, supported, commits, starts,
                 homeFaults>>

DrainFinishes(d) ==
  /\ DaemonAt(d, "draining") /\ daemons[d].worker = "done"
  /\ DaemonEnds(d)
  /\ UNCHANGED <<homeDir, activator, supported, commits, starts, homeFaults>>

\* Deadline or second signal: record_forced_shutdown writes the marker
\* first.  The worker is not stopped by the elapsed deadline.
ForceDrain(d) ==
  /\ DaemonAt(d, "draining")
  /\ dirs' = [dirs EXCEPT ![homeDir].marker = daemons[d].start]
  /\ daemons' = [daemons EXCEPT ![d].pc = "forcing"]
  /\ UNCHANGED <<homeDir, activator, supported, commits, starts, homeFaults>>

\* Then it tries the writer, and removes the marker if the record took.
ForceRecord(d) ==
  /\ DaemonAt(d, "forcing")
  /\ LET i == daemons[d].dir
         s == daemons[d].start
         free == daemons[d].worker # "completed"
         took == free /\ CanComplete(dirs[i], s)
         after == [dirs EXCEPT ![i].runs[s] = IF took THEN "forced" ELSE @,
                               ![homeDir].marker = IF took THEN NoStart
                                                   ELSE @]
     IN  dirs' = Released(after, d)
  /\ daemons' = [daemons EXCEPT ![d] = IdleDaemon]
  /\ UNCHANGED <<homeDir, activator, supported, commits, starts, homeFaults>>

DaemonCrash(d) ==
  /\ daemons[d].pc # "off" /\ HomeFault
  /\ DaemonEnds(d)
  /\ UNCHANGED <<homeDir, activator, supported, commits, starts>>

-----------------------------------------------------------------------------
(* Replacing a stopped home: run_restore_activation with activate_backup,  *)
(* and run_migration_home_activation with activate_migration_backup.       *)

LockStoppedHome ==
  /\ activator.pc = "idle" /\ dirs[homeDir].lock = Unlocked
  /\ dirs' = [dirs EXCEPT ![homeDir].lock = Cli]
  /\ activator' = [IdleActivator EXCEPT !.pc = "locked", !.lockDir = homeDir]
  /\ UNCHANGED <<homeDir, daemons, supported, commits, starts, homeFaults>>

\* Every file of the manifest is compared with its digest.
FilesVerify(b) == b.damaged = {}

\* The secret archive decrypts and names an owner active in the database.
SecretsRestore(b) == b.secrets /\ "secrets" \notin b.damaged

ExtensionsVerify(b) == "extensions" \notin b.damaged

\* A complete archive is activated only with its secret archive, and opening
\* the restored database with this program must not migrate it.
CompleteVerifies(b) ==
  /\ FilesVerify(b) /\ SecretsRestore(b) /\ ExtensionsVerify(b)
  /\ b.schema = supported

\* Artifacts, extensions and secrets of a migration snapshot come from the
\* active home, and are verified there.
ActiveFilesVerify(row) == row.damaged = {}

\* A snapshot is activated only over the schema it was taken for.
MigrationVerifies(b, row) ==
  /\ FilesVerify(b) /\ ActiveFilesVerify(row)
  /\ b.to = row.schema /\ b.schema < b.to

Activatable(b, row) ==
  IF b.kind = "complete" THEN CompleteVerifies(b)
                         ELSE MigrationVerifies(b, row)

\* The sibling directory is filled and verified file by file.
BeginMaterialize(i) ==
  /\ activator.pc = "locked" /\ dirs[i].state = "absent"
  /\ \E b \in dirs[homeDir].backups :
       /\ Activatable(b, dirs[homeDir])
       /\ dirs' = [dirs EXCEPT ![i] =
            [NoDir EXCEPT !.state = "partial", !.data = b.data,
                          !.runs = b.runs, !.schema = b.schema,
                          !.damaged = (b.damaged \cap BesideDatabase) \cup
                            IF b.kind = "complete" THEN {}
                            ELSE dirs[homeDir].damaged]]
       /\ activator' = [activator EXCEPT !.pc = "materialized",
                          !.candidate = i, !.from = b]
  /\ UNCHANGED <<homeDir, daemons, supported, commits, starts, homeFaults>>

\* Activation evidence, a lock taken in the candidate, everything synced.
SealCandidate ==
  /\ activator.pc = "materialized"
  /\ dirs' = [dirs EXCEPT ![activator.candidate].state = "whole",
                          ![activator.candidate].lock = Cli]
  /\ activator' = [activator EXCEPT !.pc = "sealed"]
  /\ UNCHANGED <<homeDir, daemons, supported, commits, starts, homeFaults>>

\* renameat2(RENAME_EXCHANGE): after it the other name holds the old home.
ExchangeHomes ==
  /\ activator.pc = "sealed"
  /\ homeDir' = activator.candidate
  /\ activator' = [activator EXCEPT !.pc = "exchanged"]
  /\ UNCHANGED <<dirs, daemons, supported, commits, starts, homeFaults>>

ActivationEnds(ds) ==
  /\ dirs' = Released(ds, Cli)
  /\ activator' = IdleActivator

\* The parent directory is synced: the guard is disarmed.
ActivationSucceeds ==
  /\ activator.pc = "exchanged"
  /\ ActivationEnds(dirs)
  /\ UNCHANGED <<homeDir, daemons, supported, commits, starts, homeFaults>>

\* Mutant of ParentSyncFails: the failed sync is reported, the guard armed.
ParentSyncUncompensated ==
  /\ activator.pc = "exchanged" /\ HomeFault
  /\ activator' = [activator EXCEPT !.pc = "compensating"]
  /\ UNCHANGED <<dirs, homeDir, daemons, supported, commits, starts>>

\* The sync fails: exchange back; if that fails too the guard is disarmed
\* and both directories stay.
ParentSyncFails ==
  /\ activator.pc = "exchanged" /\ HomeFault
  /\ \/ /\ homeDir' = activator.lockDir
        /\ activator' = [activator EXCEPT !.pc = "compensating"]
        /\ UNCHANGED dirs
     \/ ActivationEnds(dirs) /\ UNCHANGED homeDir
  /\ UNCHANGED <<daemons, supported, commits, starts>>

\* CleanupDirectory removes what the sibling name holds: the candidate, both
\* when a step before the exchange fails and after a compensation.
SiblingDir ==
  IF homeDir = activator.candidate THEN activator.lockDir
                                   ELSE activator.candidate

CleanupCandidate ==
  /\ \/ activator.pc = "compensating" /\ NoHomeFault
     \/ activator.pc \in {"materialized", "sealed"} /\ HomeFault
  /\ ActivationEnds([dirs EXCEPT ![SiblingDir] = NoDir])
  /\ UNCHANGED <<homeDir, daemons, supported, commits, starts>>

ActivationRefused ==
  /\ activator.pc = "locked"
  /\ ActivationEnds(dirs)
  /\ UNCHANGED <<homeDir, daemons, supported, commits, starts, homeFaults>>

ActivatorCrash ==
  /\ activator.pc # "idle" /\ HomeFault
  /\ ActivationEnds(dirs)
  /\ UNCHANGED <<homeDir, daemons, supported, commits, starts>>

\* The installer replaces the program while the home is stopped.
InstallProgram ==
  /\ dirs[homeDir].lock = Unlocked
  /\ supported' \in Schemas \ {supported}
  /\ UNCHANGED <<dirs, homeDir, daemons, activator, commits, starts,
                 homeFaults>>

\* A file of an archive or of the home is damaged at rest.
DamageBackup ==
  /\ HomeFault
  /\ \E b \in dirs[homeDir].backups, part \in Parts :
       dirs' = [dirs EXCEPT ![homeDir].backups =
                  (@ \ {b}) \cup {[b EXCEPT !.damaged = @ \cup {part}]}]
  /\ UNCHANGED <<homeDir, daemons, activator, supported, commits, starts>>

DamageHome ==
  /\ HomeFault
  /\ \E part \in BesideDatabase :
       dirs' = [dirs EXCEPT ![homeDir].damaged = @ \cup {part}]
  /\ UNCHANGED <<homeDir, daemons, activator, supported, commits, starts>>

-----------------------------------------------------------------------------
HomeInit ==
  /\ dirs = [i \in Dirs |-> IF i = 0 THEN [NoDir EXCEPT !.state = "whole"]
                                     ELSE NoDir]
  /\ homeDir = 0
  /\ daemons = [d \in Daemons |-> IdleDaemon]
  /\ activator = IdleActivator
  /\ supported \in Schemas
  /\ commits = 0 /\ starts = 0 /\ homeFaults = 0

HomeNext ==
  \/ \E d \in Daemons :
       \/ OpenInstanceLock(d) \/ AcquireInstanceLock(d)
       \/ InspectSchema(d) \/ OpenStore(d) \/ Begin(d) \/ Commit(d)
       \/ CreateBackup(d) \/ DrainRequested(d)
       \/ WorkerCompletes(d) \/ WorkerCheckpoints(d) \/ DrainFinishes(d)
       \/ ForceDrain(d) \/ ForceRecord(d) \/ DaemonCrash(d)
  \/ LockStoppedHome \/ (\E i \in Dirs : BeginMaterialize(i))
  \/ SealCandidate \/ ExchangeHomes \/ ActivationSucceeds \/ ParentSyncFails
  \/ CleanupCandidate \/ ActivationRefused \/ ActivatorCrash
  \/ InstallProgram \/ DamageBackup \/ DamageHome

HomeSpec == HomeInit /\ [][HomeNext]_homeVars

-----------------------------------------------------------------------------
(* Properties.                                                             *)

HomeTypeOK ==
  /\ \A i \in Dirs :
       /\ dirs[i] \in DirRow
       /\ dirs[i].data \subseteq 1..commits
       /\ dirs[i].schema \in Schemas \cup {0}
       /\ dirs[i].marker \in 0..starts
       /\ \A b \in dirs[i].backups : b.schema \in Schemas
  /\ homeDir \in Dirs
  /\ \A d \in Daemons : daemons[d] \in DaemonRow
  /\ activator \in ActivatorRow
  /\ supported \in Schemas

\* At every instant, crashes between any two steps included, the home path
\* names a complete home: either the old one or a sealed candidate.
HomeIsWhole == dirs[homeDir].state = "whole"

\* No activation, compensation or cleanup removes a directory that holds a
\* commit no other directory holds: the old home is preserved.
CommittedIsKept ==
  \A c \in 1..commits : \E i \in Dirs : c \in dirs[i].data

\* The run of a daemon serving the home it locked is the only one recorded as
\* running there: every vanished predecessor was closed as unclean or forced.
OneRunningRecord ==
  \A d \in Daemons :
    (daemons[d].pc = "up" /\ dirs[daemons[d].dir].lock = d) =>
    {s \in Starts : dirs[daemons[d].dir].runs[s] = "running"} =
      {daemons[d].start}

\* docs/OPERATIONS.md: the forced-shutdown marker is reconciled into
\* daemon_run_record.  Whatever a forced drain leaves behind, the next start
\* gets past it.
MarkerReconciles ==
  \A i \in Dirs :
    (dirs[i].state = "whole" /\ dirs[i].lock = Unlocked
       /\ dirs[i].marker # NoStart) => Reconciles(dirs[i])

\* What the home promises across crashes of the daemon and of an activation: it
\* is always whole, holds what was committed or what the owner chose to restore,
\* and has one running record.
HomeSafety ==
  /\ HomeTypeOK
  /\ HomeIsWhole
  /\ CommittedIsKept
  /\ OneRunningRecord
=============================================================================
