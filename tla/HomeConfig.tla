----------------------------- MODULE HomeConfig -----------------------------
(***************************************************************************)
(* The configuration of a Mealy home.  A stopped home is changed by the    *)
(* `mealyctl config' and `mealyctl skill' commands: each takes the lock of *)
(* the home, reads config.json, checks one change against it, installs the *)
(* content the change names, keeps the replaced document and publishes the *)
(* new one.  The daemon takes the same lock, accepts or refuses the        *)
(* document, archives it and resolves what it names.  A command or a start *)
(* may be killed between any two of these steps.                           *)
(***************************************************************************)
EXTENDS Integers, Sequences, FiniteSets, FiniteSetsExt

CONSTANTS
  Workspaces, Commands,     \* identities an owner may grant
  Providers,                \* provider configurations other than the fixture
  Credential,               \* [Providers -> SecretIds \cup {NoSecret}]
  Latency,                  \* [Providers -> Nat], estimated latency plus margin
  SecretIds, SecretValues,
  Packages,                 \* skill packages, by manifest digest
  Manifest,                 \* [Packages -> [skill, instructions, resources, sound]]
  NoSecret,
  DefaultTimeout, MaximumWallTime,
  MaximumFallbacks, MaximumSkills, MaximumEnabledSkills,
  MaximumInstructionBytes, MaximumResourceBytes,
  InitialHomes,             \* homes explored from: [config, content, secrets]
  MaxCommands, MaxKills     \* bounds of the exploration

VARIABLES
  config,       \* config.json
  history,      \* configurations kept in config-history/pre-*.json
  archived,     \* configurations kept in config-history/<digest>.json
  content,      \* packages and browser bundle installed below the home
  secrets,      \* provider-secrets
  command,      \* the command holding the home's lock, past its checks
  daemon,       \* the daemon holding the home's lock
  published,    \* every document config.json ever was
  commands, kills

homeConfigVars == <<config, history, archived, content, secrets, command, daemon, published, commands, kills>>
configHeld == <<config, history, archived, content, secrets, published>>

Fixture == "fixture"
Bundle == "bundle"
NoValue == "absent"
Torn == "torn"
Empty == "empty"
NoSkill == [package |-> "none", enabled |-> FALSE]
SkillIds == {Manifest[p].skill : p \in Packages}
Idle == [stage |-> "idle"]
Stopped == [stage |-> "stopped"]

DefaultConfig ==
  [timeout |-> DefaultTimeout, primary |-> Fixture, fallbacks |-> <<>>,
   workspaces |-> [w \in Workspaces |-> "absent"], commands |-> {},
   web |-> FALSE, search |-> NoSecret, browser |-> "absent",
   skills |-> [s \in SkillIds |-> NoSkill]]

NewHome == [config |-> DefaultConfig, content |-> {}, secrets |-> [s \in SecretIds |-> NoValue]]

HomeConfigInit ==
  /\ \E h \in InitialHomes : config = h.config /\ content = h.content /\ secrets = h.secrets
  /\ history = {} /\ archived = {}
  /\ command = Idle /\ daemon = Stopped
  /\ published = {config}
  /\ commands = 0 /\ kills = 0

----------------------------------------------------------------------------
(* What a document names, and what each reader checks of it.              *)

Chain(c) == <<c.primary>> \o c.fallbacks
ChainIds(c) == {Chain(c)[i] : i \in 1 .. Len(Chain(c))}
SecretOf(p) == IF p = Fixture THEN NoSecret ELSE Credential[p]
References(c) == ({SecretOf(p) : p \in ChainIds(c)} \cup {c.search}) \ {NoSecret}
Installed(c) == {s \in SkillIds : c.skills[s] # NoSkill}
Enabled(c) == {s \in Installed(c) : c.skills[s].enabled}
Named(c) ==
  {c.skills[s].package : s \in Installed(c)}
  \cup (IF c.browser = "absent" THEN {} ELSE {Bundle})
Writable(c) == {w \in Workspaces : c.workspaces[w] = "write"}

ChainValidates(c) ==
  /\ Len(c.fallbacks) <= MaximumFallbacks
  /\ c.primary = Fixture => c.fallbacks = <<>>
  /\ Cardinality(ChainIds(c)) = Len(Chain(c))

\* DaemonConfig::validate: the rules that relate two fields.
CommandsHaveWorkspace(c) == c.commands # {} => Writable(c) # {}
BrowserHasWeb(c) == c.browser = "enabled" => c.web
ConfigValidates(c) == ChainValidates(c) /\ CommandsHaveWorkspace(c) /\ BrowserHasWeb(c)

InstructionBytes(c, S) == MapThenSumSet(LAMBDA s : Manifest[c.skills[s].package].instructions, S)
ResourceBytes(c, S) == MapThenSumSet(LAMBDA s : Manifest[c.skills[s].package].resources, S)
SkillSetFits(c, S) ==
  /\ Cardinality(S) <= MaximumEnabledSkills
  /\ InstructionBytes(c, S) <= MaximumInstructionBytes
  /\ ResourceBytes(c, S) <= MaximumResourceBytes

FilesResolve(c) == (c.browser # "absent") => Bundle \in content
SkillsResolve(c) == Named(c) \ {Bundle} \subseteq content /\ SkillSetFits(c, Enabled(c))
\* FileProviderSecretStore::read refuses an empty file; part of a credential
\* reads like any other.
Readable(s) == secrets[s] \notin {NoValue, Empty}
SecretsResolve(c) == \A s \in References(c) : Readable(s)

----------------------------------------------------------------------------
(* A command.  Until it publishes it holds the lock and has changed        *)
(* nothing; `install' is the content and `put' the credential it brings.   *)

HomeIsStopped == command = Idle /\ daemon = Stopped

NoPut == [secret |-> NoSecret, value |-> NoValue]

Command(op, next, install, put) ==
  /\ HomeIsStopped /\ commands < MaxCommands
  /\ \E first \in IF op = "provider" THEN {"probe", "install"} ELSE {"install"} :
       command' = [stage |-> first, op |-> op, next |-> next, install |-> install, put |-> put]
  /\ commands' = commands + 1
  /\ UNCHANGED <<config, history, archived, content, secrets, daemon, published, kills>>

\* FileProviderSecretStore::put never replaces different material.

Putable(put) == put.secret # NoSecret => secrets[put.secret] \in {NoValue, put.value}
Put(put) == IF put.secret = NoSecret THEN secrets ELSE [secrets EXCEPT ![put.secret] = put.value]

\* A provider is asked for a bounded reply, unless the owner skips the test,
\* before anything of it is stored.
ProbeProvider ==
  /\ command.stage = "probe"
  /\ command' \in {[command EXCEPT !.stage = "install"], Idle}
  /\ UNCHANGED <<configHeld, daemon, commands, kills>>

InstallContent ==
  /\ command.stage = "install"
  /\ content' = content \cup command.install
  /\ secrets' = Put(command.put)
  /\ command' = [command EXCEPT !.stage = "preimage"]
  /\ UNCHANGED <<config, history, archived, daemon, published, commands, kills>>

KeepPreimage ==
  /\ command.stage = "preimage"
  /\ history' = history \cup {config}
  /\ command' = [command EXCEPT !.stage = "publish"]
  /\ UNCHANGED <<config, archived, content, secrets, daemon, published, commands, kills>>

PublishConfigCleaning ==
  /\ command.stage = "publish"
  /\ config' = command.next
  /\ published' = published \cup {command.next}
  /\ content' = content \ (Named(config) \ Named(command.next))
  /\ command' = Idle
  /\ UNCHANGED <<history, archived, secrets, daemon, commands, kills>>

PublishConfig ==
  /\ command.stage = "publish"
  /\ config' = command.next
  /\ published' = published \cup {command.next}
  /\ command' = Idle
  /\ UNCHANGED <<history, archived, content, secrets, daemon, commands, kills>>

\* A killed process releases the lock.  A credential file being written when
\* that happens stays, with none or part of its bytes; content and documents are
\* renamed into place.
KillCommand ==
  /\ command # Idle /\ kills < MaxKills
  /\ kills' = kills + 1
  /\ command' = Idle
  /\ secrets' \in {secrets} \cup
       (IF command.stage = "install" /\ command.put.secret # NoSecret
           /\ secrets[command.put.secret] = NoValue
        THEN {[secrets EXCEPT ![command.put.secret] = v] : v \in {Torn, Empty}} ELSE {})
  /\ UNCHANGED <<config, history, archived, content, daemon, published, commands>>

----------------------------------------------------------------------------
(* Workspaces and commands.                                               *)

GrantWorkspace(w) ==
  /\ config.workspaces[w] = "absent"
  /\ Command("workspace", [config EXCEPT !.workspaces[w] = "read"], {}, NoPut)

RevokeWorkspace(w) ==
  /\ config.workspaces[w] # "absent"
  /\ Command("workspace", [config EXCEPT !.workspaces[w] = "absent"], {}, NoPut)

WorkspaceWrite(w, writable) ==
  /\ config.workspaces[w] # "absent"
  /\ (config.workspaces[w] = "write") # writable
  /\ Command("workspace", [config EXCEPT !.workspaces[w] = IF writable THEN "write" ELSE "read"], {}, NoPut)

GrantProcess(k) ==
  /\ k \notin config.commands /\ Writable(config) # {}
  /\ Command("process", [config EXCEPT !.commands = @ \cup {k}], {}, NoPut)

RevokeProcess(k) ==
  /\ k \in config.commands
  /\ Command("process", [config EXCEPT !.commands = @ \ {k}], {}, NoPut)

----------------------------------------------------------------------------
(* Web access and the rendered browser.                                   *)

EnableWeb(s, v) ==
  LET put == IF s = NoSecret THEN NoPut ELSE [secret |-> s, value |-> v]
  IN  /\ Putable(put)
      /\ Command("web", [config EXCEPT !.web = TRUE, !.search = s], {}, put)

DisableWeb ==
  /\ config.browser # "enabled" /\ config.web
  /\ Command("web", [config EXCEPT !.web = FALSE, !.search = NoSecret], {}, NoPut)

AddBrowser ==
  /\ config.browser = "absent" /\ config.web
  /\ Command("browser", [config EXCEPT !.browser = "enabled"], {Bundle}, NoPut)

EnableBrowser ==
  /\ config.browser = "disabled" /\ config.web /\ Bundle \in content
  /\ Command("browser", [config EXCEPT !.browser = "enabled"], {}, NoPut)

DisableBrowser ==
  /\ config.browser = "enabled"
  /\ Command("browser", [config EXCEPT !.browser = "disabled"], {}, NoPut)

RevokeBrowser ==
  /\ config.browser # "absent"
  /\ Command("browser", [config EXCEPT !.browser = "absent"], {}, NoPut)

----------------------------------------------------------------------------
(* Skill packages.                                                        *)

\* inspect_skill_package: the package is what its manifest digests say.
PackageInspected(p) == Manifest[p].sound

InstallSkill(p) ==
  /\ PackageInspected(p)
  /\ config.skills[Manifest[p].skill] = NoSkill
  /\ Cardinality(Installed(config)) < MaximumSkills
  /\ Command("skill", [config EXCEPT !.skills[Manifest[p].skill] = [package |-> p, enabled |-> FALSE]], {p}, NoPut)

\* `expected' is the digest the owner reviewed.
UpdateSkill(expected, p) ==
  /\ PackageInspected(p) /\ Manifest[p].skill = Manifest[expected].skill
  /\ config.skills[Manifest[p].skill] # NoSkill /\ config.skills[Manifest[p].skill].package = expected
  /\ Command("skill", [config EXCEPT !.skills[Manifest[p].skill] = [package |-> p, enabled |-> FALSE]], {p}, NoPut)

EnableSkill(expected) ==
  LET s == Manifest[expected].skill IN
  /\ config.skills[s] # NoSkill /\ config.skills[s].package = expected
  /\ expected \in content
  /\ SkillSetFits(config, Enabled(config) \cup {s})
  /\ Command("skill", [config EXCEPT !.skills[s].enabled = TRUE], {}, NoPut)

DisableSkill(expected) ==
  LET s == Manifest[expected].skill IN
  /\ config.skills[s] # NoSkill /\ config.skills[s].package = expected
  /\ expected \in content
  /\ Command("skill", [config EXCEPT !.skills[s].enabled = FALSE], {}, NoPut)

----------------------------------------------------------------------------
(* Providers and their credentials.                                       *)

\* ensure_provider_timeout only ever raises the timeout.
TimeoutFor(c, p) == IF c.timeout < Latency[p] THEN Latency[p] ELSE c.timeout

ImportFor(p, v) == IF Credential[p] = NoSecret THEN NoPut ELSE [secret |-> Credential[p], value |-> v]

ConfigureProvider(p, v) ==
  LET next == [config EXCEPT !.primary = p, !.timeout = TimeoutFor(config, p)]
  IN  /\ Latency[p] <= MaximumWallTime
      /\ ChainValidates(next) /\ Putable(ImportFor(p, v))
      /\ Command("provider", next, {}, ImportFor(p, v))

ConfigureProviderFallback(p, v) ==
  LET next == [config EXCEPT !.fallbacks = Append(@, p), !.timeout = TimeoutFor(config, p)]
  IN  /\ Latency[p] <= MaximumWallTime
      /\ ChainValidates(next) /\ Putable(ImportFor(p, v))
      /\ Command("provider", next, {}, ImportFor(p, v))

RemoveProviderFallback(p) ==
  /\ ChainValidates(config)
  /\ \E i \in 1 .. Len(config.fallbacks) : config.fallbacks[i] = p
  /\ Command("fallback-remove", [config EXCEPT !.fallbacks = SelectSeq(@, LAMBDA q : q # p)], {}, NoPut)

\* The store is read first, so an empty credential file is not removed.
RevokeProviderSecret(s) ==
  /\ HomeIsStopped /\ commands < MaxCommands
  /\ s \notin References(config) /\ Readable(s)
  /\ secrets' = [secrets EXCEPT ![s] = NoValue]
  /\ commands' = commands + 1
  /\ UNCHANGED <<config, history, archived, content, command, daemon, published, kills>>

\* Only the name and the format version of the archived document are checked.
RollbackConfig(c) == c \in archived /\ Command("rollback", c, {}, NoPut)

----------------------------------------------------------------------------
(* The daemon: it validates and archives before it resolves credentials    *)
(* and packages, and keeps the lock until it ends.                         *)

Archive(c) == archived' = archived \cup {c}

StartDaemon ==
  /\ HomeIsStopped
  /\ ConfigValidates(config) /\ FilesResolve(config)
  /\ Archive(config)
  /\ daemon' = [stage |-> "starting", config |-> config]
  /\ UNCHANGED <<config, history, content, secrets, command, published, commands, kills>>

ResolveRuntime ==
  /\ daemon.stage = "starting"
  /\ daemon' = IF SecretsResolve(daemon.config) /\ SkillsResolve(daemon.config)
               THEN [daemon EXCEPT !.stage = "running"] ELSE Stopped
  /\ UNCHANGED <<configHeld, command, commands, kills>>

StopDaemon ==
  /\ daemon # Stopped
  /\ daemon' = Stopped
  /\ UNCHANGED <<configHeld, command, commands, kills>>

----------------------------------------------------------------------------

CapabilityCommands ==
  \/ \E w \in Workspaces : GrantWorkspace(w) \/ RevokeWorkspace(w)
  \/ \E w \in Workspaces, b \in BOOLEAN : WorkspaceWrite(w, b)
  \/ \E k \in Commands : GrantProcess(k) \/ RevokeProcess(k)
  \/ \E s \in SecretIds \cup {NoSecret}, v \in SecretValues : EnableWeb(s, v)
  \/ DisableWeb \/ AddBrowser \/ EnableBrowser \/ DisableBrowser \/ RevokeBrowser

SkillCommands ==
  \E p \in Packages :
    \/ InstallSkill(p) \/ EnableSkill(p) \/ DisableSkill(p)
    \/ \E q \in Packages : UpdateSkill(q, p)

PrimaryCommands == \E p \in Providers, v \in SecretValues : ConfigureProvider(p, v)

FallbackCommands ==
  \/ \E p \in Providers, v \in SecretValues : ConfigureProviderFallback(p, v)
  \/ \E p \in Providers : RemoveProviderFallback(p)
  \/ \E s \in SecretIds : RevokeProviderSecret(s)

HomeConfigNext ==
  \/ CapabilityCommands \/ SkillCommands \/ PrimaryCommands \/ FallbackCommands
  \/ \E c \in archived : RollbackConfig(c)
  \/ ProbeProvider \/ InstallContent \/ KeepPreimage \/ PublishConfig \/ KillCommand
  \/ StartDaemon \/ ResolveRuntime \/ StopDaemon

----------------------------------------------------------------------------

Configs ==
  [timeout : Nat, primary : Providers \cup {Fixture}, fallbacks : Seq(Providers),
   workspaces : [Workspaces -> {"absent", "read", "write"}], commands : SUBSET Commands,
   web : BOOLEAN, search : SecretIds \cup {NoSecret}, browser : {"absent", "disabled", "enabled"},
   skills : [SkillIds -> {NoSkill} \cup [package : Packages, enabled : BOOLEAN]]]

\* Every stored document is a configuration the daemon's types can hold, the
\* home's lock has one holder, and a credential the store can read is one an
\* owner imported.
ConfigTypeOK ==
  /\ {config} \cup history \cup archived \cup published \subseteq Configs
  /\ content \subseteq Packages \cup {Bundle}
  /\ secrets \in [SecretIds -> SecretValues \cup {NoValue, Torn, Empty}]
  /\ command = Idle \/ daemon = Stopped

\* What the daemon runs with is what config.json says, is in the archive, and
\* every credential and package it names was there: nothing changes below a
\* running daemon (lock_stopped_home, acquire_instance_lock).
RunningIsCurrent ==
  daemon.stage = "running" =>
    /\ daemon.config = config /\ config \in archived
    /\ SecretsResolve(config) /\ SkillsResolve(config)

\* A document that config.json held and no longer holds is kept, whatever was
\* killed in between (the pre-<operation> copies of every publish function).
ReplacedIsKept == published \subseteq history \cup {config}

\* Whatever an archived configuration names is still installed, so rolling back
\* to it never meets missing content: revoking or updating removes nothing
\* (runtime_retained_for_rollback, executable_retained_for_rollback).
RollbackContentKept == \A c \in archived : Named(c) \subseteq content

\* No sequence of commands leaves an enabled browser without web access, an
\* invalid provider chain, or more enabled skills than the daemon will load.
PublishedIsLoadable ==
  /\ BrowserHasWeb(config) /\ ChainValidates(config)
  /\ FilesResolve(config) /\ SkillsResolve(config)

\* The provider timeout covers the estimated latency of every provider of the
\* chain, whichever order they were configured in (ensure_provider_timeout).
TimeoutCoversChain == \A p \in ChainIds(config) \ {Fixture} : Latency[p] <= config.timeout

\* What the configuration commands promise in any order and killed anywhere: a
\* running daemon has the published file, what it replaced can be rolled back to,
\* and what is published loads with a sufficient timeout.
ConfigSafety ==
  /\ ConfigTypeOK
  /\ RunningIsCurrent
  /\ ReplacedIsKept
  /\ RollbackContentKept
  /\ PublishedIsLoadable
  /\ TimeoutCoversChain
=============================================================================
