------------------------------ MODULE Extensions ------------------------------
(***************************************************************************)
(* Installed extensions: the digest-pinned manifest, the owner's grant and *)
(* the invocation evidence (sqlite/extension.rs, application/extension.rs, *)
(* extension_host.rs, and the handlers of backend.rs).  A handler reads a  *)
(* view under the read guard, inspects files and runs sandboxed code       *)
(* outside it, and commits under the write guard.                          *)
(***************************************************************************)
EXTENDS Naturals, Sequences, FiniteSets

CONSTANTS
  ExtIds,            \* extension identities
  Manifests,         \* manifest byte sequences, as records
  ExtRequests,       \* authority an owner may ask for when enabling
  ExtInputs,         \* invocation inputs, objects of scalar fields
  ExtCalls,          \* concurrent API calls
  MaximumExtensionInvocations,
  MaxExtRevision,    \* bound: lifecycle revisions
  MaxInvocations,    \* bound: recorded invocations
  MaxExtFaults       \* bound: replaced packages and crashes

VARIABLES
  installation,  \* [ExtIds -> row], extension_installation and its history
  grants,        \* sequence of extension_grant rows; a grant id is an index
  invocations,   \* sequence of extension_invocation rows
  extCall,       \* [ExtCalls -> what the handler holds]
  package,       \* manifests whose files still have their digests
  extDaemon,     \* "serving", "down" or "recovering"
  extFaults

extVars ==
  <<installation, grants, invocations, extCall, package, extDaemon, extFaults>>

HostApiVersion == 1

AbsentExtension == [status |-> "absent", revision |-> 0, history |-> <<>>, grant |-> 0]
IdleCall == [pc |-> "idle", kind |-> "none"]

\* load_manifest_at: a revision of the immutable history.
ManifestAt(x, ordinal) == installation[x].history[ordinal]
CurrentManifest(x) == ManifestAt(x, Len(installation[x].history))

\* load_extension: the row with its manifest and, when enabled, its grant.
View(x) ==
  [status |-> installation[x].status, revision |-> installation[x].revision,
   manifest |-> CurrentManifest(x), grant |-> installation[x].grant]

-----------------------------------------------------------------------------
\* Manifests and grants.

\* validate_schema: a required field is declared, a length bounds a string.
SchemaValidates(s) ==
  /\ s.required \subseteq DOMAIN s.properties
  /\ s.maximumBytes > 0
  /\ \A f \in DOMAIN s.properties : s.properties[f].maximum > 0

\* validate_migrations: a migration runs a declared capability.
MigrationsValidate(m) ==
  \A g \in m.migrations : g.from # g.to /\ g.capability \in DOMAIN m.capabilities

\* validate_shutdown: an RPC shutdown is a read-only capability.
ShutdownValidates(m) ==
  m.shutdown = {} \/ \E c \in DOMAIN m.capabilities :
    m.shutdown = {c} /\ m.capabilities[c].effect = "read_only"

\* ExtensionManifest::validate.
ManifestValidates(m) ==
  /\ DOMAIN m.capabilities # {}
  /\ \A c \in DOMAIN m.capabilities : SchemaValidates(m.capabilities[c].input)
  /\ m.health \in DOMAIN m.capabilities
  /\ m.capabilities[m.health].effect = "read_only"
  /\ MigrationsValidate(m) /\ ShutdownValidates(m)

\* inspect_extension_manifest: the pin, the contract and the host API range.
ManifestInspects(m) == ManifestValidates(m) /\ HostApiVersion \in m.hostApi

\* inspect_extension_package, verify_package_identity: every digest of the
\* executable and its runtime files.
PackageInspects(m) == m \in package

\* validate_extension_mount_roots: no mount overlaps the daemon's home.
MountRootsValidate(a) == \A n \in DOMAIN a.mounts : ~a.mounts[n].overlapsHome

\* ExtensionGrant::validate: every granted axis within what m requests.
GrantValidates(a, m) ==
  /\ a.capabilities # {} /\ a.capabilities \subseteq DOMAIN m.capabilities
  /\ DOMAIN a.mounts \subseteq DOMAIN m.filesystem
  /\ \A n \in DOMAIN a.mounts :
       m.filesystem[n] = "read_only" => a.mounts[n].access = "read_only"
  /\ a.network \subseteq m.network /\ a.secrets \subseteq m.secrets
  /\ a.spawn => m.spawn

\* validate_extension_object.
FieldFits(v, f) == v.type = f.type /\ v.size <= f.maximum
ObjectFits(v, s) ==
  /\ s.required \subseteq DOMAIN v
  /\ s.additional \/ DOMAIN v \subseteq DOMAIN s.properties
  /\ Cardinality(DOMAIN v) <= s.maximumBytes
  /\ \A f \in DOMAIN v \cap DOMAIN s.properties : FieldFits(v[f], s.properties[f])

\* ExtensionRpcRequest::validate.
RequestValidates(m, a, c, v) ==
  /\ GrantValidates(a, m) /\ c \in a.capabilities
  /\ ObjectFits(v, m.capabilities[c].input)

\* What the host refuses before it launches the worker.
HostSupports(m, a, c) ==
  /\ m.capabilities[c].effect = "read_only"
  /\ ~a.spawn /\ a.network = {} /\ a.secrets = {}
  /\ \A n \in DOMAIN a.mounts : a.mounts[n].access = "read_only"

-----------------------------------------------------------------------------
\* Store operations.

\* terminalize_active_grant.
Terminalized(x, status) ==
  IF installation[x].grant = 0 THEN grants
  ELSE [grants EXCEPT ![installation[x].grant].status = status]

Returns(c) == extCall' = [extCall EXCEPT ![c] = IdleCall]

\* load_current_for_mutation: the row at the expected revision.
AtExpectedRevision(c) ==
  installation[extCall[c].ext].revision = extCall[c].revision

InstallExtension(x, m) ==
  /\ extDaemon = "serving" /\ installation[x].status = "absent"
  /\ m.extension = x /\ ManifestInspects(m) /\ PackageInspects(m)
  /\ installation' = [installation EXCEPT ![x] =
       [AbsentExtension EXCEPT !.status = "installed", !.history = <<m>>]]
  /\ UNCHANGED <<grants, invocations, extCall, package, extDaemon, extFaults>>

\* A client sends a lifecycle request naming the revision it last saw.
AskLifecycle(c, kind, x, m, a) ==
  /\ extDaemon = "serving" /\ extCall[c].pc = "idle"
  /\ installation[x].status # "absent"
  /\ installation[x].revision < MaxExtRevision
  /\ extCall' = [extCall EXCEPT ![c] =
       [pc |-> "asked", kind |-> kind, ext |-> x, manifest |-> m,
        authority |-> a, revision |-> installation[x].revision]]
  /\ UNCHANGED <<installation, grants, invocations, package, extDaemon, extFaults>>

\* Mutant of Staged: the previous grant stays in place.
StagedKeepingGrant(x, m) ==
  /\ UNCHANGED grants
  /\ installation' = [installation EXCEPT
       ![x] = [@ EXCEPT !.revision = @ + 1, !.history = Append(@, m)]]

StagedRow(row, m) ==
  [row EXCEPT !.status = "installed", !.revision = @ + 1,
              !.history = Append(@, m), !.grant = 0]

\* The store's stage: the authority of the previous manifest is superseded
\* in the transaction that makes m current.
Staged(x, m) ==
  /\ grants' = Terminalized(x, "superseded")
  /\ installation' = [installation EXCEPT ![x] = StagedRow(@, m)]

\* stage_extension_manifest: another manifest of the same extension.
StageExtensionManifest(c) ==
  LET x == extCall[c].ext  m == extCall[c].manifest IN
  /\ extCall[c].pc = "asked" /\ extCall[c].kind = "stage"
  /\ Returns(c)
  /\ IF /\ m.extension = x /\ ManifestInspects(m) /\ PackageInspects(m)
        /\ AtExpectedRevision(c) /\ installation[x].status # "revoked"
        /\ CurrentManifest(x).name = m.name /\ CurrentManifest(x) # m
     THEN Staged(x, m) ELSE UNCHANGED <<grants, installation>>
  /\ UNCHANGED <<invocations, package, extDaemon, extFaults>>

RetiredRow(row, status) ==
  [row EXCEPT !.status = status, !.revision = @ + 1, !.grant = 0]

\* transition_out_of_enabled and revoke_extension: the row leaves its state
\* and its grant in one transaction.
Retire(c, kind, from, status) ==
  LET x == extCall[c].ext IN
  /\ extCall[c].pc = "asked" /\ extCall[c].kind = kind
  /\ Returns(c)
  /\ IF AtExpectedRevision(c) /\ installation[x].status \in from
     THEN /\ grants' = Terminalized(x, "revoked")
          /\ installation' = [installation EXCEPT ![x] = RetiredRow(@, status)]
     ELSE UNCHANGED <<grants, installation>>
  /\ UNCHANGED <<invocations, package, extDaemon, extFaults>>

DisableExtension(c) == Retire(c, "disable", {"enabled"}, "disabled")
RevokeExtension(c) ==
  Retire(c, "revoke", {"installed", "enabled", "disabled"}, "revoked")

\* enable_extension up to the health probe: the view at the expected
\* revision, the files, the grant and the health request.
EnableView(c) ==
  LET v == View(extCall[c].ext)  m == v.manifest  a == extCall[c].authority IN
  /\ extCall[c].pc = "asked" /\ extCall[c].kind = "enable"
  /\ extCall' = [extCall EXCEPT ![c] =
       IF /\ v.revision = extCall[c].revision
          /\ MountRootsValidate(a) /\ PackageInspects(m)
          /\ RequestValidates(m, a, m.health, <<>>)
          /\ HostSupports(m, a, m.health)
       THEN [@ EXCEPT !.pc = "probing", !.manifest = m]
       ELSE IdleCall]
  /\ UNCHANGED <<installation, grants, invocations, package, extDaemon, extFaults>>

\* The sandboxed health invocation; the host verifies the package again.
HealthProbe(c) ==
  /\ extCall[c].pc = "probing"
  /\ \/ /\ PackageInspects(extCall[c].manifest)
        /\ extCall' = [extCall EXCEPT ![c].pc = "probed"]
     \/ Returns(c)
  /\ UNCHANGED <<installation, grants, invocations, package, extDaemon, extFaults>>

EnabledRow(row, grant) ==
  [row EXCEPT !.status = "enabled", !.revision = @ + 1, !.grant = grant]

\* The store's enable: a fresh grant bound to the current manifest.
Enable(c) ==
  LET x == extCall[c].ext IN
  /\ grants' = Append(grants,
       [ext |-> x, ordinal |-> Len(installation[x].history),
        authority |-> extCall[c].authority, status |-> "active"])
  /\ installation' = [installation EXCEPT ![x] = EnabledRow(@, Len(grants) + 1)]

\* Mutant of EnableCommit: the revision and the manifest the probe saw
\* are not compared.
EnableCommitUnfenced(c) ==
  LET x == extCall[c].ext IN
  /\ extCall[c].pc = "probed" /\ Returns(c)
  /\ IF /\ installation[x].status \in {"installed", "disabled"}
        /\ GrantValidates(extCall[c].authority, CurrentManifest(x))
     THEN Enable(c) ELSE UNCHANGED <<grants, installation>>
  /\ UNCHANGED <<invocations, package, extDaemon, extFaults>>

EnableCommit(c) ==
  LET x == extCall[c].ext IN
  /\ extCall[c].pc = "probed" /\ Returns(c)
  /\ IF /\ AtExpectedRevision(c)
        /\ installation[x].status \in {"installed", "disabled"}
        /\ extCall[c].manifest = CurrentManifest(x)
        /\ GrantValidates(extCall[c].authority, CurrentManifest(x))
     THEN Enable(c) ELSE UNCHANGED <<grants, installation>>
  /\ UNCHANGED <<invocations, package, extDaemon, extFaults>>

-----------------------------------------------------------------------------
\* extension (GET): the only handler that takes a slot of the
\* KeyedConcurrencyLimiter; the guard is dropped when it returns.
InFlight(x) == Cardinality({c \in ExtCalls : extCall[c].kind = "get" /\ extCall[c].ext = x})

GetExtension(c, x) ==
  /\ extDaemon = "serving" /\ extCall[c].pc = "idle"
  /\ InFlight(x) < MaximumExtensionInvocations
  /\ extCall' = [extCall EXCEPT ![c] = [pc |-> "reading", kind |-> "get", ext |-> x]]
  /\ UNCHANGED <<installation, grants, invocations, package, extDaemon, extFaults>>

GetReturns(c) ==
  /\ extCall[c].pc = "reading" /\ Returns(c)
  /\ UNCHANGED <<installation, grants, invocations, package, extDaemon, extFaults>>

\* invoke_extension up to its first commit: the view, its grant, the files
\* and the schema-checked request.
InvokeView(c, x, k, v) ==
  LET w == View(x)  g == grants[w.grant] IN
  /\ extDaemon = "serving" /\ extCall[c].pc = "idle"
  /\ w.status = "enabled"
  /\ MountRootsValidate(g.authority) /\ PackageInspects(w.manifest)
  /\ RequestValidates(w.manifest, g.authority, k, v)
  /\ Len(invocations) < MaxInvocations
  /\ extCall' = [extCall EXCEPT ![c] =
       [pc |-> "viewed", kind |-> "invoke", ext |-> x, capability |-> k,
        manifest |-> w.manifest, authority |-> g.authority,
        grant |-> w.grant, revision |-> w.revision, invocation |-> 0]]
  /\ UNCHANGED <<installation, grants, invocations, package, extDaemon, extFaults>>

\* The store's dispatch evidence.
Dispatch(c) ==
  LET k == extCall[c] IN
  /\ invocations' = Append(invocations,
       [ext |-> k.ext, ordinal |-> Len(installation[k.ext].history),
        grant |-> k.grant, capability |-> k.capability,
        status |-> "dispatching", evidence |-> "none"])
  /\ extCall' = [extCall EXCEPT ![c].pc = "running",
                                ![c].invocation = Len(invocations) + 1]

\* begin_extension_invocation: the evidence commits before code runs, under
\* the exact revision, manifest and active grant of the view.
BeginInvocation(c) ==
  LET k == extCall[c]  v == View(k.ext) IN
  /\ k.pc = "viewed" /\ Len(invocations) < MaxInvocations
  /\ IF /\ v.status = "enabled" /\ v.revision = k.revision
        /\ v.manifest = k.manifest /\ v.grant = k.grant
        /\ k.capability \in grants[v.grant].authority.capabilities
     THEN Dispatch(c)
     ELSE Returns(c) /\ UNCHANGED invocations
  /\ UNCHANGED <<installation, grants, package, extDaemon, extFaults>>

\* ExtensionRpcResponse::validate: what the worker returned names this
\* invocation, manifest, grant and capability, and fits the output schema.
WorkerAnswers == {"bound", "unbound", "none"}
ResponseValidates(answer) == answer = "bound"

\* LinuxBubblewrapExtensionHost::new and invoke: the identity is verified,
\* and a response that does not bind the request is a failure.
HostInvoke(c, answer) ==
  LET k == extCall[c] IN
  /\ k.pc = "running"
  /\ extCall' = [extCall EXCEPT ![c].pc =
       IF /\ PackageInspects(k.manifest)
          /\ HostSupports(k.manifest, k.authority, k.capability)
          /\ ResponseValidates(answer)
       THEN "succeeded" ELSE "failed"]
  /\ UNCHANGED <<installation, grants, invocations, package, extDaemon, extFaults>>

\* terminal_material: a response for a success, a class and message
\* otherwise.
TerminalRow(row, terminal) ==
  [row EXCEPT !.status = terminal,
              !.evidence = IF terminal = "succeeded" THEN "response" ELSE "error"]

\* complete_extension_invocation with the result the handler holds.
CompleteInvocation(c) ==
  LET k == extCall[c] IN
  /\ k.pc \in {"succeeded", "failed"} /\ Returns(c)
  /\ IF invocations[k.invocation].status = "dispatching"
     THEN invocations' = [invocations EXCEPT ![k.invocation] = TerminalRow(@, k.pc)]
     ELSE UNCHANGED invocations
  /\ UNCHANGED <<installation, grants, package, extDaemon, extFaults>>

-----------------------------------------------------------------------------
\* Faults and recovery.

\* The owner or a package manager replaces installed files.
ReplacePackage(m) ==
  /\ extFaults < MaxExtFaults /\ m \in package
  /\ package' = package \ {m} /\ extFaults' = extFaults + 1
  /\ UNCHANGED <<installation, grants, invocations, extCall, extDaemon>>

ExtCrash ==
  /\ extFaults < MaxExtFaults /\ extDaemon # "down"
  /\ extDaemon' = "down" /\ extFaults' = extFaults + 1
  /\ extCall' = [c \in ExtCalls |-> IdleCall]
  /\ UNCHANGED <<installation, grants, invocations, package>>

ExtStart ==
  /\ extDaemon = "down" /\ extDaemon' = "recovering"
  /\ UNCHANGED <<installation, grants, invocations, extCall, package, extFaults>>

Dispatching == {i \in DOMAIN invocations : invocations[i].status = "dispatching"}

\* One commit of recover_extension_invocations.
RecoverInvocation(i) ==
  /\ extDaemon = "recovering" /\ i \in Dispatching
  /\ invocations' = [invocations EXCEPT ![i] = TerminalRow(@, "abandoned")]
  /\ UNCHANGED <<installation, grants, extCall, package, extDaemon, extFaults>>

\* The loop ends when no incomplete invocation is found.
RecoveryDone == Dispatching = {}

ExtServe ==
  /\ extDaemon = "recovering" /\ RecoveryDone
  /\ extDaemon' = "serving"
  /\ UNCHANGED <<installation, grants, invocations, extCall, package, extFaults>>

-----------------------------------------------------------------------------
ExtInit ==
  /\ installation = [x \in ExtIds |-> AbsentExtension]
  /\ grants = <<>> /\ invocations = <<>>
  /\ extCall = [c \in ExtCalls |-> IdleCall]
  /\ package = Manifests
  /\ extDaemon = "serving" /\ extFaults = 0

NoAuthority == [capabilities |-> {}, mounts |-> <<>>, network |-> {}, secrets |-> {}, spawn |-> FALSE]

ExtCallNext(c) ==
  \/ \E x \in ExtIds :
       \/ \E m \in Manifests : AskLifecycle(c, "stage", x, m, NoAuthority)
       \/ \E a \in ExtRequests : AskLifecycle(c, "enable", x, CurrentManifest(x), a)
       \/ \E k \in {"disable", "revoke"} :
            AskLifecycle(c, k, x, CurrentManifest(x), NoAuthority)
       \/ GetExtension(c, x)
       \/ \E v \in ExtInputs :
            /\ installation[x].status = "enabled"
            /\ \E k \in DOMAIN CurrentManifest(x).capabilities : InvokeView(c, x, k, v)
  \/ StageExtensionManifest(c) \/ DisableExtension(c) \/ RevokeExtension(c)
  \/ EnableView(c) \/ HealthProbe(c) \/ EnableCommit(c) \/ GetReturns(c)
  \/ BeginInvocation(c) \/ CompleteInvocation(c)
  \/ \E answer \in WorkerAnswers : HostInvoke(c, answer)

ExtNext ==
  \/ \E x \in ExtIds, m \in Manifests : InstallExtension(x, m)
  \/ \E c \in ExtCalls : ExtCallNext(c)
  \/ \E m \in Manifests : ReplacePackage(m)
  \/ ExtCrash \/ ExtStart \/ ExtServe
  \/ \E i \in DOMAIN invocations : RecoverInvocation(i)

ExtSpec == ExtInit /\ [][ExtNext]_extVars

-----------------------------------------------------------------------------
ExtStatuses == {"absent", "installed", "enabled", "disabled", "revoked"}

\* The columns load_invocation_unchecked reads back.
InvocationRows ==
  [ext : ExtIds, ordinal : Nat \ {0}, grant : Nat \ {0},
   capability : UNION {DOMAIN m.capabilities : m \in Manifests},
   status : {"dispatching", "succeeded", "failed", "abandoned"},
   evidence : {"none", "response", "error"}]

\* Every row has the shape the loaders accept: a history ordinal that
\* exists, a grant that was issued for the same extension, and terminal
\* evidence that matches the status.
ExtensionTypeOK ==
  /\ \A x \in ExtIds :
       /\ installation[x].status \in ExtStatuses
       /\ installation[x].history \in Seq(Manifests)
       /\ installation[x].grant \in 0..Len(grants)
  /\ \A i \in DOMAIN invocations : LET r == invocations[i] IN
       /\ r \in InvocationRows
       /\ r.ordinal \in DOMAIN installation[r.ext].history
       /\ r.grant \in DOMAIN grants /\ grants[r.grant].ext = r.ext
       /\ grants[r.grant].ordinal = r.ordinal
       /\ r.evidence = CASE r.status = "dispatching" -> "none"
                         [] r.status = "succeeded" -> "response"
                         [] OTHER -> "error"

\* Extension::transition with its table `allowed'.
TransitionAllowed(from, to) ==
  \/ from = "absent" /\ to = "installed"
  \/ from = "installed" /\ to \in {"enabled", "installed", "revoked"}
  \/ from = "enabled" /\ to \in {"disabled", "installed", "revoked"}
  \/ from = "disabled" /\ to \in {"enabled", "installed", "revoked"}

\* The store keeps to the domain's lifecycle, one revision at a time, and
\* never forgets a manifest revision; a revoked extension never changes.
ExtensionFollowsDomain ==
  \A x \in ExtIds : LET o == installation[x]  n == installation'[x] IN
    o # n =>
      /\ TransitionAllowed(o.status, n.status)
      /\ o.status # "absent" => n.revision = o.revision + 1
      /\ SubSeq(n.history, 1, Len(o.history)) = o.history

\* An active grant belongs to an enabled installation, was issued for its
\* current manifest and stays within what that manifest requests: staging,
\* disabling and revoking leave no authority behind, whichever handlers were
\* between their view and their commit.
AuthorityIsCurrent ==
  /\ \A x \in ExtIds : installation[x].status = "enabled" <=> installation[x].grant # 0
  /\ \A g \in DOMAIN grants : grants[g].status = "active" =>
       LET x == grants[g].ext IN
       /\ installation[x].grant = g
       /\ grants[g].ordinal = Len(installation[x].history)
       /\ GrantValidates(grants[g].authority, CurrentManifest(x))

\* An owner's stage, disable or revoke that commits while an enable is being
\* probed is not undone by it: a call turns an extension on only if nothing
\* changed since the view the health probe ran against.
EnableFollowsProbe ==
  \A x \in ExtIds :
    installation[x].status # "enabled" /\ installation'[x].status = "enabled"
    => \E c \in ExtCalls :
         /\ extCall[c].pc = "probed" /\ extCall'[c].pc = "idle"
         /\ extCall[c].revision = installation[x].revision
         /\ extCall[c].manifest = CurrentManifest(x)

\* Dispatch evidence is written only for an extension that is enabled at
\* that moment, under its active grant and for a granted capability, so
\* nothing is dispatched after the owner disables, restages or revokes.
DispatchIsAuthorized ==
  \A i \in DOMAIN invocations' \ DOMAIN invocations :
    LET r == invocations'[i] IN
    /\ installation[r.ext].status = "enabled"
    /\ installation[r.ext].grant = r.grant
    /\ r.capability \in grants[r.grant].authority.capabilities

\* Every launched worker has its dispatch evidence, and outside startup
\* recovery every dispatch without a terminal outcome is one that a live
\* call will complete: a crash leaves no invocation undecided.
DispatchIsOwned ==
  /\ \A c \in ExtCalls : extCall[c].pc = "running" =>
       invocations[extCall[c].invocation].status = "dispatching"
  /\ extDaemon = "serving" =>
       \A i \in Dispatching : \E c \in ExtCalls :
         /\ extCall[c].pc \in {"running", "succeeded", "failed"}
         /\ extCall[c].invocation = i

\* What the extension tables promise under concurrent calls and crashes: rows
\* are well formed, an enabled extension runs under a grant for its current
\* manifest, and each dispatched invocation has a call or awaits recovery.
ExtensionSafety ==
  /\ ExtensionTypeOK
  /\ AuthorityIsCurrent
  /\ DispatchIsOwned

\* What no step of an extension's lifecycle may do, whatever is staged, revoked
\* or replaced between a handler's view and its commit.
ExtensionSteps ==
  [][/\ ExtensionFollowsDomain
     /\ EnableFollowsProbe
     /\ DispatchIsAuthorized]_extVars
==============================================================================
