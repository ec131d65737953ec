--------------------------- MODULE ProviderProofs ---------------------------
(***************************************************************************)
(* Proofs about what the daemon shares between its runs and the programs   *)
(* they reach.  Extensions: the tables of installations and grants name    *)
(* each other, a dispatched invocation had current authority, and a        *)
(* launched handler alone owns its row.  ProviderRouting: slots are the    *)
(* threads in flight, the rate window holds, retries walk the chain, and a *)
(* call of unknown outcome is not repeated.                                *)
(***************************************************************************)
EXTENDS Extensions, ProviderRouting, TLAPS


(***************************************************************************)
(* Extensions.  The rows of the two tables a lifecycle commit writes       *)
(* together, the invocations that refer to them, and what a handler holds  *)
(* between its view and its commit.                                        *)
(***************************************************************************)
Authorities == ExtRequests \cup {NoAuthority}

InstallationRows ==
  [status : ExtStatuses, revision : Nat, history : Seq(Manifests), grant : Nat]

GrantRows ==
  [ext : ExtIds, ordinal : Nat, authority : Authorities,
   status : {"active", "superseded", "revoked"}]

\* An enabled row and its grant name each other; no other grant is active.
RowHolds(x) ==
  /\ (installation[x].history = <<>>) <=> (installation[x].status = "absent")
  /\ (installation[x].status = "enabled") <=> (installation[x].grant # 0)
  /\ installation[x].grant \in 0..Len(grants)
  /\ installation[x].grant # 0 =>
       /\ grants[installation[x].grant].ext = x
       /\ grants[installation[x].grant].ordinal = Len(installation[x].history)

GrantHolds(g) ==
  grants[g].status = "active" =>
    /\ installation[grants[g].ext].grant = g
    /\ grants[g].ordinal = Len(installation[grants[g].ext].history)
    /\ GrantValidates(grants[g].authority, CurrentManifest(grants[g].ext))

TablesInv ==
  /\ installation \in [ExtIds -> InstallationRows]
  /\ grants \in Seq(GrantRows)
  /\ \A x \in ExtIds : RowHolds(x)
  /\ \A g \in DOMAIN grants : GrantHolds(g)

EvidenceOf(status) ==
  CASE status = "dispatching" -> "none"
    [] status = "succeeded" -> "response"
    [] OTHER -> "error"

\* An invocation refers to a manifest revision and to a grant issued for it.
RefersTo(r) ==
  /\ r.ordinal \in DOMAIN installation[r.ext].history
  /\ r.grant \in DOMAIN grants
  /\ grants[r.grant].ext = r.ext /\ grants[r.grant].ordinal = r.ordinal

InvocationHolds(i) ==
  /\ RefersTo(invocations[i])
  /\ invocations[i].evidence = EvidenceOf(invocations[i].status)

InvocationsInv ==
  /\ invocations \in Seq(InvocationRows)
  /\ \A i \in DOMAIN invocations : InvocationHolds(i)

ExtCapabilities == UNION {DOMAIN m.capabilities : m \in Manifests}

LifecycleCalls ==
  [pc : {"asked", "probing", "probed"}, kind : {"stage", "enable", "disable", "revoke"},
   ext : ExtIds, manifest : Manifests, authority : Authorities, revision : Nat]
ReadingCalls == [pc : {"reading"}, kind : {"get"}, ext : ExtIds]
InvokeCalls ==
  [pc : {"viewed", "running", "succeeded", "failed"}, kind : {"invoke"}, ext : ExtIds,
   capability : ExtCapabilities, manifest : Manifests, authority : Authorities,
   grant : Nat, revision : Nat, invocation : Nat]

ExtCallRecords == {IdleCall} \cup LifecycleCalls \cup ReadingCalls \cup InvokeCalls

Launched(c) == extCall[c].pc \in {"running", "succeeded", "failed"}

\* A launched call owns its dispatching row alone; calls live only while the
\* daemon serves, and while it serves every dispatching row has its call.
CallsInv ==
  /\ extDaemon \in {"serving", "down", "recovering"}
  /\ extCall \in [ExtCalls -> ExtCallRecords]
  /\ \A c \in ExtCalls : extCall[c].pc \in {"asked", "probing", "probed"} =>
       installation[extCall[c].ext].status # "absent"
  /\ extDaemon # "serving" => \A c \in ExtCalls : extCall[c] = IdleCall
  /\ \A c \in ExtCalls : Launched(c) =>
       /\ extCall[c].invocation \in DOMAIN invocations
       /\ invocations[extCall[c].invocation].status = "dispatching"
  /\ \A c, d \in ExtCalls : Launched(c) /\ Launched(d) /\ c # d =>
       extCall[c].invocation # extCall[d].invocation
  /\ extDaemon = "serving" =>
       \A i \in Dispatching : \E c \in ExtCalls : Launched(c) /\ extCall[c].invocation = i

ExtInv == TablesInv /\ InvocationsInv /\ CallsInv

\* The three lifecycle commits, by what they do to the tables.
LifecycleStep ==
  \/ \E x \in ExtIds, m \in Manifests : InstallExtension(x, m)
  \/ \E c \in ExtCalls :
       \/ StageExtensionManifest(c) \/ DisableExtension(c) \/ RevokeExtension(c)
       \/ EnableCommit(c)

\* Everything else leaves the two tables alone.
LEMMA ExtStepShape ==
    ASSUME [ExtNext]_extVars
    PROVE  UNCHANGED <<installation, grants>> \/ LifecycleStep
  <1>1. ASSUME NEW c \in ExtCalls, ExtCallNext(c)
        PROVE  UNCHANGED <<installation, grants>> \/ LifecycleStep
    <2>1. CASE \E x \in ExtIds :
                 \/ \E m \in Manifests : AskLifecycle(c, "stage", x, m, NoAuthority)
                 \/ \E a \in ExtRequests :
                      AskLifecycle(c, "enable", x, CurrentManifest(x), a)
                 \/ \E k \in {"disable", "revoke"} :
                      AskLifecycle(c, k, x, CurrentManifest(x), NoAuthority)
      BY <2>1, Zenon DEF AskLifecycle
    <2>2. CASE \E x \in ExtIds :
                 \/ GetExtension(c, x)
                 \/ \E v \in ExtInputs :
                      /\ installation[x].status = "enabled"
                      /\ \E k \in DOMAIN CurrentManifest(x).capabilities :
                           InvokeView(c, x, k, v)
      BY <2>2, Zenon DEF GetExtension, InvokeView
    <2>3. CASE \/ EnableView(c) \/ HealthProbe(c) \/ GetReturns(c)
               \/ BeginInvocation(c) \/ CompleteInvocation(c)
               \/ \E answer \in WorkerAnswers : HostInvoke(c, answer)
      BY <2>3, Zenon DEF EnableView, HealthProbe, GetReturns, BeginInvocation,
         CompleteInvocation, HostInvoke
    <2>4. CASE \/ StageExtensionManifest(c) \/ DisableExtension(c)
               \/ RevokeExtension(c) \/ EnableCommit(c)
      BY <2>4, Zenon DEF LifecycleStep
    <2> QED
      BY <1>1, <2>1, <2>2, <2>3, <2>4, Zenon DEF ExtCallNext
  <1>2. ASSUME \/ \E m \in Manifests : ReplacePackage(m)
               \/ ExtCrash \/ ExtStart \/ ExtServe
               \/ \E i \in DOMAIN invocations : RecoverInvocation(i)
               \/ UNCHANGED extVars
        PROVE  UNCHANGED <<installation, grants>>
    BY <1>2, Zenon DEF ReplacePackage, ExtCrash, ExtStart, ExtServe, RecoverInvocation,
       extVars
  <1> QED
    BY <1>1, <1>2, Zenon DEF ExtNext, LifecycleStep

\* Elements of the tables have their type.
LEMMA TableRows ==
    ASSUME TablesInv
    PROVE  /\ \A g \in DOMAIN grants : grants[g] \in GrantRows /\ grants[g].ext \in ExtIds
           /\ \A x \in ExtIds : installation[x] \in InstallationRows
           /\ DOMAIN grants = 1..Len(grants) /\ Len(grants) \in Nat
           /\ DOMAIN installation = ExtIds
  <1>1. /\ \A g \in DOMAIN grants : grants[g] \in GrantRows
        /\ DOMAIN grants = 1..Len(grants) /\ Len(grants) \in Nat
    BY DEF TablesInv
  <1>2. \A r \in GrantRows : r.ext \in ExtIds
    BY DEF GrantRows
  <1> QED
    BY <1>1, <1>2, Zenon DEF TablesInv

LEMMA EndedGrant ==
    ASSUME NEW g \in GrantRows, NEW st \in {"superseded", "revoked"}
    PROVE  LET h == [g EXCEPT !.status = st] IN
           /\ h \in GrantRows /\ h.ext = g.ext /\ h.ordinal = g.ordinal
           /\ h.authority = g.authority /\ h.status # "active"
  BY DEF GrantRows

\* Ending the grant of a row: nothing of x is active any more.
LEMMA TerminalizedRows ==
    ASSUME TablesInv, NEW x \in ExtIds, NEW st \in {"superseded", "revoked"}
    PROVE  /\ Terminalized(x, st) \in Seq(GrantRows)
           /\ Len(Terminalized(x, st)) = Len(grants)
           /\ \A g \in DOMAIN grants :
                /\ Terminalized(x, st)[g].ext = grants[g].ext
                /\ Terminalized(x, st)[g].ordinal = grants[g].ordinal
                /\ Terminalized(x, st)[g].authority = grants[g].authority
                /\ Terminalized(x, st)[g].status = "active" =>
                     grants[g].status = "active" /\ grants[g].ext # x
  <1>1. CASE installation[x].grant = 0
    <2>1. \A g \in DOMAIN grants : ~(grants[g].status = "active" /\ grants[g].ext = x)
      BY <1>1, TableRows DEF TablesInv, GrantHolds
    <2> QED
      BY <1>1, <2>1, Zenon DEF Terminalized, TablesInv
  <1>2. CASE installation[x].grant # 0
    <2>1. PICK n \in DOMAIN grants : n = installation[x].grant
      BY <1>2, TableRows DEF TablesInv, RowHolds
    <2>2. PICK ended : ended = [grants[n] EXCEPT !.status = st]
      BY Zenon
    <2>3. /\ ended \in GrantRows /\ ended.ext = grants[n].ext
          /\ ended.ordinal = grants[n].ordinal /\ ended.authority = grants[n].authority
          /\ ended.status # "active"
      BY <2>2, TableRows, EndedGrant, Zenon
    <2>4. Terminalized(x, st) = [grants EXCEPT ![n] = ended]
      BY <1>2, <2>1, <2>2, Zenon DEF Terminalized
    <2>5. /\ Terminalized(x, st) \in Seq(GrantRows)
          /\ Len(Terminalized(x, st)) = Len(grants)
          /\ \A g \in DOMAIN grants :
               Terminalized(x, st)[g] = IF g = n THEN ended ELSE grants[g]
      BY <2>3, <2>4 DEF TablesInv
    <2>6. \A g \in DOMAIN grants : grants[g].status = "active" /\ grants[g].ext = x => g = n
      BY <2>1, Zenon DEF TablesInv, GrantHolds
    <2> QED
      BY <2>3, <2>5, <2>6, Zenon
  <1> QED
    BY <1>1, <1>2, Zenon

\* What a lifecycle commit does to the tables, as one of three changes to the
\* row of one extension.
HistoryGrows(old, new) == new = old \/ \E m \in Manifests : new = Append(old, m)

\* A domain transition, with its revision and history.
Follows(o, n) ==
  /\ TransitionAllowed(o.status, n.status)
  /\ o.status # "absent" => n.revision = o.revision + 1
  /\ SubSeq(n.history, 1, Len(o.history)) = o.history

RetiredTo(x, row, st) ==
  /\ Follows(installation[x], row)
  /\ HistoryGrows(installation[x].history, row.history)
  /\ row \in InstallationRows /\ row.grant = 0
  /\ row.status \notin {"enabled", "absent"} /\ row.history # <<>>
  /\ grants' = Terminalized(x, st)
  /\ installation' = [installation EXCEPT ![x] = row]

LEMMA RetireKeepsTables ==
    ASSUME TablesInv, NEW x \in ExtIds, NEW row, NEW st \in {"superseded", "revoked"},
           RetiredTo(x, row, st)
    PROVE  TablesInv'
  <1>1. /\ installation' \in [ExtIds -> InstallationRows] /\ grants' \in Seq(GrantRows)
        /\ Len(grants') = Len(grants) /\ DOMAIN grants' = DOMAIN grants
    BY TerminalizedRows DEF RetiredTo, TablesInv
  <1>2. \A g \in DOMAIN grants :
          /\ grants'[g].ext = grants[g].ext
          /\ grants'[g].ordinal = grants[g].ordinal
          /\ grants'[g].authority = grants[g].authority
          /\ grants'[g].status = "active" => grants[g].status = "active" /\ grants[g].ext # x
    BY TerminalizedRows DEF RetiredTo
  <1>3. /\ installation'[x] = row
        /\ \A y \in ExtIds : y # x => installation'[y] = installation[y]
    BY DEF RetiredTo, TablesInv
  <1>4. ASSUME NEW y \in ExtIds
        PROVE  RowHolds(y)'
    <2>1. CASE y = x
      BY <1>1, <1>3, <2>1 DEF RetiredTo, RowHolds
    <2>2. CASE y # x
      <3>1. PICK n : n = installation[y].grant
        BY Zenon
      <3>2. n # 0 => n \in DOMAIN grants
        BY <3>1, TableRows DEF TablesInv, RowHolds
      <3>3. RowHolds(y)
        BY Zenon DEF TablesInv
      <3> QED
        BY <1>1, <1>2, <1>3, <2>2, <3>1, <3>2, <3>3, Zenon DEF RowHolds
    <2> QED
      BY <2>1, <2>2, Zenon
  <1>5. ASSUME NEW g \in DOMAIN grants', grants'[g].status = "active"
        PROVE  GrantHolds(g)'
    <2>1. PICK y \in ExtIds : y = grants[g].ext /\ y = grants'[g].ext
      BY <1>1, <1>2, TableRows, Zenon
    <2>2. installation'[y] = installation[y]
      BY <1>1, <1>2, <1>3, <1>5, <2>1, Zenon
    <2>3. CurrentManifest(y)' = CurrentManifest(y)
      BY <2>2, Zenon DEF CurrentManifest, ManifestAt
    <2>4. GrantHolds(g) /\ grants[g].status = "active"
      BY <1>1, <1>2, <1>5, Zenon DEF TablesInv
    <2> QED
      BY <1>1, <1>2, <2>1, <2>2, <2>3, <2>4, Zenon DEF GrantHolds
  <1>6. ASSUME NEW g \in DOMAIN grants'
        PROVE  GrantHolds(g)'
    BY <1>5, Zenon DEF GrantHolds
  <1> QED
    BY <1>1, <1>4, <1>6, Zenon DEF TablesInv

EnabledTo(x, row, grant) ==
  /\ Follows(installation[x], row)
  /\ row \in InstallationRows /\ row.status = "enabled" /\ row.grant = Len(grants) + 1
  /\ row.history = installation[x].history /\ row.history # <<>>
  /\ grant \in GrantRows /\ grant.ext = x /\ grant.ordinal = Len(row.history)
  /\ GrantValidates(grant.authority, CurrentManifest(x))
  /\ installation[x].grant = 0
  /\ grants' = Append(grants, grant)
  /\ installation' = [installation EXCEPT ![x] = row]

LEMMA EnableKeepsTables ==
    ASSUME TablesInv, NEW x \in ExtIds, NEW row, NEW grant, EnabledTo(x, row, grant)
    PROVE  TablesInv'
  <1>1. /\ installation' \in [ExtIds -> InstallationRows]
        /\ installation'[x] = row
        /\ \A y \in ExtIds : y # x => installation'[y] = installation[y]
    BY DEF EnabledTo, TablesInv
  <1>2. /\ grants' \in Seq(GrantRows) /\ Len(grants') = Len(grants) + 1
        /\ DOMAIN grants' = DOMAIN grants \cup {Len(grants) + 1}
        /\ grants'[Len(grants) + 1] = grant
        /\ \A g \in DOMAIN grants : grants'[g] = grants[g]
    BY DEF EnabledTo, TablesInv
  <1>3. ASSUME NEW y \in ExtIds
        PROVE  RowHolds(y)'
    <2>1. CASE y = x
      BY <1>1, <1>2, <2>1, TableRows DEF EnabledTo, RowHolds
    <2>2. CASE y # x
      <3>1. PICK n : n = installation[y].grant
        BY Zenon
      <3>2. RowHolds(y)
        BY Zenon DEF TablesInv
      <3>3. /\ n # 0 => n \in DOMAIN grants
            /\ n \in 0..Len(grants')
        BY <1>2, <3>1, <3>2, TableRows DEF RowHolds
      <3> QED
        BY <1>1, <1>2, <2>2, <3>1, <3>2, <3>3, Zenon DEF RowHolds
    <2> QED
      BY <2>1, <2>2, Zenon
  <1>4. CurrentManifest(x)' = CurrentManifest(x)
    BY <1>1, Zenon DEF EnabledTo, CurrentManifest, ManifestAt
  <1>5. ASSUME NEW g \in DOMAIN grants'
        PROVE  GrantHolds(g)'
    <2>1. CASE g = Len(grants) + 1
      BY <1>1, <1>2, <1>4, <2>1, Zenon DEF EnabledTo, GrantHolds
    <2>2. CASE g # Len(grants) + 1 /\ grants[g].status = "active"
      <3>1. PICK y \in ExtIds : y = grants[g].ext /\ y = grants'[g].ext
        BY <1>2, <2>2, TableRows, Zenon
      <3>2. GrantHolds(g) /\ g \in DOMAIN grants /\ g # 0
        BY <1>2, <2>2, TableRows DEF TablesInv
      <3>3. y # x
        BY <2>2, <3>1, <3>2, Zenon DEF GrantHolds, EnabledTo
      <3>4. CurrentManifest(y)' = CurrentManifest(y)
        BY <1>1, <3>3, Zenon DEF CurrentManifest, ManifestAt
      <3> QED
        BY <1>1, <1>2, <2>2, <3>1, <3>2, <3>3, <3>4, Zenon DEF GrantHolds
    <2>3. CASE g # Len(grants) + 1 /\ grants[g].status # "active"
      BY <1>2, <2>3, Zenon DEF GrantHolds
    <2> QED
      BY <2>1, <2>2, <2>3, Zenon
  <1> QED
    BY <1>1, <1>2, <1>3, <1>5, Zenon DEF TablesInv

\* The change of one row that a lifecycle commit makes.
RowRetires(x) ==
  \/ UNCHANGED <<installation, grants>>
  \/ \E row : \E st \in {"superseded", "revoked"} : RetiredTo(x, row, st)

TablesChange(x) == RowRetires(x) \/ \E row, grant : EnabledTo(x, row, grant)

LEMMA HistoryPrefix ==
    ASSUME NEW h \in Seq(Manifests), NEW m \in Manifests
    PROVE  SubSeq(h, 1, Len(h)) = h /\ SubSeq(Append(h, m), 1, Len(h)) = h
  OBVIOUS

\* What the lifecycle handlers hold.
LEMMA LifecycleCall ==
    ASSUME CallsInv, NEW c \in ExtCalls, extCall[c].pc \in {"asked", "probing", "probed"}
    PROVE  /\ extCall[c] \in LifecycleCalls
           /\ extCall[c].ext \in ExtIds /\ extCall[c].manifest \in Manifests
           /\ extCall[c].authority \in Authorities /\ extCall[c].revision \in Nat
           /\ extCall[c].kind \in {"stage", "enable", "disable", "revoke"}
           /\ installation[extCall[c].ext].status # "absent"
  <1>1. extCall[c] \in {IdleCall} \cup LifecycleCalls \cup ReadingCalls \cup InvokeCalls
    BY Zenon DEF CallsInv, ExtCallRecords
  <1>2. IdleCall.pc = "idle"
    BY DEF IdleCall
  <1>3. \A k \in ReadingCalls : k.pc = "reading"
    BY DEF ReadingCalls
  <1>4. \A k \in InvokeCalls : k.pc \in {"viewed", "running", "succeeded", "failed"}
    BY DEF InvokeCalls
  <1>5. extCall[c] \in LifecycleCalls
    BY <1>1, <1>2, <1>3, <1>4
  <1>6. \A k \in LifecycleCalls :
          /\ k.ext \in ExtIds /\ k.manifest \in Manifests
          /\ k.authority \in Authorities /\ k.revision \in Nat
          /\ k.kind \in {"stage", "enable", "disable", "revoke"}
    BY DEF LifecycleCalls
  <1> QED
    BY <1>5, <1>6, Zenon DEF CallsInv

\* The row a lifecycle commit writes.
LEMMA RetiredRowFields ==
    ASSUME NEW row \in InstallationRows, NEW status \in ExtStatuses
    PROVE  LET new == RetiredRow(row, status)
           IN  /\ new \in InstallationRows /\ new.grant = 0 /\ new.status = status
               /\ new.history = row.history /\ new.revision = row.revision + 1
  <1> DEFINE new == RetiredRow(row, status)
             flat == [status |-> status, revision |-> row.revision + 1,
                      history |-> row.history, grant |-> 0]
  <1>1. new = [f \in {"status", "revision", "history", "grant"} |-> new[f]]
    BY Zenon DEF InstallationRows, RetiredRow
  <1>2. /\ new.grant = 0 /\ new.status = status
        /\ new.history = row.history /\ new.revision = row.revision + 1
    BY DEF InstallationRows, RetiredRow
  <1>3. flat \in InstallationRows
    BY DEF InstallationRows, ExtStatuses
  <1> HIDE DEF new
  <1>4. new = [status |-> new.status, revision |-> new.revision,
               history |-> new.history, grant |-> new.grant]
    BY <1>1
  <1> QED
    BY <1>2, <1>3, <1>4, Zenon DEF new

LEMMA StagedRowFields ==
    ASSUME NEW row \in InstallationRows, NEW m \in Manifests
    PROVE  LET new == StagedRow(row, m)
           IN  /\ new \in InstallationRows /\ new.grant = 0 /\ new.status = "installed"
               /\ new.history = Append(row.history, m) /\ new.revision = row.revision + 1
  <1> DEFINE new == StagedRow(row, m)
             flat == [status |-> "installed", revision |-> row.revision + 1,
                      history |-> Append(row.history, m), grant |-> 0]
  <1>1. new = [f \in {"status", "revision", "history", "grant"} |-> new[f]]
    BY Zenon DEF InstallationRows, StagedRow
  <1>2. /\ new.grant = 0 /\ new.status = "installed"
        /\ new.history = Append(row.history, m) /\ new.revision = row.revision + 1
    BY DEF InstallationRows, StagedRow
  <1>3. flat \in InstallationRows
    BY DEF InstallationRows, ExtStatuses
  <1> HIDE DEF new
  <1>4. new = [status |-> new.status, revision |-> new.revision,
               history |-> new.history, grant |-> new.grant]
    BY <1>1
  <1> QED
    BY <1>2, <1>3, <1>4, Zenon DEF new

LEMMA EnabledRowFields ==
    ASSUME NEW row \in InstallationRows, NEW n \in Nat
    PROVE  LET new == EnabledRow(row, n)
           IN  /\ new \in InstallationRows /\ new.grant = n /\ new.status = "enabled"
               /\ new.history = row.history /\ new.revision = row.revision + 1
  <1> DEFINE new == EnabledRow(row, n)
             flat == [status |-> "enabled", revision |-> row.revision + 1,
                      history |-> row.history, grant |-> n]
  <1>1. new = [f \in {"status", "revision", "history", "grant"} |-> new[f]]
    BY Zenon DEF InstallationRows, EnabledRow
  <1>2. /\ new.grant = n /\ new.status = "enabled"
        /\ new.history = row.history /\ new.revision = row.revision + 1
    BY DEF InstallationRows, EnabledRow
  <1>3. flat \in InstallationRows
    BY DEF InstallationRows, ExtStatuses
  <1> HIDE DEF new
  <1>4. new = [status |-> new.status, revision |-> new.revision,
               history |-> new.history, grant |-> new.grant]
    BY <1>1
  <1> QED
    BY <1>2, <1>3, <1>4, Zenon DEF new

LEMMA StageChange ==
    ASSUME TablesInv, CallsInv, NEW c \in ExtCalls, StageExtensionManifest(c)
    PROVE  RowRetires(extCall[c].ext) /\ extCall[c].ext \in ExtIds
  <1>1. PICK x \in ExtIds, m \in Manifests :
          /\ x = extCall[c].ext /\ m = extCall[c].manifest
          /\ installation[x].status # "absent"
    BY LifecycleCall DEF StageExtensionManifest
  <1>2. CASE UNCHANGED <<grants, installation>>
    BY <1>1, <1>2, Zenon DEF RowRetires
  <1>3. CASE Staged(x, m) /\ installation[x].status # "revoked"
    <2>1. installation[x] \in InstallationRows /\ installation[x].history # <<>>
      BY <1>1, TableRows, Zenon DEF TablesInv, RowHolds
    <2>2. PICK row : row = StagedRow(installation[x], m)
      BY Zenon
    <2>3. /\ row \in InstallationRows /\ row.grant = 0 /\ row.status = "installed"
          /\ row.history = Append(installation[x].history, m)
      BY <2>1, <2>2, StagedRowFields, Zenon
    <2>4. grants' = Terminalized(x, "superseded") /\ installation' = [installation EXCEPT ![x] = row]
      BY <1>3, <2>2, Zenon DEF Staged
    <2>5. row.status \notin {"enabled", "absent"} /\ row.history # <<>>
      BY <2>1, <2>3 DEF InstallationRows
    <2>6. Follows(installation[x], row)
      <3>1. TransitionAllowed(installation[x].status, row.status)
        BY <1>1, <1>3, <2>1, <2>3 DEF TransitionAllowed, InstallationRows, ExtStatuses
      <3>2. row.revision = installation[x].revision + 1
        BY <2>1, <2>2, StagedRowFields, Zenon
      <3>3. installation[x].history \in Seq(Manifests)
        BY <2>1 DEF InstallationRows
      <3> QED
        BY <2>3, <3>1, <3>2, <3>3, HistoryPrefix, Zenon DEF Follows
    <2> QED
      BY <1>1, <2>3, <2>4, <2>5, <2>6, Zenon DEF RowRetires, RetiredTo, HistoryGrows
  <1> QED
    BY <1>1, <1>2, <1>3, Zenon DEF StageExtensionManifest

LEMMA RetireChange ==
    ASSUME TablesInv, CallsInv, NEW c \in ExtCalls,
           DisableExtension(c) \/ RevokeExtension(c)
    PROVE  RowRetires(extCall[c].ext) /\ extCall[c].ext \in ExtIds
  <1>1. PICK kind, from : \E status \in {"disabled", "revoked"} :
          /\ Retire(c, kind, from, status)
          /\ \A old \in from : TransitionAllowed(old, status)
    <2>1. \A old \in {"enabled"} : TransitionAllowed(old, "disabled")
      BY DEF TransitionAllowed
    <2>2. \A old \in {"installed", "enabled", "disabled"} : TransitionAllowed(old, "revoked")
      BY DEF TransitionAllowed
    <2>3. CASE Retire(c, "disable", {"enabled"}, "disabled")
      BY <2>1, <2>3
    <2>4. CASE Retire(c, "revoke", {"installed", "enabled", "disabled"}, "revoked")
      BY <2>2, <2>4
    <2> QED
      BY <2>3, <2>4, Zenon DEF DisableExtension, RevokeExtension
  <1>0. PICK status \in {"disabled", "revoked"} :
          /\ Retire(c, kind, from, status)
          /\ \A old \in from : TransitionAllowed(old, status)
    BY <1>1
  <1>2. PICK x \in ExtIds : x = extCall[c].ext /\ installation[x].status # "absent"
    BY <1>0, LifecycleCall DEF Retire
  <1>3. CASE UNCHANGED <<grants, installation>>
    BY <1>2, <1>3, Zenon DEF RowRetires
  <1>4. CASE /\ installation[x].status \in from
             /\ grants' = Terminalized(x, "revoked")
             /\ installation' = [installation EXCEPT ![x] = RetiredRow(@, status)]
    <2>1. installation[x] \in InstallationRows /\ installation[x].history # <<>>
      BY <1>2, TableRows, Zenon DEF TablesInv, RowHolds
    <2>2. PICK row : row = RetiredRow(installation[x], status)
      BY Zenon
    <2>3. /\ row \in InstallationRows /\ row.grant = 0 /\ row.status = status
          /\ row.history = installation[x].history /\ row.revision = installation[x].revision + 1
      <3>1. status \in ExtStatuses
        BY DEF ExtStatuses
      <3> QED
        BY <2>1, <2>2, <3>1, RetiredRowFields, Zenon
    <2>4. installation' = [installation EXCEPT ![x] = row]
      BY <1>4, <2>2, Zenon
    <2>5. row.status \notin {"enabled", "absent"}
      BY <2>3
    <2>6. Follows(installation[x], row)
      <3>1. installation[x].history \in Seq(Manifests)
        BY <2>1 DEF InstallationRows
      <3>2. SubSeq(installation[x].history, 1, Len(installation[x].history))
              = installation[x].history
        BY <3>1
      <3> QED
        BY <1>0, <1>4, <2>3, <3>2, Zenon DEF Follows
    <2> QED
      BY <1>2, <1>4, <2>1, <2>3, <2>4, <2>5, <2>6, Zenon DEF RowRetires, RetiredTo, HistoryGrows
  <1> QED
    BY <1>0, <1>2, <1>3, <1>4, Zenon DEF Retire

LEMMA EnableChange ==
    ASSUME TablesInv, CallsInv, NEW c \in ExtCalls, EnableCommit(c)
    PROVE  TablesChange(extCall[c].ext) /\ extCall[c].ext \in ExtIds
  <1>1. PICK x \in ExtIds, a \in Authorities :
          x = extCall[c].ext /\ a = extCall[c].authority /\ installation[x].status # "absent"
    BY LifecycleCall DEF EnableCommit
  <1>2. CASE UNCHANGED <<grants, installation>>
    BY <1>1, <1>2, Zenon DEF TablesChange, RowRetires
  <1>3. CASE /\ installation[x].status \in {"installed", "disabled"}
             /\ GrantValidates(a, CurrentManifest(x))
             /\ Enable(c)
    <2>1. /\ installation[x] \in InstallationRows /\ installation[x].history # <<>>
          /\ installation[x].grant = 0
      BY <1>1, <1>3, TableRows DEF TablesInv, RowHolds
    <2>2. PICK row : row = EnabledRow(installation[x], Len(grants) + 1)
      BY Zenon
    <2>3. /\ row \in InstallationRows /\ row.grant = Len(grants) + 1
          /\ row.status = "enabled" /\ row.history = installation[x].history
          /\ row.revision = installation[x].revision + 1
      <3>1. Len(grants) + 1 \in Nat
        BY TableRows
      <3> QED
        BY <2>1, <2>2, <3>1, EnabledRowFields, Zenon
    <2>4. PICK grant : grant = [ext |-> x, ordinal |-> Len(installation[x].history),
                                authority |-> a, status |-> "active"]
      BY Zenon
    <2>5. /\ grant \in GrantRows /\ grant.ext = x /\ grant.authority = a
          /\ grant.ordinal = Len(installation[x].history)
      <3>1. Len(installation[x].history) \in Nat
        BY <2>1 DEF InstallationRows
      <3> QED
        BY <2>4, <3>1 DEF GrantRows
    <2>6. grants' = Append(grants, grant) /\ installation' = [installation EXCEPT ![x] = row]
      BY <1>1, <1>3, <2>2, <2>4, Zenon DEF Enable
    <2>7. Follows(installation[x], row)
      <3>1. TransitionAllowed(installation[x].status, row.status)
        BY <1>3, <2>3 DEF TransitionAllowed
      <3>2. SubSeq(row.history, 1, Len(installation[x].history)) = installation[x].history
        BY <2>1, <2>3 DEF InstallationRows
      <3> QED
        BY <2>3, <3>1, <3>2, Zenon DEF Follows
    <2> QED
      BY <1>1, <1>3, <2>1, <2>3, <2>5, <2>6, <2>7, Zenon DEF TablesChange, EnabledTo
  <1> QED
    BY <1>1, <1>2, <1>3, Zenon DEF EnableCommit

LEMMA InstallChange ==
    ASSUME TablesInv, NEW x \in ExtIds, NEW m \in Manifests, InstallExtension(x, m)
    PROVE  RowRetires(x)
  <1>1. PICK row : row = [AbsentExtension EXCEPT !.status = "installed", !.history = <<m>>]
    BY Zenon
  <1>2. row = [status |-> "installed", revision |-> 0, history |-> <<m>>, grant |-> 0]
    BY <1>1, Zenon DEF AbsentExtension
  <1>3. /\ row \in InstallationRows /\ row.grant = 0 /\ row.history = <<m>>
        /\ row.status \notin {"enabled", "absent"} /\ row.history # <<>>
    BY <1>2 DEF InstallationRows, ExtStatuses
  <1>4. installation[x].grant = 0 /\ installation[x].history = <<>>
    BY TableRows DEF InstallExtension, TablesInv, RowHolds
  <1>5. row.history = Append(installation[x].history, m)
    BY <1>3, <1>4
  <1>6. grants' = Terminalized(x, "revoked") /\ installation' = [installation EXCEPT ![x] = row]
    BY <1>1, <1>4, Zenon DEF InstallExtension, Terminalized
  <1>7. Follows(installation[x], row)
    <2>1. installation[x].status = "absent" /\ row.status = "installed"
      BY <1>2 DEF InstallExtension
    <2>2. TransitionAllowed(installation[x].status, row.status)
      BY <2>1 DEF TransitionAllowed
    <2>3. SubSeq(row.history, 1, Len(installation[x].history)) = installation[x].history
      BY <1>3, <1>4
    <2> QED
      BY <2>1, <2>2, <2>3, Zenon DEF Follows
  <1> QED
    BY <1>3, <1>5, <1>6, <1>7, Zenon DEF RowRetires, RetiredTo, HistoryGrows

LEMMA EveryStepChangesOneRow ==
    ASSUME TablesInv, CallsInv, [ExtNext]_extVars
    PROVE  UNCHANGED <<installation, grants>> \/ \E x \in ExtIds : TablesChange(x)
  BY ExtStepShape, StageChange, RetireChange, EnableChange, InstallChange, Zenon
     DEF LifecycleStep, TablesChange

LEMMA TablesStep ==
    ASSUME TablesInv, CallsInv, [ExtNext]_extVars
    PROVE  TablesInv'
  <1>1. CASE UNCHANGED <<installation, grants>>
    BY <1>1, Zenon DEF TablesInv, RowHolds, GrantHolds, CurrentManifest, ManifestAt
  <1> QED
    BY <1>1, EveryStepChangesOneRow, RetireKeepsTables, EnableKeepsTables, Zenon
       DEF TablesChange, RowRetires

\* No step forgets a manifest revision or a grant.
TablesGrow ==
  /\ \A x \in ExtIds :
       /\ DOMAIN installation[x].history \subseteq DOMAIN installation'[x].history
       /\ installation[x].status # "absent" => installation'[x].status # "absent"
  /\ \A g \in DOMAIN grants :
       /\ g \in DOMAIN grants'
       /\ grants'[g].ext = grants[g].ext /\ grants'[g].ordinal = grants[g].ordinal

LEMMA TablesOnlyGrow ==
    ASSUME TablesInv, CallsInv, [ExtNext]_extVars
    PROVE  TablesGrow
  <1>1. CASE UNCHANGED <<installation, grants>>
    BY <1>1, Zenon DEF TablesGrow
  <1>2. ASSUME NEW x \in ExtIds, NEW row, NEW st \in {"superseded", "revoked"},
               RetiredTo(x, row, st)
        PROVE  TablesGrow
    <2>1. /\ installation'[x] = row
          /\ \A y \in ExtIds : y # x => installation'[y] = installation[y]
      BY <1>2 DEF RetiredTo, TablesInv
    <2>2. DOMAIN installation[x].history \subseteq DOMAIN row.history
      <3>1. PICK h \in Seq(Manifests) : h = installation[x].history
        BY TableRows DEF InstallationRows
      <3>2. \A m \in Manifests : DOMAIN h \subseteq DOMAIN Append(h, m)
        OBVIOUS
      <3> QED
        BY <1>2, <3>1, <3>2, Zenon DEF RetiredTo, HistoryGrows
    <2>3. row.status # "absent"
      BY <1>2 DEF RetiredTo
    <2>4. \A g \in DOMAIN grants :
            /\ g \in DOMAIN grants'
            /\ grants'[g].ext = grants[g].ext /\ grants'[g].ordinal = grants[g].ordinal
      BY <1>2, TerminalizedRows, TableRows DEF RetiredTo
    <2> QED
      BY <2>1, <2>2, <2>3, <2>4, Zenon DEF TablesGrow
  <1>3. ASSUME NEW x \in ExtIds, NEW row, NEW grant, EnabledTo(x, row, grant)
        PROVE  TablesGrow
    <2>1. /\ installation'[x] = row
          /\ \A y \in ExtIds : y # x => installation'[y] = installation[y]
      BY <1>3 DEF EnabledTo, TablesInv
    <2>2. row.history = installation[x].history /\ row.status # "absent"
      BY <1>3 DEF EnabledTo
    <2>3. \A g \in DOMAIN grants : g \in DOMAIN grants' /\ grants'[g] = grants[g]
      BY <1>3 DEF EnabledTo, TablesInv
    <2> QED
      BY <2>1, <2>2, <2>3, Zenon DEF TablesGrow
  <1> QED
    BY <1>1, <1>2, <1>3, EveryStepChangesOneRow, Zenon DEF TablesChange, RowRetires

LEMMA ReferencesLast ==
    ASSUME TablesGrow, NEW r, r.ext \in ExtIds, RefersTo(r)
    PROVE  RefersTo(r)'
  BY Zenon DEF TablesGrow, RefersTo

\* What an invoking handler holds.
LEMMA InvokeCall ==
    ASSUME CallsInv, NEW c \in ExtCalls,
           extCall[c].pc \in {"viewed", "running", "succeeded", "failed"}
    PROVE  /\ extCall[c] \in InvokeCalls
           /\ extCall[c].ext \in ExtIds /\ extCall[c].capability \in ExtCapabilities
           /\ extCall[c].grant \in Nat
  <1>1. extCall[c] \in {IdleCall} \cup LifecycleCalls \cup ReadingCalls \cup InvokeCalls
    BY Zenon DEF CallsInv, ExtCallRecords
  <1>2. IdleCall.pc = "idle"
    BY DEF IdleCall
  <1>3. \A k \in ReadingCalls : k.pc = "reading"
    BY DEF ReadingCalls
  <1>4. \A k \in LifecycleCalls : k.pc \in {"asked", "probing", "probed"}
    BY DEF LifecycleCalls
  <1>5. extCall[c] \in InvokeCalls
    BY <1>1, <1>2, <1>3, <1>4
  <1>6. \A k \in InvokeCalls :
          k.ext \in ExtIds /\ k.capability \in ExtCapabilities /\ k.grant \in Nat
    BY DEF InvokeCalls
  <1> QED
    BY <1>5, <1>6, Zenon

LEMMA TerminalRowFields ==
    ASSUME NEW row \in InvocationRows, NEW st \in {"succeeded", "failed", "abandoned"}
    PROVE  LET new == TerminalRow(row, st)
           IN  /\ new \in InvocationRows /\ new.status = st
               /\ new.ext = row.ext /\ new.ordinal = row.ordinal /\ new.grant = row.grant
               /\ new.evidence = EvidenceOf(st)
  <1> DEFINE new == TerminalRow(row, st)
             flat == [ext |-> row.ext, ordinal |-> row.ordinal, grant |-> row.grant,
                      capability |-> row.capability, status |-> st, evidence |-> EvidenceOf(st)]
  <1>1. new = [f \in {"ext", "ordinal", "grant", "capability", "status", "evidence"} |-> new[f]]
    BY Zenon DEF InvocationRows, TerminalRow
  <1>2. /\ new.ext = row.ext /\ new.ordinal = row.ordinal /\ new.grant = row.grant
        /\ new.capability = row.capability /\ new.status = st
        /\ new.evidence = IF st = "succeeded" THEN "response" ELSE "error"
    BY DEF InvocationRows, TerminalRow
  <1>3. EvidenceOf(st) = (IF st = "succeeded" THEN "response" ELSE "error")
    BY DEF EvidenceOf
  <1>4. EvidenceOf(st) \in {"response", "error"}
    BY <1>3
  <1>5. flat \in InvocationRows
    BY <1>4 DEF InvocationRows
  <1> HIDE DEF new
  <1>6. new = [ext |-> new.ext, ordinal |-> new.ordinal, grant |-> new.grant,
               capability |-> new.capability, status |-> new.status, evidence |-> new.evidence]
    BY <1>1
  <1> QED
    BY <1>2, <1>3, <1>5, <1>6, Zenon DEF new

LEMMA InvocationRowsTyped ==
    ASSUME InvocationsInv
    PROVE  /\ \A i \in DOMAIN invocations :
                invocations[i] \in InvocationRows /\ invocations[i].ext \in ExtIds
           /\ DOMAIN invocations = 1..Len(invocations) /\ Len(invocations) \in Nat
  <1>1. \A r \in InvocationRows : r.ext \in ExtIds
    BY DEF InvocationRows
  <1>2. /\ \A i \in DOMAIN invocations : invocations[i] \in InvocationRows
        /\ DOMAIN invocations = 1..Len(invocations) /\ Len(invocations) \in Nat
    BY DEF InvocationsInv
  <1> QED
    BY <1>1, <1>2, Zenon

\* One row reaches a terminal status.
Settles(i, st) ==
  /\ i \in DOMAIN invocations /\ st \in {"succeeded", "failed", "abandoned"}
  /\ invocations' = [invocations EXCEPT ![i] = TerminalRow(@, st)]

LEMMA SettledRows ==
    ASSUME InvocationsInv, NEW i, NEW st, Settles(i, st)
    PROVE  /\ invocations' \in Seq(InvocationRows) /\ DOMAIN invocations' = DOMAIN invocations
           /\ invocations'[i] = TerminalRow(invocations[i], st)
           /\ \A j \in DOMAIN invocations : j # i => invocations'[j] = invocations[j]
  <1>1. PICK row \in InvocationRows : row = TerminalRow(invocations[i], st)
    BY InvocationRowsTyped, TerminalRowFields, Zenon DEF Settles
  <1>2. invocations' = [invocations EXCEPT ![i] = row]
    BY <1>1, Zenon DEF Settles
  <1> QED
    BY <1>1, <1>2 DEF InvocationsInv, Settles

LEMMA SettleKeepsInvocations ==
    ASSUME InvocationsInv, TablesGrow, NEW i, NEW st, Settles(i, st)
    PROVE  InvocationsInv'
  <1>1. ASSUME NEW j \in DOMAIN invocations
        PROVE  InvocationHolds(j)'
    <2>1. invocations[j].ext \in ExtIds /\ InvocationHolds(j)
      BY InvocationRowsTyped, Zenon DEF InvocationsInv
    <2>2. PICK r : r = invocations[j]
      BY Zenon
    <2>3. RefersTo(r)'
      BY <2>1, <2>2, ReferencesLast, Zenon DEF InvocationHolds
    <2>4. CASE j # i
      BY <2>1, <2>2, <2>3, <2>4, SettledRows, Zenon DEF InvocationHolds, RefersTo
    <2>5. CASE j = i
      <3>1. PICK n : n = TerminalRow(r, st)
        BY Zenon
      <3>2. /\ n.status = st /\ n.ext = r.ext /\ n.ordinal = r.ordinal /\ n.grant = r.grant
            /\ n.evidence = EvidenceOf(st)
        BY <2>2, <2>5, <3>1, InvocationRowsTyped, TerminalRowFields, Zenon DEF Settles
      <3>3. invocations'[j] = n
        BY <2>2, <2>5, <3>1, SettledRows, Zenon
      <3>4. RefersTo(n)'
        BY <2>3, <3>2, Zenon DEF RefersTo
      <3> QED
        BY <3>2, <3>3, <3>4, Zenon DEF InvocationHolds, RefersTo
    <2> QED
      BY <2>4, <2>5, Zenon
  <1> QED
    BY <1>1, SettledRows, Zenon DEF InvocationsInv

\* Dispatch evidence is a well-formed row of an enabled extension.
LEMMA BeginDispatches ==
    ASSUME ExtInv, NEW c \in ExtCalls, BeginInvocation(c), ~UNCHANGED invocations
    PROVE  \E r \in InvocationRows :
             /\ invocations' = Append(invocations, r)
             /\ RefersTo(r) /\ r.status = "dispatching" /\ r.evidence = "none"
             /\ installation[r.ext].status = "enabled" /\ installation[r.ext].grant = r.grant
             /\ r.capability \in grants[r.grant].authority.capabilities
             /\ extCall' = [extCall EXCEPT ![c].pc = "running",
                                          ![c].invocation = Len(invocations) + 1]
  <1>1. PICK x \in ExtIds, k \in ExtCapabilities, n \in Nat :
          x = extCall[c].ext /\ k = extCall[c].capability /\ n = extCall[c].grant
    BY InvokeCall, Zenon DEF BeginInvocation, ExtInv
  <1>2. /\ Dispatch(c) /\ installation[x].status = "enabled" /\ installation[x].grant = n
        /\ k \in grants[n].authority.capabilities
    BY <1>1 DEF BeginInvocation, View, Returns
  <1>3. RowHolds(x) /\ installation[x] \in InstallationRows
    BY TableRows, Zenon DEF ExtInv, TablesInv
  <1>4. PICK h \in Seq(Manifests) : h = installation[x].history
    BY <1>3 DEF InstallationRows
  <1>5. /\ n # 0 /\ n \in DOMAIN grants /\ n \in Nat \ {0}
        /\ grants[n].ext = x /\ grants[n].ordinal = Len(h) /\ h # <<>>
    BY <1>2, <1>3, <1>4, TableRows DEF RowHolds, ExtInv
  <1>6. Len(h) \in Nat \ {0} /\ Len(h) \in DOMAIN h
    BY <1>4, <1>5
  <1>7. PICK r : r = [ext |-> x, ordinal |-> Len(h), grant |-> n, capability |-> k,
                      status |-> "dispatching", evidence |-> "none"]
    BY Zenon
  <1>8. /\ r \in InvocationRows /\ r.ext = x /\ r.ordinal = Len(h) /\ r.grant = n
        /\ r.capability = k /\ r.status = "dispatching" /\ r.evidence = "none"
    BY <1>5, <1>6, <1>7 DEF InvocationRows, ExtCapabilities
  <1>9. /\ invocations' = Append(invocations, r)
        /\ extCall' = [extCall EXCEPT ![c].pc = "running",
                                     ![c].invocation = Len(invocations) + 1]
    BY <1>1, <1>2, <1>4, <1>7, Zenon DEF Dispatch
  <1>10. RefersTo(r)
    BY <1>4, <1>5, <1>6, <1>8, Zenon DEF RefersTo
  <1> QED
    BY <1>2, <1>8, <1>9, <1>10, Zenon

LEMMA CompleteSettles ==
    ASSUME CallsInv, NEW c \in ExtCalls, CompleteInvocation(c)
    PROVE  Launched(c) /\ Settles(extCall[c].invocation, extCall[c].pc)
  <1>1. Launched(c) /\ extCall[c].pc \in {"succeeded", "failed", "abandoned"}
    BY DEF CompleteInvocation, Launched
  <1>2. /\ extCall[c].invocation \in DOMAIN invocations
        /\ invocations[extCall[c].invocation].status = "dispatching"
    BY <1>1, Zenon DEF CallsInv
  <1> QED
    BY <1>1, <1>2, Zenon DEF CompleteInvocation, Settles

\* What a step does to the invocation rows.
LEMMA InvocationShape ==
    ASSUME ExtInv, [ExtNext]_extVars
    PROVE  \/ UNCHANGED invocations
           \/ \E c \in ExtCalls : BeginInvocation(c)
           \/ \E c \in ExtCalls : /\ CompleteInvocation(c) /\ Launched(c)
                                  /\ Settles(extCall[c].invocation, extCall[c].pc)
           \/ \E i \in DOMAIN invocations : RecoverInvocation(i) /\ Settles(i, "abandoned")
  <1>1. ASSUME NEW c \in ExtCalls, ExtCallNext(c)
        PROVE  UNCHANGED invocations \/ BeginInvocation(c) \/ CompleteInvocation(c)
    <2>1. CASE \E x \in ExtIds :
                 \/ \E m \in Manifests : AskLifecycle(c, "stage", x, m, NoAuthority)
                 \/ \E a \in ExtRequests :
                      AskLifecycle(c, "enable", x, CurrentManifest(x), a)
                 \/ \E k \in {"disable", "revoke"} :
                      AskLifecycle(c, k, x, CurrentManifest(x), NoAuthority)
      BY <2>1, Zenon DEF AskLifecycle
    <2>2. CASE \E x \in ExtIds :
                 \/ GetExtension(c, x)
                 \/ \E v \in ExtInputs :
                      /\ installation[x].status = "enabled"
                      /\ \E k \in DOMAIN CurrentManifest(x).capabilities :
                           InvokeView(c, x, k, v)
      BY <2>2, Zenon DEF GetExtension, InvokeView
    <2>3. CASE \/ EnableView(c) \/ HealthProbe(c) \/ GetReturns(c)
               \/ \E answer \in WorkerAnswers : HostInvoke(c, answer)
      BY <2>3, Zenon DEF EnableView, HealthProbe, GetReturns, HostInvoke
    <2>4. CASE \/ StageExtensionManifest(c) \/ DisableExtension(c)
               \/ RevokeExtension(c) \/ EnableCommit(c)
      BY <2>4, Zenon DEF StageExtensionManifest, DisableExtension, RevokeExtension, Retire,
         EnableCommit
    <2> QED
      BY <1>1, <2>1, <2>2, <2>3, <2>4, Zenon DEF ExtCallNext
  <1>2. ASSUME NEW c \in ExtCalls, CompleteInvocation(c)
        PROVE  Launched(c) /\ Settles(extCall[c].invocation, extCall[c].pc)
    BY <1>2, CompleteSettles, Zenon DEF ExtInv
  <1>3. ASSUME NEW i \in DOMAIN invocations, RecoverInvocation(i)
        PROVE  Settles(i, "abandoned")
    BY <1>3 DEF RecoverInvocation, Settles
  <1>4. ASSUME \/ \E x \in ExtIds, m \in Manifests : InstallExtension(x, m)
               \/ \E m \in Manifests : ReplacePackage(m)
               \/ ExtCrash \/ ExtStart \/ ExtServe \/ UNCHANGED extVars
        PROVE  UNCHANGED invocations
    BY <1>4, Zenon DEF InstallExtension, ReplacePackage, ExtCrash, ExtStart, ExtServe, extVars
  <1> QED
    BY <1>1, <1>2, <1>3, <1>4, Zenon DEF ExtNext

LEMMA InvocationsStep ==
    ASSUME ExtInv, [ExtNext]_extVars
    PROVE  InvocationsInv'
  <1>0. TablesGrow
    BY TablesOnlyGrow DEF ExtInv
  <1>1. CASE UNCHANGED invocations
    <2>1. ASSUME NEW i \in DOMAIN invocations
          PROVE  InvocationHolds(i)'
      <3>1. PICK r : r = invocations[i] /\ r.ext \in ExtIds /\ InvocationHolds(i)
        BY InvocationRowsTyped, Zenon DEF ExtInv, InvocationsInv
      <3>2. RefersTo(r)'
        BY <1>0, <3>1, ReferencesLast, Zenon DEF InvocationHolds
      <3> QED
        BY <1>1, <3>1, <3>2, Zenon DEF InvocationHolds, RefersTo
    <2> QED
      BY <1>1, <2>1, Zenon DEF ExtInv, InvocationsInv
  <1>2. ASSUME NEW c \in ExtCalls, BeginInvocation(c), ~UNCHANGED invocations
        PROVE  InvocationsInv'
    <2>1. PICK r \in InvocationRows :
            /\ invocations' = Append(invocations, r)
            /\ RefersTo(r) /\ r.status = "dispatching" /\ r.evidence = "none"
      BY <1>2, BeginDispatches, Zenon
    <2>2. /\ invocations' \in Seq(InvocationRows)
          /\ DOMAIN invocations' = DOMAIN invocations \cup {Len(invocations) + 1}
          /\ invocations'[Len(invocations) + 1] = r
          /\ \A i \in DOMAIN invocations : invocations'[i] = invocations[i]
      BY <2>1 DEF ExtInv, InvocationsInv
    <2>3. UNCHANGED <<installation, grants>>
      BY <1>2, Zenon DEF BeginInvocation
    <2>4. r.evidence = EvidenceOf(r.status)
      BY <2>1 DEF EvidenceOf
    <2>5. ASSUME NEW i \in DOMAIN invocations'
          PROVE  InvocationHolds(i)'
      BY <2>1, <2>2, <2>3, <2>4, Zenon DEF ExtInv, InvocationsInv, InvocationHolds, RefersTo
    <2> QED
      BY <2>2, <2>5, Zenon DEF InvocationsInv
  <1>3. ASSUME NEW i, NEW st, Settles(i, st)
        PROVE  InvocationsInv'
    BY <1>0, <1>3, SettleKeepsInvocations, Zenon DEF ExtInv
  <1> QED
    BY <1>1, <1>2, <1>3, InvocationShape, Zenon

\* Handlers that launch nothing and own nothing.
PlainCall(c, k) ==
  /\ k \in ExtCallRecords /\ k.pc \notin {"running", "succeeded", "failed"}
  /\ k.pc \in {"asked", "probing", "probed"} => installation'[k.ext].status # "absent"
  /\ ~Launched(c) /\ extDaemon = "serving"
  /\ extCall' = [extCall EXCEPT ![c] = k]
  /\ UNCHANGED <<invocations, extDaemon>>

\* The rows other handlers hold stay present.
LEMMA AskedStays ==
    ASSUME CallsInv, TablesGrow, NEW d \in ExtCalls, extCall'[d] = extCall[d],
           extCall'[d].pc \in {"asked", "probing", "probed"}
    PROVE  installation'[extCall'[d].ext].status # "absent"
  BY LifecycleCall, Zenon DEF TablesGrow

LEMMA PlainKeepsCalls ==
    ASSUME CallsInv, TablesGrow, NEW c \in ExtCalls, NEW k, PlainCall(c, k)
    PROVE  CallsInv'
  <1>1. /\ extCall' \in [ExtCalls -> ExtCallRecords]
        /\ extCall'[c] = k
        /\ \A d \in ExtCalls : d # c => extCall'[d] = extCall[d]
    BY DEF PlainCall, CallsInv
  <1>2. /\ ~Launched(c)' /\ ~Launched(c)
        /\ \A d \in ExtCalls : Launched(d)' => Launched(d) /\ extCall'[d] = extCall[d] /\ d # c
        /\ \A d \in ExtCalls : Launched(d) => Launched(d)' /\ extCall'[d] = extCall[d]
    BY <1>1, Zenon DEF PlainCall, Launched
  <1>3. \A d \in ExtCalls : extCall'[d].pc \in {"asked", "probing", "probed"} =>
          installation'[extCall'[d].ext].status # "absent"
    BY <1>1, AskedStays, Zenon DEF PlainCall
  <1>4. extDaemon' = "serving" /\ invocations' = invocations /\ Dispatching' = Dispatching
    BY DEF PlainCall, Dispatching
  <1>5. ASSUME NEW d \in ExtCalls, Launched(d)'
        PROVE  /\ extCall'[d].invocation \in DOMAIN invocations'
               /\ invocations'[extCall'[d].invocation].status = "dispatching"
    <2>1. Launched(d) /\ extCall'[d] = extCall[d]
      BY <1>2, <1>5, Zenon
    <2>2. /\ extCall[d].invocation \in DOMAIN invocations
          /\ invocations[extCall[d].invocation].status = "dispatching"
      BY <2>1, Zenon DEF CallsInv
    <2> QED
      BY <1>4, <2>1, <2>2, Zenon
  <1>6. \A d, e \in ExtCalls : Launched(d)' /\ Launched(e)' /\ d # e =>
          extCall'[d].invocation # extCall'[e].invocation
    BY <1>2, Zenon DEF CallsInv
  <1>7. \A i \in Dispatching' : \E d \in ExtCalls : Launched(d)' /\ extCall'[d].invocation = i
    BY <1>2, <1>4, Zenon DEF CallsInv, PlainCall
  <1>8. extDaemon' \in {"serving", "down", "recovering"} /\ ~(extDaemon' # "serving")
    BY <1>4
  <1> QED
    BY <1>1, <1>3, <1>5, <1>6, <1>7, <1>8, Zenon DEF CallsInv

LEMMA IdleIsPlain ==
    IdleCall \in ExtCallRecords /\ IdleCall.pc = "idle"
  BY DEF ExtCallRecords, IdleCall

\* A handler runs only while the daemon serves.
LEMMA BusyMeansServing ==
    ASSUME CallsInv, NEW c \in ExtCalls, extCall[c].pc # "idle"
    PROVE  extDaemon = "serving"
  BY IdleIsPlain, Zenon DEF CallsInv

LEMMA ReturnIsPlain ==
    ASSUME CallsInv, NEW c \in ExtCalls, Returns(c), UNCHANGED <<invocations, extDaemon>>,
           extCall[c].pc \in {"asked", "probing", "probed", "reading", "viewed"}
    PROVE  PlainCall(c, IdleCall)
  <1>1. ~Launched(c) /\ extCall[c].pc # "idle"
    BY DEF Launched
  <1>2. extCall' = [extCall EXCEPT ![c] = IdleCall]
    BY Zenon DEF Returns
  <1>3. /\ IdleCall.pc \notin {"running", "succeeded", "failed"}
        /\ IdleCall.pc \notin {"asked", "probing", "probed"}
    BY IdleIsPlain
  <1> QED
    BY <1>1, <1>2, <1>3, IdleIsPlain, BusyMeansServing, Zenon DEF PlainCall

LEMMA AskIsPlain ==
    ASSUME TablesInv, CallsInv, NEW c \in ExtCalls, NEW x \in ExtIds, NEW m,
           NEW kind \in {"stage", "enable", "disable", "revoke"}, NEW a \in Authorities,
           m \in Manifests \/ m = CurrentManifest(x), AskLifecycle(c, kind, x, m, a)
    PROVE  \E k : PlainCall(c, k)
  <1>1. installation[x] \in InstallationRows /\ installation[x].history # <<>>
    BY TableRows, Zenon DEF AskLifecycle, TablesInv, RowHolds
  <1>2. CurrentManifest(x) \in Manifests /\ installation[x].revision \in Nat
    BY <1>1 DEF CurrentManifest, ManifestAt, InstallationRows
  <1>3. PICK n \in Nat : n = installation[x].revision
    BY <1>2
  <1>4. PICK k : k = [pc |-> "asked", kind |-> kind, ext |-> x, manifest |-> m,
                      authority |-> a, revision |-> n]
    BY Zenon
  <1>5. k \in LifecycleCalls /\ k.pc = "asked" /\ k.ext = x
    BY <1>2, <1>4 DEF LifecycleCalls
  <1>6. k \in ExtCallRecords /\ k.pc \notin {"running", "succeeded", "failed"}
    BY <1>5 DEF ExtCallRecords
  <1>7. ~Launched(c)
    BY DEF AskLifecycle, Launched
  <1> QED
    BY <1>3, <1>4, <1>5, <1>6, <1>7, Zenon DEF AskLifecycle, PlainCall

\* The handlers up to their commit, and the lifecycle commits.
LEMMA PlainSteps ==
    ASSUME ExtInv, TablesGrow, NEW c \in ExtCalls, ExtCallNext(c)
    PROVE  \/ \E k : PlainCall(c, k)
           \/ BeginInvocation(c) /\ ~UNCHANGED invocations
           \/ CompleteInvocation(c)
           \/ \E answer \in WorkerAnswers : HostInvoke(c, answer)
  <1> USE DEF ExtInv
  <1>1. ASSUME NEW x \in ExtIds,
               \/ \E m \in Manifests : AskLifecycle(c, "stage", x, m, NoAuthority)
               \/ \E a \in ExtRequests : AskLifecycle(c, "enable", x, CurrentManifest(x), a)
               \/ \E k \in {"disable", "revoke"} :
                    AskLifecycle(c, k, x, CurrentManifest(x), NoAuthority)
        PROVE  \E k : PlainCall(c, k)
    <2>1. NoAuthority \in Authorities /\ \A a \in ExtRequests : a \in Authorities
      BY DEF Authorities
    <2> QED
      BY <1>1, <2>1, AskIsPlain, Zenon
  <1>2. ASSUME NEW x \in ExtIds, GetExtension(c, x)
        PROVE  \E k : PlainCall(c, k)
    <2>1. PICK k : k = [pc |-> "reading", kind |-> "get", ext |-> x]
      BY Zenon
    <2>2. k \in ExtCallRecords /\ k.pc = "reading"
      BY <2>1 DEF ReadingCalls, ExtCallRecords
    <2>3. /\ k.pc \notin {"running", "succeeded", "failed"}
          /\ k.pc \notin {"asked", "probing", "probed"}
          /\ ~Launched(c)
      BY <1>2, <2>2 DEF GetExtension, Launched
    <2> QED
      BY <1>2, <2>1, <2>2, <2>3, Zenon DEF GetExtension, PlainCall
  <1>3. ASSUME NEW x \in ExtIds, NEW v \in ExtInputs, installation[x].status = "enabled",
               NEW q \in DOMAIN CurrentManifest(x).capabilities, InvokeView(c, x, q, v)
        PROVE  \E k : PlainCall(c, k)
    <2>1. /\ RowHolds(x) /\ installation[x] \in InstallationRows
          /\ installation[x].history # <<>>
      BY <1>3, TableRows DEF TablesInv, RowHolds
    <2>2. PICK m \in Manifests, n \in Nat, g \in DOMAIN grants :
            m = CurrentManifest(x) /\ n = installation[x].revision /\ g = installation[x].grant
      BY <1>3, <2>1, TableRows DEF CurrentManifest, ManifestAt, InstallationRows, RowHolds
    <2>3. q \in ExtCapabilities /\ g \in Nat /\ grants[g].authority \in Authorities
      BY <1>3, <2>2, TableRows DEF ExtCapabilities, GrantRows
    <2>4. PICK a \in Authorities : a = grants[g].authority
      BY <2>3, Zenon
    <2>5. PICK k : k = [pc |-> "viewed", kind |-> "invoke", ext |-> x, capability |-> q,
                        manifest |-> m, authority |-> a, grant |-> g, revision |-> n,
                        invocation |-> 0]
      BY Zenon
    <2>6. k \in InvokeCalls /\ k.pc = "viewed"
      BY <2>3, <2>5 DEF InvokeCalls
    <2>7. /\ k \in ExtCallRecords
          /\ k.pc \notin {"running", "succeeded", "failed"}
          /\ k.pc \notin {"asked", "probing", "probed"}
          /\ ~Launched(c) /\ extDaemon = "serving"
      BY <1>3, <2>6 DEF InvokeView, Launched, ExtCallRecords
    <2>8. extCall' = [extCall EXCEPT ![c] = k]
      BY <1>3, <2>2, <2>4, <2>5 DEF InvokeView, View
    <2>9. UNCHANGED <<invocations, extDaemon>>
      BY <1>3, Zenon DEF InvokeView
    <2> QED
      BY <2>7, <2>8, <2>9, Zenon DEF PlainCall
  <1>4. CASE \/ StageExtensionManifest(c) \/ DisableExtension(c) \/ RevokeExtension(c)
             \/ EnableCommit(c) \/ GetReturns(c)
    <2>1. Returns(c) /\ UNCHANGED <<invocations, extDaemon>>
      BY <1>4, Zenon DEF StageExtensionManifest, DisableExtension, RevokeExtension, Retire,
         EnableCommit, GetReturns
    <2>2. extCall[c].pc \in {"asked", "probing", "probed", "reading", "viewed"}
      BY <1>4 DEF StageExtensionManifest, DisableExtension, RevokeExtension, Retire,
         EnableCommit, GetReturns
    <2> QED
      BY <2>1, <2>2, ReturnIsPlain, Zenon
  <1>5. CASE BeginInvocation(c) /\ UNCHANGED invocations
    <2>1. Returns(c)
      <3>1. ~Dispatch(c)
        BY <1>5 DEF Dispatch, InvocationsInv
      <3> QED
        BY <1>5, <3>1, Zenon DEF BeginInvocation
    <2>2. extDaemon' = extDaemon
      BY <1>5, Zenon DEF BeginInvocation
    <2>3. extCall[c].pc \in {"asked", "probing", "probed", "reading", "viewed"}
      BY <1>5 DEF BeginInvocation
    <2> QED
      BY <1>5, <2>1, <2>2, <2>3, ReturnIsPlain, Zenon
  <1>6. CASE EnableView(c) \/ HealthProbe(c)
    <2>1. extCall[c].pc \in {"asked", "probing", "probed", "reading", "viewed"}
      BY <1>6 DEF EnableView, HealthProbe
    <2>2. UNCHANGED <<invocations, extDaemon>>
      BY <1>6, Zenon DEF EnableView, HealthProbe
    <2>3. ~Launched(c) /\ extDaemon = "serving"
      BY <2>1, BusyMeansServing DEF Launched
    <2>4. PICK x \in ExtIds, h \in LifecycleCalls :
            x = extCall[c].ext /\ h = extCall[c] /\ installation[x].status # "absent"
      BY <1>6, LifecycleCall DEF EnableView, HealthProbe
    <2>5. installation'[x].status # "absent"
      BY <2>4, Zenon DEF TablesGrow
    <2>6. CASE Returns(c)
      BY <2>1, <2>2, <2>6, ReturnIsPlain, Zenon
    <2>7. ASSUME NEW k \in LifecycleCalls, k.pc \in {"asked", "probing", "probed"}, k.ext = x,
                 extCall' = [extCall EXCEPT ![c] = k]
          PROVE  PlainCall(c, k)
      <3>1. k \in ExtCallRecords /\ k.pc \notin {"running", "succeeded", "failed"}
        BY <2>7 DEF ExtCallRecords
      <3> QED
        BY <2>2, <2>3, <2>5, <2>7, <3>1, Zenon DEF PlainCall
    <2>8. CASE extCall' = [extCall EXCEPT ![c].pc = "probed"]
      <3>1. PICK k : k = [h EXCEPT !.pc = "probed"]
        BY Zenon
      <3>2. k \in LifecycleCalls /\ k.pc = "probed" /\ k.ext = h.ext
        BY <3>1 DEF LifecycleCalls
      <3>3. extCall' = [extCall EXCEPT ![c] = k]
        BY <2>4, <2>8, <3>1, Zenon
      <3> QED
        BY <2>4, <2>7, <3>2, <3>3, Zenon
    <2>9. CASE extCall' = [extCall EXCEPT ![c] =
                 [@ EXCEPT !.pc = "probing", !.manifest = CurrentManifest(x)]]
      <3>0. PICK m \in Manifests : m = CurrentManifest(x)
        <4>1. installation[x] \in InstallationRows /\ installation[x].history # <<>>
          BY <2>4, TableRows, Zenon DEF TablesInv, RowHolds
        <4> QED
          BY <4>1 DEF CurrentManifest, ManifestAt, InstallationRows
      <3>1. PICK k : k = [h EXCEPT !.pc = "probing", !.manifest = m]
        BY Zenon
      <3>2. k \in LifecycleCalls /\ k.pc = "probing" /\ k.ext = h.ext
        BY <3>1, Zenon DEF LifecycleCalls
      <3>3. extCall' = [extCall EXCEPT ![c] = k]
        BY <2>4, <2>9, <3>0, <3>1, Zenon
      <3> QED
        BY <2>4, <2>7, <3>2, <3>3, Zenon
    <2>10. Returns(c) \/ extCall' = [extCall EXCEPT ![c].pc = "probed"]
           \/ extCall' = [extCall EXCEPT ![c] =
                 [@ EXCEPT !.pc = "probing", !.manifest = CurrentManifest(x)]]
      BY <1>6, <2>4, Zenon DEF EnableView, HealthProbe, Returns, View
    <2> QED
      BY <2>6, <2>7, <2>8, <2>9, <2>10, Zenon
  <1> QED
    BY <1>1, <1>2, <1>3, <1>4, <1>5, <1>6, Zenon DEF ExtCallNext

\* The sandboxed call: the launched handler keeps its row.
LEMMA HostKeepsCalls ==
    ASSUME ExtInv, TablesGrow, NEW c \in ExtCalls, NEW answer, HostInvoke(c, answer)
    PROVE  CallsInv'
  <1>1. PICK pc \in {"succeeded", "failed"} : extCall' = [extCall EXCEPT ![c].pc = pc]
    BY Zenon DEF HostInvoke
  <1>2. PICK h \in InvokeCalls : h = extCall[c] /\ h.pc = "running"
    BY InvokeCall DEF HostInvoke, ExtInv
  <1>3. PICK k : k = [h EXCEPT !.pc = pc]
    BY Zenon
  <1>4. k \in InvokeCalls /\ k.pc = pc /\ k.invocation = h.invocation
    BY <1>3 DEF InvokeCalls
  <1>5. k \in ExtCallRecords
    BY <1>4 DEF ExtCallRecords
  <1>6. extCall' = [extCall EXCEPT ![c] = k]
    BY <1>1, <1>2, <1>3, Zenon
  <1>7. /\ extCall' \in [ExtCalls -> ExtCallRecords] /\ extCall'[c] = k
        /\ \A d \in ExtCalls : d # c => extCall'[d] = extCall[d]
    BY <1>5, <1>6 DEF ExtInv, CallsInv
  <1>8. Launched(c) /\ Launched(c)' /\ extDaemon = "serving" /\ k.pc # "asked"
        /\ k.pc # "probing" /\ k.pc # "probed"
    BY <1>2, <1>4, <1>7, BusyMeansServing DEF Launched, ExtInv
  <1>9. ASSUME NEW d \in ExtCalls
        PROVE  /\ Launched(d)' <=> Launched(d)
               /\ extCall'[d].invocation = extCall[d].invocation
    <2>1. CASE d = c
      BY <1>2, <1>4, <1>7, <1>8, <2>1, Zenon
    <2>2. CASE d # c
      BY <1>7, <2>2, Zenon DEF Launched
    <2> QED
      BY <2>1, <2>2, Zenon
  <1>10. /\ UNCHANGED <<invocations, extDaemon>> /\ Dispatching' = Dispatching
    BY DEF HostInvoke, Dispatching
  <1>11. \A d \in ExtCalls : extCall'[d].pc \in {"asked", "probing", "probed"} =>
          installation'[extCall'[d].ext].status # "absent"
    BY <1>7, <1>8, AskedStays DEF ExtInv
  <1>12. ASSUME NEW d \in ExtCalls, Launched(d)'
         PROVE  /\ extCall'[d].invocation \in DOMAIN invocations'
                /\ invocations'[extCall'[d].invocation].status = "dispatching"
    <2>1. /\ extCall[d].invocation \in DOMAIN invocations
          /\ invocations[extCall[d].invocation].status = "dispatching"
      BY <1>9, <1>12, Zenon DEF ExtInv, CallsInv
    <2> QED
      BY <1>9, <1>10, <2>1, Zenon
  <1>13. \A d, e \in ExtCalls : Launched(d)' /\ Launched(e)' /\ d # e =>
           extCall'[d].invocation # extCall'[e].invocation
    BY <1>9, Zenon DEF ExtInv, CallsInv
  <1>14. \A i \in Dispatching' : \E d \in ExtCalls : Launched(d)' /\ extCall'[d].invocation = i
    <2>1. extDaemon = "serving" =>
            \A i \in Dispatching : \E d \in ExtCalls : Launched(d) /\ extCall[d].invocation = i
      BY Zenon DEF ExtInv, CallsInv
    <2> QED
      BY <1>8, <1>9, <1>10, <2>1, Zenon
  <1>15. extDaemon' \in {"serving", "down", "recovering"} /\ ~(extDaemon' # "serving")
    BY <1>8, <1>10
  <1> QED
    BY <1>7, <1>11, <1>12, <1>13, <1>14, <1>15, Zenon DEF CallsInv

\* Dispatch evidence is new, so no other handler has it.
LEMMA BeginKeepsCalls ==
    ASSUME ExtInv, TablesGrow, NEW c \in ExtCalls, BeginInvocation(c),
           ~UNCHANGED invocations
    PROVE  CallsInv'
  <1> DEFINE n == Len(invocations) + 1
  <1>1. PICK r \in InvocationRows :
          /\ invocations' = Append(invocations, r) /\ r.status = "dispatching"
          /\ extCall' = [extCall EXCEPT ![c].pc = "running", ![c].invocation = n]
    BY BeginDispatches, Zenon
  <1>2. /\ DOMAIN invocations' = DOMAIN invocations \cup {n} /\ n \notin DOMAIN invocations
        /\ invocations'[n] = r /\ n \in Nat
        /\ \A i \in DOMAIN invocations : invocations'[i] = invocations[i]
    BY <1>1 DEF ExtInv, InvocationsInv
  <1>3. PICK h \in InvokeCalls : h = extCall[c] /\ h.pc = "viewed"
    BY InvokeCall DEF BeginInvocation, ExtInv
  <1> HIDE DEF n
  <1>4. PICK k : k = [h EXCEPT !.pc = "running", !.invocation = n]
    BY Zenon
  <1>5. k \in InvokeCalls /\ k.pc = "running" /\ k.invocation = n
    BY <1>2, <1>4, Zenon DEF InvokeCalls
  <1>6. k \in ExtCallRecords
    BY <1>5 DEF ExtCallRecords
  <1>7. /\ extCall' \in [ExtCalls -> ExtCallRecords] /\ extCall'[c] = k
        /\ \A d \in ExtCalls : d # c => extCall'[d] = extCall[d]
    <2>1. extCall' = [extCall EXCEPT ![c] = k]
      BY <1>1, <1>3, <1>4, Zenon DEF ExtInv, CallsInv
    <2> QED
      BY <1>6, <2>1 DEF ExtInv, CallsInv
  <1>8. /\ ~Launched(c) /\ Launched(c)' /\ extDaemon = "serving"
        /\ k.pc \notin {"asked", "probing", "probed"}
    BY <1>3, <1>5, <1>7, BusyMeansServing DEF Launched, ExtInv
  <1>9. ASSUME NEW d \in ExtCalls, d # c
        PROVE  (Launched(d)' <=> Launched(d)) /\ extCall'[d] = extCall[d]
    BY <1>7, <1>9, Zenon DEF Launched
  <1>10. extDaemon' = extDaemon
    BY Zenon DEF BeginInvocation
  <1>11. \A d \in ExtCalls : extCall'[d].pc \in {"asked", "probing", "probed"} =>
          installation'[extCall'[d].ext].status # "absent"
    BY <1>7, <1>8, AskedStays, Zenon DEF ExtInv
  <1>12. ASSUME NEW d \in ExtCalls, Launched(d)'
         PROVE  /\ extCall'[d].invocation \in DOMAIN invocations'
                /\ invocations'[extCall'[d].invocation].status = "dispatching"
                /\ d # c => extCall'[d].invocation \in DOMAIN invocations
    <2>1. CASE d = c
      BY <1>1, <1>2, <1>5, <1>7, <2>1, Zenon
    <2>2. CASE d # c
      <3>1. PICK i : i = extCall[d].invocation /\ i = extCall'[d].invocation
        BY <1>9, <2>2, Zenon
      <3>2. i \in DOMAIN invocations /\ invocations[i].status = "dispatching"
        <4>1. Launched(d)
          BY <1>9, <1>12, <2>2, Zenon
        <4>2. /\ extCall[d].invocation \in DOMAIN invocations
              /\ invocations[extCall[d].invocation].status = "dispatching"
          BY <4>1, Zenon DEF ExtInv, CallsInv
        <4> QED
          BY <3>1, <4>2, Zenon
      <3> QED
        BY <1>2, <3>1, <3>2, Zenon
    <2> QED
      BY <2>1, <2>2, Zenon
  <1>13. \A d, e \in ExtCalls : Launched(d)' /\ Launched(e)' /\ d # e =>
           extCall'[d].invocation # extCall'[e].invocation
    <2>1. extCall'[c].invocation = n
      BY <1>5, <1>7, Zenon
    <2>2. ASSUME NEW d \in ExtCalls, NEW e \in ExtCalls, Launched(d)', Launched(e)', d # e,
                 d # c, e # c
          PROVE  extCall'[d].invocation # extCall'[e].invocation
      <3>1. Launched(d) /\ Launched(e) /\ extCall'[d] = extCall[d] /\ extCall'[e] = extCall[e]
        BY <1>9, <2>2, Zenon
      <3> QED
        BY <2>2, <3>1, Zenon DEF ExtInv, CallsInv
    <2>3. \A d \in ExtCalls : Launched(d)' /\ d # c => extCall'[d].invocation # n
      BY <1>2, <1>12, Zenon
    <2> QED
      BY <2>1, <2>2, <2>3, Zenon
  <1>14. ASSUME NEW i \in Dispatching'
         PROVE  \E d \in ExtCalls : Launched(d)' /\ extCall'[d].invocation = i
    <2>1. i = n \/ i \in Dispatching
      BY <1>2 DEF Dispatching
    <2> QED
      BY <1>5, <1>7, <1>8, <1>9, <2>1, Zenon DEF ExtInv, CallsInv
  <1>15. extDaemon' \in {"serving", "down", "recovering"} /\ ~(extDaemon' # "serving")
    BY <1>8, <1>10
  <1> QED
    BY <1>7, <1>11, <1>12, <1>13, <1>14, <1>15, Zenon DEF CallsInv

\* A completed row was this handler's alone.
LEMMA CompleteKeepsCalls ==
    ASSUME ExtInv, TablesGrow, NEW c \in ExtCalls, CompleteInvocation(c), Launched(c),
           Settles(extCall[c].invocation, extCall[c].pc)
    PROVE  CallsInv'
  <1>1. PICK n, st : n = extCall[c].invocation /\ st = extCall[c].pc /\ Settles(n, st)
    BY Zenon
  <1>2. /\ DOMAIN invocations' = DOMAIN invocations
        /\ invocations'[n].status # "dispatching"
        /\ \A j \in DOMAIN invocations : j # n => invocations'[j] = invocations[j]
    <2>1. invocations[n] \in InvocationRows /\ st \in {"succeeded", "failed", "abandoned"}
      BY <1>1, InvocationRowsTyped, Zenon DEF Settles, ExtInv
    <2>2. TerminalRow(invocations[n], st).status # "dispatching"
      BY <2>1, TerminalRowFields
    <2> QED
      BY <1>1, <2>2, SettledRows, Zenon DEF ExtInv
  <1>3. /\ extCall' \in [ExtCalls -> ExtCallRecords] /\ extCall'[c] = IdleCall
        /\ \A d \in ExtCalls : d # c => extCall'[d] = extCall[d]
    BY IdleIsPlain DEF CompleteInvocation, Returns, ExtInv, CallsInv
  <1>4. ~Launched(c)' /\ extDaemon = "serving"
    BY <1>3, IdleIsPlain, BusyMeansServing DEF Launched, ExtInv
  <1>5. ASSUME NEW d \in ExtCalls, d # c
        PROVE  (Launched(d)' <=> Launched(d)) /\ extCall'[d] = extCall[d]
    BY <1>3, <1>5, Zenon DEF Launched
  <1>6. extDaemon' = extDaemon
    BY Zenon DEF CompleteInvocation
  <1>7. \A d \in ExtCalls : extCall'[d].pc \in {"asked", "probing", "probed"} =>
          installation'[extCall'[d].ext].status # "absent"
    BY <1>3, IdleIsPlain, AskedStays DEF ExtInv
  <1>8. ASSUME NEW d \in ExtCalls, Launched(d)'
        PROVE  /\ d # c /\ Launched(d) /\ extCall'[d] = extCall[d]
               /\ extCall'[d].invocation \in DOMAIN invocations'
               /\ invocations'[extCall'[d].invocation].status = "dispatching"
    <2>1. d # c /\ Launched(d) /\ extCall'[d] = extCall[d]
      BY <1>4, <1>5, <1>8, Zenon
    <2>2. /\ extCall[d].invocation \in DOMAIN invocations
          /\ invocations[extCall[d].invocation].status = "dispatching"
          /\ extCall[d].invocation # n
      BY <1>1, <2>1, Zenon DEF ExtInv, CallsInv
    <2> QED
      BY <1>2, <2>1, <2>2, Zenon
  <1>9. ASSUME NEW d \in ExtCalls, NEW e \in ExtCalls, Launched(d)', Launched(e)', d # e
        PROVE  extCall'[d].invocation # extCall'[e].invocation
    <2>1. Launched(d) /\ Launched(e) /\ extCall'[d] = extCall[d] /\ extCall'[e] = extCall[e]
      BY <1>8, <1>9, Zenon
    <2> QED
      BY <1>9, <2>1, Zenon DEF ExtInv, CallsInv
  <1>10. ASSUME NEW i \in Dispatching'
         PROVE  \E d \in ExtCalls : Launched(d)' /\ extCall'[d].invocation = i
    <2>1. i # n /\ i \in Dispatching
      BY <1>2 DEF Dispatching
    <2>2. PICK d \in ExtCalls : Launched(d) /\ extCall[d].invocation = i
      BY <1>4, <2>1, Zenon DEF ExtInv, CallsInv
    <2>3. d # c
      BY <1>1, <2>1, <2>2, Zenon
    <2> QED
      BY <1>5, <2>2, <2>3, Zenon
  <1>11. extDaemon' \in {"serving", "down", "recovering"} /\ ~(extDaemon' # "serving")
    BY <1>4, <1>6
  <1> QED
    BY <1>3, <1>7, <1>8, <1>9, <1>10, <1>11, Zenon DEF CallsInv

\* While no handler runs there is nothing to own.
LEMMA IdleKeepsCalls ==
    ASSUME extCall' = [c \in ExtCalls |-> IdleCall], extDaemon' \in {"down", "recovering"}
    PROVE  CallsInv'
  <1>1. \A c \in ExtCalls : extCall'[c] = IdleCall /\ ~Launched(c)'
    BY IdleIsPlain DEF Launched
  <1>2. extCall' \in [ExtCalls -> ExtCallRecords]
    BY IdleIsPlain
  <1>3. \A c \in ExtCalls : extCall'[c].pc \notin {"asked", "probing", "probed"}
    BY <1>1, IdleIsPlain
  <1>4. extDaemon' \in {"serving", "down", "recovering"} /\ extDaemon' # "serving"
    OBVIOUS
  <1> QED
    BY <1>1, <1>2, <1>3, <1>4, Zenon DEF CallsInv

LEMMA IdleEverywhere ==
    ASSUME CallsInv, extDaemon # "serving"
    PROVE  extCall = [c \in ExtCalls |-> IdleCall]
  BY DEF CallsInv

LEMMA CallsStep ==
    ASSUME ExtInv, [ExtNext]_extVars
    PROVE  CallsInv'
  <1>0. TablesGrow
    BY TablesOnlyGrow DEF ExtInv
  <1>1. ASSUME NEW c \in ExtCalls, ExtCallNext(c)
        PROVE  CallsInv'
    <2>1. CASE CompleteInvocation(c)
      <3>1. Launched(c) /\ Settles(extCall[c].invocation, extCall[c].pc)
        BY <2>1, CompleteSettles, Zenon DEF ExtInv
      <3> QED
        BY <1>0, <2>1, <3>1, CompleteKeepsCalls, Zenon
    <2> QED
      BY <1>0, <1>1, <2>1, PlainSteps, PlainKeepsCalls, BeginKeepsCalls, HostKeepsCalls, Zenon
         DEF ExtInv
  <1>2. ASSUME NEW i \in DOMAIN invocations, RecoverInvocation(i)
        PROVE  CallsInv'
    <2>1. extDaemon = "recovering" /\ UNCHANGED <<extCall, extDaemon>>
      BY <1>2, Zenon DEF RecoverInvocation
    <2>2. extCall = [c \in ExtCalls |-> IdleCall]
      BY <2>1, IdleEverywhere DEF ExtInv
    <2> QED
      BY <2>1, <2>2, IdleKeepsCalls
  <1>3. CASE ExtCrash
    BY <1>3, IdleKeepsCalls DEF ExtCrash
  <1>4. CASE ExtStart
    <2>1. extCall = [c \in ExtCalls |-> IdleCall]
      BY <1>4, IdleEverywhere DEF ExtInv, ExtStart
    <2> QED
      BY <1>4, <2>1, IdleKeepsCalls DEF ExtStart
  <1>5. CASE ExtServe
    <2>1. /\ \A c \in ExtCalls : extCall[c] = IdleCall
          /\ UNCHANGED <<installation, invocations, extCall>> /\ extDaemon' = "serving"
      BY <1>5, Zenon DEF ExtInv, CallsInv, ExtServe
    <2>2. \A c \in ExtCalls : ~Launched(c)'
      BY <2>1, IdleIsPlain DEF Launched
    <2>3. \A c \in ExtCalls : extCall'[c].pc \notin {"asked", "probing", "probed"}
      BY <2>1, IdleIsPlain
    <2>4. Dispatching' = {}
      BY <1>5, <2>1 DEF ExtServe, RecoveryDone, Dispatching
    <2>5. extDaemon' \in {"serving", "down", "recovering"} /\ ~(extDaemon' # "serving")
      BY <2>1
    <2> QED
      BY <2>1, <2>2, <2>3, <2>4, <2>5, Zenon DEF ExtInv, CallsInv
  <1>6. CASE UNCHANGED <<extCall, invocations, extDaemon>>
    <2>1. \A d \in ExtCalls : extCall'[d].pc \in {"asked", "probing", "probed"} =>
            installation'[extCall'[d].ext].status # "absent"
      BY <1>0, <1>6, AskedStays, Zenon DEF ExtInv
    <2>2. Dispatching' = Dispatching
      BY <1>6 DEF Dispatching
    <2>3. \A d \in ExtCalls : Launched(d)' <=> Launched(d)
      BY <1>6, Zenon DEF Launched
    <2> QED
      BY <1>6, <2>1, <2>2, <2>3, Zenon DEF ExtInv, CallsInv
  <1>7. ASSUME \/ \E x \in ExtIds, m \in Manifests : InstallExtension(x, m)
               \/ \E m \in Manifests : ReplacePackage(m)
               \/ UNCHANGED extVars
        PROVE  UNCHANGED <<extCall, invocations, extDaemon>>
    BY <1>7, Zenon DEF InstallExtension, ReplacePackage, extVars
  <1> QED
    BY <1>1, <1>2, <1>3, <1>4, <1>5, <1>6, <1>7, Zenon DEF ExtNext

LEMMA ExtInitInv ==
    ASSUME ExtInit
    PROVE  ExtInv
  <1>1. AbsentExtension \in InstallationRows
    BY DEF AbsentExtension, InstallationRows, ExtStatuses
  <1>2. TablesInv
    BY <1>1 DEF ExtInit, TablesInv, RowHolds, AbsentExtension
  <1>3. InvocationsInv
    BY DEF ExtInit, InvocationsInv
  <1>4. CallsInv
    <2>1. \A c \in ExtCalls : extCall[c] = IdleCall /\ ~Launched(c)
      BY IdleIsPlain DEF ExtInit, Launched
    <2>2. \A c \in ExtCalls : extCall[c].pc \notin {"asked", "probing", "probed"}
      BY <2>1, IdleIsPlain
    <2>3. extCall \in [ExtCalls -> ExtCallRecords] /\ extDaemon = "serving"
      BY IdleIsPlain DEF ExtInit
    <2>4. Dispatching = {}
      BY DEF ExtInit, Dispatching
    <2> QED
      BY <2>1, <2>2, <2>3, <2>4 DEF CallsInv
  <1> QED
    BY <1>2, <1>3, <1>4 DEF ExtInv

LEMMA ExtInvariant ==
    ExtSpec => []ExtInv
  <1>1. ExtInv /\ [ExtNext]_extVars => ExtInv'
    BY TablesStep, InvocationsStep, CallsStep DEF ExtInv
  <1> QED
    BY <1>1, ExtInitInv, PTL DEF ExtSpec

\* ExtensionSafety holds in every reachable state: stored rows are well formed,
\* an active grant is that of an enabled extension's current manifest, and each
\* dispatched invocation belongs to one live handler or awaits recovery.
THEOREM ExtensionSafe == ExtSpec => []ExtensionSafety
  <1>1. ASSUME ExtInv
        PROVE  ExtensionSafety
    <2> USE <1>1 DEF ExtInv
    <2>1. ASSUME NEW x \in ExtIds
          PROVE  /\ installation[x].status \in ExtStatuses
                 /\ installation[x].history \in Seq(Manifests)
                 /\ installation[x].grant \in 0..Len(grants)
                 /\ (installation[x].status = "enabled") <=> (installation[x].grant # 0)
      <3>1. \A r \in InstallationRows : r.status \in ExtStatuses /\ r.history \in Seq(Manifests)
        BY DEF InstallationRows
      <3> QED
        BY <3>1, TableRows, Zenon DEF TablesInv, RowHolds
    <2>2. ExtensionTypeOK
      BY <2>1, InvocationRowsTyped, Zenon
         DEF ExtensionTypeOK, InvocationsInv, InvocationHolds, RefersTo, EvidenceOf
    <2>3. AuthorityIsCurrent
      BY <2>1, Zenon DEF AuthorityIsCurrent, TablesInv, GrantHolds
    <2>4. DispatchIsOwned
      <3>1. ASSUME NEW c \in ExtCalls, extCall[c].pc = "running"
            PROVE  invocations[extCall[c].invocation].status = "dispatching"
        BY <3>1 DEF CallsInv, Launched
      <3>2. extDaemon = "serving" =>
              \A i \in Dispatching : \E c \in ExtCalls :
                /\ extCall[c].pc \in {"running", "succeeded", "failed"}
                /\ extCall[c].invocation = i
        BY Zenon DEF CallsInv, Launched
      <3> QED
        BY <3>1, <3>2, Zenon DEF DispatchIsOwned
    <2> QED
      BY <2>2, <2>3, <2>4, Zenon DEF ExtensionSafety
  <1> QED
    BY <1>1, ExtInvariant, PTL

LEMMA RowChanged ==
    ASSUME TablesInv, NEW x \in ExtIds, NEW row, installation' = [installation EXCEPT ![x] = row]
    PROVE  installation'[x] = row /\ \A y \in ExtIds : y # x => installation'[y] = installation[y]
  BY DEF TablesInv

LEMMA DomainStep ==
    ASSUME ExtInv, [ExtNext]_extVars
    PROVE  ExtensionFollowsDomain
  <1>1. ASSUME NEW y \in ExtIds, NEW row,
               installation' = [installation EXCEPT ![y] = row], Follows(installation[y], row)
        PROVE  \A x \in ExtIds : installation'[x] # installation[x] =>
                 Follows(installation[x], installation'[x])
    BY <1>1, RowChanged, Zenon DEF ExtInv
  <1>2. \/ UNCHANGED <<installation, grants>>
        \/ \E y \in ExtIds : \E row :
              /\ installation' = [installation EXCEPT ![y] = row]
              /\ Follows(installation[y], row)
    BY EveryStepChangesOneRow, Zenon
       DEF ExtInv, TablesChange, RowRetires, RetiredTo, EnabledTo
  <1>3. \A x \in ExtIds : installation'[x] # installation[x] =>
          Follows(installation[x], installation'[x])
    BY <1>1, <1>2, Zenon
  <1> QED
    BY <1>3, Zenon DEF ExtensionFollowsDomain, Follows

LEMMA ProbeStep ==
    ASSUME ExtInv, [ExtNext]_extVars
    PROVE  EnableFollowsProbe
  <1>1. ASSUME NEW y \in ExtIds, RowRetires(y)
        PROVE  \A x \in ExtIds : installation'[x].status = "enabled" =>
                 installation[x].status = "enabled"
    <2>1. CASE UNCHANGED <<installation, grants>>
      BY <2>1, Zenon
    <2>2. ASSUME NEW row, NEW st \in {"superseded", "revoked"}, RetiredTo(y, row, st)
          PROVE  \A x \in ExtIds : installation'[x].status = "enabled" =>
                   installation[x].status = "enabled"
      <3>1. row.status # "enabled"
        BY <2>2 DEF RetiredTo
      <3> QED
        BY <2>2, <3>1, RowChanged, Zenon DEF ExtInv, RetiredTo
    <2> QED
      BY <1>1, <2>1, <2>2, Zenon DEF RowRetires
  <1>2. ASSUME NEW c \in ExtCalls, EnableCommit(c), NEW x \in ExtIds,
               installation[x].status # "enabled", installation'[x].status = "enabled"
        PROVE  /\ extCall[c].pc = "probed" /\ extCall'[c].pc = "idle"
               /\ extCall[c].revision = installation[x].revision
               /\ extCall[c].manifest = CurrentManifest(x)
    <2>1. PICK y \in ExtIds : y = extCall[c].ext
      BY <1>2, EnableChange, Zenon DEF ExtInv
    <2>2. /\ AtExpectedRevision(c) /\ extCall[c].manifest = CurrentManifest(y) /\ Enable(c)
      BY <1>2, <2>1, Zenon DEF EnableCommit
    <2>3. x = y
      <3>1. installation' = [installation EXCEPT ![y] =
                               EnabledRow(installation[y], Len(grants) + 1)]
        BY <2>1, <2>2, Zenon DEF Enable
      <3> QED
        BY <1>2, <3>1, RowChanged, Zenon DEF ExtInv
    <2>4. extCall'[c] = IdleCall /\ extCall[c].pc = "probed"
      BY <1>2 DEF EnableCommit, Returns, ExtInv, CallsInv
    <2> QED
      BY <2>1, <2>2, <2>3, <2>4, IdleIsPlain, Zenon DEF AtExpectedRevision
  <1>3. \/ UNCHANGED <<installation, grants>>
        \/ \E y \in ExtIds : RowRetires(y)
        \/ \E c \in ExtCalls : EnableCommit(c)
    BY ExtStepShape, StageChange, RetireChange, InstallChange, Zenon DEF LifecycleStep, ExtInv
  <1> QED
    BY <1>1, <1>2, <1>3, Zenon DEF EnableFollowsProbe

LEMMA DispatchStep ==
    ASSUME ExtInv, [ExtNext]_extVars
    PROVE  DispatchIsAuthorized
  <1>1. CASE DOMAIN invocations' = DOMAIN invocations
    BY <1>1, Zenon DEF DispatchIsAuthorized
  <1>2. ASSUME NEW c \in ExtCalls, BeginInvocation(c), ~UNCHANGED invocations
        PROVE  DispatchIsAuthorized
    <2>1. PICK r \in InvocationRows :
            /\ invocations' = Append(invocations, r)
            /\ installation[r.ext].status = "enabled" /\ installation[r.ext].grant = r.grant
            /\ r.capability \in grants[r.grant].authority.capabilities
      BY <1>2, BeginDispatches, Zenon
    <2>2. \A i \in DOMAIN invocations' \ DOMAIN invocations : invocations'[i] = r
      BY <2>1 DEF ExtInv, InvocationsInv
    <2> QED
      BY <2>1, <2>2, Zenon DEF DispatchIsAuthorized
  <1> QED
    BY <1>1, <1>2, InvocationShape, SettledRows, Zenon DEF ExtInv

\* No step of an extension's lifecycle leaves the domain's transitions, turns an
\* extension on against a changed view, or dispatches without current authority.
THEOREM ExtensionKeepsToDomain == ExtSpec => ExtensionSteps
  <1>1. ASSUME ExtInv, [ExtNext]_extVars
        PROVE  ExtensionFollowsDomain /\ EnableFollowsProbe /\ DispatchIsAuthorized
    BY <1>1, DomainStep, ProbeStep, DispatchStep
  <1> QED
    BY <1>1, ExtInvariant, PTL DEF ExtSpec, ExtensionSteps

-----------------------------------------------------------------------------
(***************************************************************************)
(* Routing.                                                                *)
(***************************************************************************)
RtStates == {"ready", "prepared", "waiting", "answered", "failed"}
Healths == {"configured_unprobed", "healthy", "rate_limited", "degraded", "unhealthy"}
Minutes == 0..MaxMinute
RunRows == [state : RtStates, retries : 0..MaxRouteRetries,
            endpoint : Endpoints \cup {"none"}, tried : Seq(Endpoints)]
CallRows == [run : RtRuns, endpoint : Endpoints, step : {"acquired", "timed", "reserved"},
             attempt : 0..MaxRouteRetries, minute : Minutes]
Windows == [minute : Minutes, requests : Nat]

RoutingTyped ==
  /\ pins \in [RtRuns -> Endpoints \cup {"none"}]
  /\ minute \in Minutes
  /\ health \in [Endpoints -> Healths]
  /\ {e \in Endpoints : health[e] = "unhealthy"} \subseteq sick
  /\ inFlight = [e \in Endpoints |-> inFlight[e]]
  /\ window \in [Endpoints -> Windows]
  /\ calls \subseteq CallRows
  /\ runs \in [RtRuns -> RunRows]
  /\ \A r \in RtRuns : runs[r].state \in {"prepared", "waiting"} => runs[r].endpoint \in Endpoints
  /\ granted \in [Endpoints -> [Minutes -> Nat]]
  /\ skewed \in BOOLEAN

\* A thread belongs to the present attempt of its run, alone; the run waits
\* for it or has given up.
ThreadsInv ==
  \A c \in calls :
    /\ runs[c.run].state \in {"waiting", "failed"}
    /\ c.attempt = runs[c.run].retries
    /\ \A d \in calls : d.run = c.run => d = c

\* Nothing was granted in a minute after the window's, and the window counts
\* what was granted in its own.
WindowHolds(e) ==
  /\ window[e].requests <= RequestsPerMinute
  /\ ~skewed =>
       /\ granted[e][window[e].minute] <= window[e].requests
       /\ \A m \in Minutes :
            granted[e][m] <= RequestsPerMinute /\ (m > window[e].minute => granted[e][m] = 0)

\* The endpoint of a run's n-th attempt while none is unhealthy.
AttemptAt(n) == Chain[IF n < Len(Chain) THEN n ELSE Len(Chain)]

Walks(r) ==
  /\ \A i \in DOMAIN runs[r].tried :
       runs[r].tried[i] \in Candidates(r) /\ Serves(runs[r].tried[i], r)
  /\ (sick = {} /\ (\A e \in Endpoints : Serves(e, r)) /\ pins[r] = "none") =>
       /\ \A i \in DOMAIN runs[r].tried : runs[r].tried[i] = AttemptAt(i)
       /\ runs[r].state = "ready" => Len(runs[r].tried) = runs[r].retries
       /\ runs[r].state \in {"prepared", "waiting"} =>
            Len(runs[r].tried) = runs[r].retries + 1

-----------------------------------------------------------------------------
(* What a step does to one run. *)

AtState(row, st) == [row EXCEPT !.state = st]
Failed(row) == AtState(row, "failed")
Answered(row) == AtState(row, "answered")
Waiting(row) == AtState(row, "waiting")
Again(row) == [row EXCEPT !.state = "ready", !.retries = @ + 1]

RunStep(r) ==
  LET row == runs[r] IN
    \/ runs'[r] = row
    \/ row.state \in {"ready", "prepared", "waiting"} /\ runs'[r] = Failed(row)
    \/ row.state = "waiting" /\ runs'[r] = Answered(row)
    \/ row.state = "prepared" /\ runs'[r] = Waiting(row)
    \/ /\ row.state \in {"prepared", "waiting"} /\ row.retries < MaxRouteRetries
       /\ runs'[r] = Again(row)
    \/ /\ row.state = "ready"
       /\ \E e \in RouteProvider(r) : runs'[r] = Prepared(row, e)

RunsStep == runs' = [r \in RtRuns |-> runs'[r]] /\ \A r \in RtRuns : RunStep(r)

LEMMA RunMoved ==
    ASSUME RoutingTyped, NEW r \in RtRuns, NEW row, runs' = [runs EXCEPT ![r] = row]
    PROVE  /\ runs' = [x \in RtRuns |-> runs'[x]]
           /\ runs'[r] = row /\ \A x \in RtRuns : x # r => runs'[x] = runs[x]
           /\ RunStep(r) => RunsStep
  <1>1. /\ runs' = [x \in RtRuns |-> runs'[x]]
        /\ runs'[r] = row /\ \A x \in RtRuns : x # r => runs'[x] = runs[x]
    BY Zenon DEF RoutingTyped
  <1> QED
    BY <1>1, Zenon DEF RunsStep, RunStep

LEMMA RetriedSteps ==
    ASSUME NEW r \in RtRuns, NEW o, runs[r].state \in {"prepared", "waiting"},
           runs'[r] = Retried(runs[r], o)
    PROVE  RunStep(r)
  BY Zenon DEF Retried, RunStep, Failed, AtState, Again

LEMMA HandBackSteps ==
    ASSUME RoutingTyped, NEW c \in calls, NEW o, HandBack(c.run, c, o)
    PROVE  RunsStep /\ \A x \in RtRuns : x # c.run => runs'[x] = runs[x]
  <1>1. PICK r \in RtRuns : r = c.run
    BY DEF RoutingTyped, CallRows
  <1>2. PICK row : row = IF runs[r].state # "waiting" \/ runs[r].retries # c.attempt THEN runs[r]
                         ELSE IF o = Success THEN [runs[r] EXCEPT !.state = "answered"]
                         ELSE Retried(runs[r], o)
    BY Zenon
  <1>3. runs' = [runs EXCEPT ![r] = row]
    BY <1>1, <1>2, Zenon DEF HandBack
  <1>4. runs'[r] = row /\ \A x \in RtRuns : x # r => runs'[x] = runs[x]
    BY <1>3, RunMoved, Zenon
  <1>5. RunStep(r)
    <2>1. CASE row = runs[r]
      BY <1>4, <2>1, Zenon DEF RunStep
    <2>2. CASE runs[r].state = "waiting" /\ row = [runs[r] EXCEPT !.state = "answered"]
      BY <1>4, <2>2, Zenon DEF RunStep, Answered, AtState
    <2>3. CASE runs[r].state = "waiting" /\ row = Retried(runs[r], o)
      BY <1>4, <2>3, RetriedSteps
    <2> QED
      BY <1>2, <2>1, <2>2, <2>3
  <1> QED
    BY <1>1, <1>3, <1>4, <1>5, RunMoved, Zenon

LEMMA EveryStepMovesRuns ==
    ASSUME RoutingTyped, [RoutingNext]_routingVars
    PROVE  RunsStep
  <1>0. UNCHANGED runs => RunsStep
    BY DEF RoutingTyped, RunsStep, RunStep
  <1>1. ASSUME NEW r \in RtRuns, PrepareModel(r)
        PROVE  RunsStep
    <2>1. CASE runs' = [runs EXCEPT ![r] = Failed(runs[r])]
      BY <1>1, <2>1, RunMoved, Zenon DEF RunStep, PrepareModel
    <2>2. ASSUME NEW e \in RouteProvider(r), runs' = [runs EXCEPT ![r] = Prepared(runs[r], e)]
          PROVE  RunsStep
      BY <1>1, <2>2, RunMoved, Zenon DEF RunStep, PrepareModel
    <2>3. runs' = [runs EXCEPT ![r].state = "failed"] => runs' = [runs EXCEPT ![r] = Failed(runs[r])]
      BY DEF Failed, AtState
    <2> QED
      BY <1>1, <2>1, <2>2, <2>3, Zenon DEF PrepareModel
  <1>2. ASSUME NEW r \in RtRuns, AcquireSlot(r)
        PROVE  RunsStep
    <2>1. runs[r].state = "prepared"
      BY <1>2, Zenon DEF AcquireSlot
    <2>2. CASE runs' = [runs EXCEPT ![r] = Waiting(runs[r])]
      BY <2>1, <2>2, RunMoved, Zenon DEF RunStep
    <2>3. CASE runs' = [runs EXCEPT ![r] = Retried(runs[r], Busy)]
      <3>1. runs'[r] = Retried(runs[r], Busy)
        BY <2>3, RunMoved, Zenon
      <3>2. RunStep(r)
        BY <2>1, <3>1, RetriedSteps
      <3> QED
        BY <2>3, <3>2, RunMoved, Zenon
    <2>4. runs' = [runs EXCEPT ![r].state = "waiting"] => runs' = [runs EXCEPT ![r] = Waiting(runs[r])]
      BY DEF Waiting, AtState
    <2> QED
      BY <1>2, <2>2, <2>3, <2>4, Zenon DEF AcquireSlot
  <1>3. ASSUME NEW r \in RtRuns, WorkerTimesOut(r)
        PROVE  RunsStep
    <2>1. runs' = [runs EXCEPT ![r].state = "failed"] => runs' = [runs EXCEPT ![r] = Failed(runs[r])]
      BY DEF Failed, AtState
    <2>2. runs[r].state = "waiting" /\ runs' = [runs EXCEPT ![r] = Failed(runs[r])]
      BY <1>3, <2>1, Zenon DEF WorkerTimesOut
    <2> QED
      BY <2>2, RunMoved, Zenon DEF RunStep
  <1>4. ASSUME NEW c \in calls, NEW o, SettleCall(c, o)
        PROVE  RunsStep
    BY <1>4, HandBackSteps, Zenon DEF SettleCall
  <1>5. CASE RtRestart
    <2>1. \A r \in RtRuns : RunStep(r)
      BY <1>5, Zenon DEF RtRestart, RunStep, Again, Failed, AtState
    <2>2. runs' = [r \in RtRuns |-> runs'[r]]
      BY <1>5, Zenon DEF RtRestart
    <2> QED
      BY <2>1, <2>2, Zenon DEF RunsStep
  <1> QED
    BY <1>0, <1>1, <1>2, <1>3, <1>4, <1>5, Zenon
       DEF RoutingNext, routingVars, ReadMinute, ReserveRateCapacity, FinishCall, MinutePasses

LEMMA RunRowFields ==
    ASSUME NEW row \in RunRows
    PROVE  /\ \A st \in RtStates :
                /\ AtState(row, st) \in RunRows /\ AtState(row, st).state = st
                /\ AtState(row, st).retries = row.retries
                /\ AtState(row, st).tried = row.tried /\ AtState(row, st).endpoint = row.endpoint
           /\ row.retries < MaxRouteRetries =>
                /\ Again(row) \in RunRows /\ Again(row).state = "ready"
                /\ Again(row).retries = row.retries + 1 /\ Again(row).tried = row.tried
           /\ \A e \in Endpoints :
                /\ Prepared(row, e) \in RunRows /\ Prepared(row, e).state = "prepared"
                /\ Prepared(row, e).retries = row.retries /\ Prepared(row, e).endpoint = e
                /\ Prepared(row, e).tried = Append(row.tried, e)
  <1>1. \A st \in RtStates :
          /\ AtState(row, st) \in RunRows /\ AtState(row, st).state = st
          /\ AtState(row, st).retries = row.retries
          /\ AtState(row, st).tried = row.tried /\ AtState(row, st).endpoint = row.endpoint
    BY DEF RunRows, AtState
  <1>2. ASSUME row.retries < MaxRouteRetries
        PROVE  /\ Again(row) \in RunRows /\ Again(row).state = "ready"
               /\ Again(row).retries = row.retries + 1 /\ Again(row).tried = row.tried
    <2> DEFINE new == Again(row)
               flat == [state |-> "ready", retries |-> row.retries + 1,
                        endpoint |-> row.endpoint, tried |-> row.tried]
    <2>1. new = [f \in {"state", "retries", "endpoint", "tried"} |-> new[f]]
      BY Zenon DEF RunRows, Again
    <2>2. /\ new.state = "ready" /\ new.retries = row.retries + 1
          /\ new.endpoint = row.endpoint /\ new.tried = row.tried
      BY DEF RunRows, Again
    <2>3. flat \in RunRows
      BY <1>2, RoutingBounds DEF RunRows, RtStates
    <2> HIDE DEF new
    <2>4. new = [state |-> new.state, retries |-> new.retries,
                 endpoint |-> new.endpoint, tried |-> new.tried]
      BY <2>1
    <2> QED
      BY <2>2, <2>3, <2>4, Zenon DEF new
  <1>3. ASSUME NEW e \in Endpoints
        PROVE  /\ Prepared(row, e) \in RunRows /\ Prepared(row, e).state = "prepared"
               /\ Prepared(row, e).retries = row.retries /\ Prepared(row, e).endpoint = e
               /\ Prepared(row, e).tried = Append(row.tried, e)
    <2> DEFINE new == Prepared(row, e)
               flat == [state |-> "prepared", retries |-> row.retries,
                        endpoint |-> e, tried |-> Append(row.tried, e)]
    <2>1. new = [f \in {"state", "retries", "endpoint", "tried"} |-> new[f]]
      BY Zenon DEF RunRows, Prepared
    <2>2. /\ new.state = "prepared" /\ new.retries = row.retries
          /\ new.endpoint = e /\ new.tried = Append(row.tried, e)
      BY DEF RunRows, Prepared
    <2>3. flat \in RunRows
      BY DEF RunRows, RtStates
    <2> HIDE DEF new
    <2>4. new = [state |-> new.state, retries |-> new.retries,
                 endpoint |-> new.endpoint, tried |-> new.tried]
      BY <2>1
    <2> QED
      BY <2>2, <2>3, <2>4, Zenon DEF new
  <1> QED
    BY <1>1, <1>2, <1>3, Zenon

-----------------------------------------------------------------------------
(* Types. *)

LEMMA Rotates ==
    ASSUME NEW n \in Nat
    PROVE  /\ \A i \in DOMAIN Chain : Rotation(n)[i] \in Endpoints
           /\ 1 \in DOMAIN Chain /\ Rotation(n)[1] = AttemptAt(n + 1)
  <1>1. Chain \in Seq(Endpoints) /\ Len(Chain) \in Nat \ {0} /\ DOMAIN Chain = 1..Len(Chain)
    BY RoutingBounds
  <1> DEFINE k == IF n < Len(Chain) THEN n ELSE Len(Chain) - 1
  <1>2. k \in 0..(Len(Chain) - 1)
    BY <1>1
  <1>3. \A i \in DOMAIN Chain :
          Rotation(n)[i] = Chain[IF k + i <= Len(Chain) THEN k + i ELSE k + i - Len(Chain)]
    BY Zenon DEF Rotation
  <1>4. 1 \in DOMAIN Chain /\ Rotation(n)[1] = AttemptAt(n + 1)
    BY <1>1, <1>3 DEF AttemptAt
  <1> HIDE DEF k
  <1>5. \A i \in DOMAIN Chain : Rotation(n)[i] \in Endpoints
    BY <1>1, <1>2, <1>3
  <1> QED
    BY <1>4, <1>5, Zenon

LEMMA Routed ==
    ASSUME RoutingTyped, NEW r \in RtRuns, NEW e \in RouteProvider(r)
    PROVE  /\ e \in Candidates(r) /\ Serves(e, r) /\ e \in Endpoints
           /\ (sick = {} /\ (\A x \in Endpoints : Serves(x, r)) /\ pins[r] = "none") =>
                e = AttemptAt(runs[r].retries + 1)
  <1>1. PICK n \in Nat : n = runs[r].retries
    BY RoutingBounds DEF RoutingTyped, RunRows
  <1>2. PICK i \in MatchesOf(r) : e = Rotation(n)[i] /\ \A k \in MatchesOf(r) : i <= k
    BY <1>1, Zenon DEF RouteProvider
  <1>3. /\ i \in DOMAIN Chain /\ e \in Candidates(r) /\ Serves(e, r) /\ e \in Endpoints
    BY <1>1, <1>2, Rotates, Zenon DEF MatchesOf, CandidateMatches
  <1>4. ASSUME sick = {}, \A x \in Endpoints : Serves(x, r), pins[r] = "none"
        PROVE  e = AttemptAt(n + 1)
    <2>1. \A x \in Endpoints : x \in Candidates(r) /\ CandidateMatches(x, r)
      BY <1>4, Zenon DEF Candidates, CandidateMatches, Available, RoutingTyped
    <2>2. 1 \in MatchesOf(r)
      BY <1>1, <2>1, Rotates, Zenon DEF MatchesOf
    <2>3. i <= 1 /\ i \in 1..Len(Chain)
      BY <1>2, <1>3, <2>2, RoutingBounds
    <2>4. i = 1
      BY <2>3, RoutingBounds
    <2> QED
      BY <1>2, <2>4, Rotates, Zenon
  <1> QED
    BY <1>1, <1>3, <1>4, Zenon

\* What each way for a run to move leaves in its row.
RowMoves(r) ==
  /\ runs'[r] \in RunRows
  /\ \/ runs'[r] = runs[r]
     \/ /\ runs'[r].state \in {"failed", "answered"}
        /\ runs'[r].tried = runs[r].tried /\ runs'[r].retries = runs[r].retries
     \/ /\ runs[r].state = "prepared" /\ runs'[r].state = "waiting"
        /\ runs'[r].tried = runs[r].tried /\ runs'[r].retries = runs[r].retries
        /\ runs'[r].endpoint = runs[r].endpoint
     \/ /\ runs[r].state \in {"prepared", "waiting"} /\ runs'[r].state = "ready"
        /\ runs'[r].tried = runs[r].tried /\ runs'[r].retries = runs[r].retries + 1
     \/ /\ runs[r].state = "ready" /\ runs'[r].state = "prepared"
        /\ runs'[r].endpoint \in RouteProvider(r) /\ runs'[r].endpoint \in Endpoints
        /\ runs'[r].tried = Append(runs[r].tried, runs'[r].endpoint)
        /\ runs'[r].retries = runs[r].retries

LEMMA RunFields ==
    ASSUME RoutingTyped, NEW r \in RtRuns, RunStep(r)
    PROVE  RowMoves(r)
  <1>1. PICK row \in RunRows : row = runs[r]
    BY Zenon DEF RoutingTyped
  <1>2. "failed" \in RtStates /\ "answered" \in RtStates /\ "waiting" \in RtStates
    BY DEF RtStates
  <1>3. CASE runs'[r] = row
    BY <1>1, <1>3, Zenon DEF RowMoves
  <1>4. CASE runs'[r] = Failed(row)
    <2>1. /\ Failed(row) \in RunRows /\ Failed(row).state = "failed" /\ Failed(row).retries = row.retries
          /\ Failed(row).tried = row.tried /\ Failed(row).endpoint = row.endpoint
      BY <1>4, <1>1, <1>2, RunRowFields, Zenon DEF Failed
    <2> QED
      BY <1>1, <1>4, <2>1, Zenon DEF RowMoves
  <1>5. CASE runs'[r] = Answered(row)
    <2>1. /\ Answered(row) \in RunRows /\ Answered(row).state = "answered" /\ Answered(row).retries = row.retries
          /\ Answered(row).tried = row.tried /\ Answered(row).endpoint = row.endpoint
      BY <1>5, <1>1, <1>2, RunRowFields, Zenon DEF Answered
    <2> QED
      BY <1>1, <1>5, <2>1, Zenon DEF RowMoves
  <1>6. CASE row.state = "prepared" /\ runs'[r] = Waiting(row)
    <2>1. /\ Waiting(row) \in RunRows /\ Waiting(row).state = "waiting" /\ Waiting(row).retries = row.retries
          /\ Waiting(row).tried = row.tried /\ Waiting(row).endpoint = row.endpoint
      BY <1>6, <1>1, <1>2, RunRowFields, Zenon DEF Waiting
    <2> QED
      BY <1>1, <1>6, <2>1, Zenon DEF RowMoves
  <1>7. CASE /\ row.state \in {"prepared", "waiting"} /\ row.retries < MaxRouteRetries
             /\ runs'[r] = Again(row)
    <2>1. /\ Again(row) \in RunRows /\ Again(row).state = "ready" /\ Again(row).retries = row.retries + 1
          /\ Again(row).tried = row.tried
      BY <1>7, <1>1, <1>2, RunRowFields, Zenon
    <2> QED
      BY <1>1, <1>7, <2>1, Zenon DEF RowMoves
  <1>8. ASSUME row.state = "ready", NEW e \in RouteProvider(r), runs'[r] = Prepared(row, e)
        PROVE  RowMoves(r)
    <2>1. e \in Endpoints
      BY Routed, Zenon
    <2>2. /\ Prepared(row, e) \in RunRows /\ Prepared(row, e).state = "prepared"
          /\ Prepared(row, e).retries = row.retries /\ Prepared(row, e).endpoint = e
          /\ Prepared(row, e).tried = Append(row.tried, e) /\ e \in Endpoints
      BY <2>1, RunRowFields, Zenon
    <2> QED
      BY <1>1, <1>8, <2>1, <2>2, Zenon DEF RowMoves
  <1> QED
    BY <1>1, <1>3, <1>4, <1>5, <1>6, <1>7, <1>8, Zenon DEF RunStep

-----------------------------------------------------------------------------
(* Threads and their slots. *)

ThreadsQuiet ==
  /\ UNCHANGED <<calls, inFlight>>
  /\ \A c \in calls : runs'[c.run].state \in {"waiting", "failed"}
                      /\ runs'[c.run].retries = runs[c.run].retries

ThreadStarts(r, d) ==
  /\ d \in CallRows /\ d.run = r /\ d.attempt = runs[r].retries
  /\ calls' = calls \cup {d} /\ inFlight' = [inFlight EXCEPT ![d.endpoint] = @ + 1]
  /\ inFlight[d.endpoint] < MaximumConcurrentRequests
  /\ runs[r].state = "prepared" /\ runs' = [runs EXCEPT ![r].state = "waiting"]

ThreadGoesOn(c, d) ==
  /\ d \in CallRows /\ d.run = c.run /\ d.attempt = c.attempt /\ d.endpoint = c.endpoint
  /\ StepCall(c, d) /\ UNCHANGED <<runs, inFlight>>

ThreadEnds(c) ==
  ReleaseSlot(c) /\ \A x \in RtRuns : x # c.run => runs'[x] = runs[x]

ThreadsGone == calls' = {} /\ inFlight' = [e \in Endpoints |-> 0]

LEMMA CallFields ==
    ASSUME NEW c \in CallRows, NEW m \in Minutes
    PROVE  LET d == [c EXCEPT !.step = "timed", !.minute = m]
               b == [c EXCEPT !.step = "reserved"]
           IN  /\ d \in CallRows /\ d.run = c.run /\ d.attempt = c.attempt
               /\ d.endpoint = c.endpoint
               /\ b \in CallRows /\ b.run = c.run /\ b.attempt = c.attempt
               /\ b.endpoint = c.endpoint
  <1> DEFINE d == [c EXCEPT !.step = "timed", !.minute = m]
             b == [c EXCEPT !.step = "reserved"]
  <1>1. /\ b \in CallRows /\ b.run = c.run /\ b.attempt = c.attempt
        /\ b.endpoint = c.endpoint
    BY DEF CallRows
  <1>2. d = [f \in {"run", "endpoint", "step", "attempt", "minute"} |-> d[f]]
    BY Zenon DEF CallRows
  <1>3. /\ d.run = c.run /\ d.attempt = c.attempt /\ d.endpoint = c.endpoint
        /\ d.step = "timed" /\ d.minute = m
    BY DEF CallRows
  <1>4. [run |-> c.run, endpoint |-> c.endpoint, step |-> "timed", attempt |-> c.attempt,
         minute |-> m] \in CallRows
    BY DEF CallRows
  <1> HIDE DEF d
  <1>5. d = [run |-> d.run, endpoint |-> d.endpoint, step |-> d.step, attempt |-> d.attempt,
             minute |-> d.minute]
    BY <1>2
  <1> QED
    BY <1>1, <1>3, <1>4, <1>5, Zenon DEF d

LEMMA ThreadShape ==
    ASSUME RoutingTyped, ThreadsInv, [RoutingNext]_routingVars
    PROVE  \/ ThreadsQuiet
           \/ \E r \in RtRuns : \E d : ThreadStarts(r, d)
           \/ \E c \in calls : \E d : ThreadGoesOn(c, d)
           \/ \E c \in calls : ThreadEnds(c)
           \/ ThreadsGone
  <1>0. ASSUME NEW r \in RtRuns, runs[r].state \notin {"waiting", "failed"}, NEW row,
               runs' = [runs EXCEPT ![r] = row], UNCHANGED <<calls, inFlight>>
        PROVE  ThreadsQuiet
    <2>1. \A c \in calls : c.run # r /\ c.run \in RtRuns
      BY <1>0 DEF ThreadsInv, RoutingTyped, CallRows
    <2> QED
      BY <1>0, <2>1, RunMoved DEF ThreadsQuiet, ThreadsInv
  <1>1. ASSUME NEW r \in RtRuns, PrepareModel(r)
        PROVE  ThreadsQuiet
    <2>1. \E row : runs' = [runs EXCEPT ![r] = row]
      <3>1. runs' = [runs EXCEPT ![r].state = "failed"] =>
              runs' = [runs EXCEPT ![r] = Failed(runs[r])]
        BY DEF Failed, AtState
      <3> QED
        BY <1>1, <3>1, Zenon DEF PrepareModel
    <2>2. runs[r].state \notin {"waiting", "failed"} /\ UNCHANGED <<calls, inFlight>>
      BY <1>1 DEF PrepareModel
    <2> QED
      BY <1>0, <2>1, <2>2, Zenon
  <1>2. ASSUME NEW r \in RtRuns, AcquireSlot(r)
        PROVE  ThreadsQuiet \/ \E d : ThreadStarts(r, d)
    <2>1. runs[r].state = "prepared" /\ runs[r] \in RunRows /\ runs[r].endpoint \in Endpoints
      BY <1>2 DEF AcquireSlot, RoutingTyped
    <2>2. ASSUME runs' = [runs EXCEPT ![r] = Retried(runs[r], Busy)], UNCHANGED <<calls, inFlight>>
          PROVE  ThreadsQuiet
      <3>1. runs[r].state \notin {"waiting", "failed"}
        BY <2>1
      <3> QED
        BY <1>0, <2>2, <3>1, Zenon
    <2>3. Call(r, "acquired", 0) \in CallRows
      BY <2>1, RoutingBounds DEF Call, CallRows, RunRows, Minutes
    <2>4. /\ Call(r, "acquired", 0).run = r /\ Call(r, "acquired", 0).attempt = runs[r].retries
          /\ Call(r, "acquired", 0).endpoint = runs[r].endpoint
      BY DEF Call
    <2> QED
      BY <1>2, <2>1, <2>2, <2>3, <2>4, Zenon DEF AcquireSlot, ThreadStarts
  <1>3. ASSUME NEW r \in RtRuns, WorkerTimesOut(r)
        PROVE  ThreadsQuiet
    <2>1. /\ runs'[r].state = "failed" /\ runs'[r].retries = runs[r].retries
          /\ \A x \in RtRuns : x # r => runs'[x] = runs[x]
      BY <1>3 DEF WorkerTimesOut, RoutingTyped, RunRows
    <2>2. \A c \in calls : c.run \in RtRuns
      BY DEF RoutingTyped, CallRows
    <2> QED
      BY <1>3, <2>1, <2>2, Zenon DEF ThreadsQuiet, ThreadsInv, WorkerTimesOut
  <1>4. ASSUME NEW c \in calls, ReadMinute(c)
        PROVE  \E d : ThreadGoesOn(c, d)
    BY <1>4, CallFields, Zenon DEF ReadMinute, ThreadGoesOn, RoutingTyped
  <1>5. ASSUME NEW c \in calls, NEW o, SettleCall(c, o), ReleaseSlot(c)
        PROVE  ThreadEnds(c)
    BY <1>5, HandBackSteps, Zenon DEF SettleCall, ThreadEnds
  <1>6. ASSUME NEW c \in calls, ReserveRateCapacity(c)
        PROVE  (\E d : ThreadGoesOn(c, d)) \/ ThreadEnds(c)
    BY <1>5, <1>6, CallFields, Zenon DEF ReserveRateCapacity, ThreadGoesOn, RoutingTyped
  <1>7. CASE RtRestart
    BY <1>7, Zenon DEF RtRestart, ThreadsGone
  <1>8. CASE UNCHANGED <<runs, calls, inFlight>>
    BY <1>8, Zenon DEF ThreadsQuiet, ThreadsInv
  <1> QED
    BY <1>1, <1>2, <1>3, <1>4, <1>5, <1>6, <1>7, <1>8, Zenon
       DEF RoutingNext, routingVars, FinishCall, MinutePasses

LEMMA ThreadsStep ==
    ASSUME RoutingTyped, ThreadsInv, [RoutingNext]_routingVars
    PROVE  ThreadsInv' /\ calls' \subseteq CallRows
  <1>0. \A c \in calls : c.run \in RtRuns /\ c \in CallRows
    BY DEF RoutingTyped, CallRows
  <1>1. CASE ThreadsQuiet
    BY <1>0, <1>1, Zenon DEF ThreadsQuiet, ThreadsInv
  <1>2. ASSUME NEW r \in RtRuns, NEW d, ThreadStarts(r, d)
        PROVE  ThreadsInv' /\ calls' \subseteq CallRows
    <2>1. /\ runs'[r].state = "waiting" /\ runs'[r].retries = runs[r].retries
          /\ \A x \in RtRuns : x # r => runs'[x] = runs[x]
      BY <1>2 DEF ThreadStarts, RoutingTyped, RunRows
    <2>2. \A c \in calls : c.run # r
      BY <1>2 DEF ThreadStarts, ThreadsInv
    <2>3. calls' = calls \cup {d} /\ d \in CallRows /\ d.run = r /\ d.attempt = runs[r].retries
      BY <1>2, Zenon DEF ThreadStarts
    <2> QED
      BY <1>0, <2>1, <2>2, <2>3, Zenon DEF ThreadsInv
  <1>3. ASSUME NEW c \in calls, NEW d, ThreadGoesOn(c, d)
        PROVE  ThreadsInv' /\ calls' \subseteq CallRows
    <2>1. \A b \in calls' : b = d \/ (b \in calls /\ b.run # c.run)
      BY <1>3, Zenon DEF ThreadGoesOn, StepCall, ThreadsInv
    <2>2. /\ d \in CallRows /\ d.run = c.run /\ d.attempt = c.attempt /\ UNCHANGED runs
      BY <1>3, Zenon DEF ThreadGoesOn
    <2> QED
      BY <1>0, <2>1, <2>2, Zenon DEF ThreadsInv
  <1>4. ASSUME NEW c \in calls, ThreadEnds(c)
        PROVE  ThreadsInv' /\ calls' \subseteq CallRows
    <2>1. \A d \in calls' : d \in calls /\ d.run # c.run /\ runs'[d.run] = runs[d.run]
      BY <1>0, <1>4, Zenon DEF ThreadEnds, ReleaseSlot, ThreadsInv
    <2> QED
      BY <1>0, <2>1, Zenon DEF ThreadsInv
  <1>5. CASE ThreadsGone
    BY <1>5, Zenon DEF ThreadsGone, ThreadsInv
  <1> QED
    BY <1>1, <1>2, <1>3, <1>4, <1>5, ThreadShape, Zenon

-----------------------------------------------------------------------------
(* Health, the windows and the types. *)

HealthMoves(e) ==
  \E h \in Healths :
    /\ health' = [health EXCEPT ![e] = h]
    /\ \/ h # "unhealthy" /\ sick' = sick
       \/ sick' = sick \cup {x \in Endpoints : health'[x] = "unhealthy"}

LEMMA HealthValues ==
    ASSUME RoutingTyped, NEW e \in Endpoints, NEW class
    PROVE  /\ HealthAfter(e, class) \in Healths
           /\ class = "unavailable" => HealthAfter(e, class) # "unhealthy"
  BY DEF HealthAfter, SubscriptionHealth, HttpHealth, RoutingTyped, Healths

LEMMA HealthStep ==
    ASSUME RoutingTyped, [RoutingNext]_routingVars
    PROVE  /\ sick \subseteq sick'
           /\ health' \in [Endpoints -> Healths]
           /\ {e \in Endpoints : health'[e] = "unhealthy"} \subseteq sick'
  <1>0. \A c \in calls : c.endpoint \in Endpoints
    BY DEF RoutingTyped, CallRows
  <1>1. ASSUME NEW c \in calls, NEW o, SettleCall(c, o)
        PROVE  HealthMoves(c.endpoint)
    BY <1>0, <1>1, HealthValues, Zenon DEF SettleCall, HealthMoves
  <1>2. ASSUME NEW r \in RtRuns, AcquireSlot(r)
        PROVE  UNCHANGED <<health, sick>> \/ \E e \in Endpoints : HealthMoves(e)
    <2>1. runs[r].endpoint \in Endpoints
      BY <1>2 DEF AcquireSlot, RoutingTyped
    <2>2. Busy.class = "unavailable"
      BY DEF Busy, Outcome
    <2> QED
      BY <1>2, <2>1, <2>2, HealthValues, Zenon DEF AcquireSlot, HealthMoves
  <1>3. \/ UNCHANGED <<health, sick>>
        \/ \E e \in Endpoints : HealthMoves(e)
        \/ RtRestart
    BY <1>0, <1>1, <1>2, Zenon
       DEF RoutingNext, routingVars, PrepareModel, WorkerTimesOut, ReadMinute,
           ReserveRateCapacity, FinishCall, MinutePasses
  <1>4. ASSUME NEW e \in Endpoints, HealthMoves(e)
        PROVE  /\ sick \subseteq sick'
               /\ health' \in [Endpoints -> Healths]
               /\ {x \in Endpoints : health'[x] = "unhealthy"} \subseteq sick'
    BY <1>4 DEF HealthMoves, RoutingTyped
  <1>5. CASE RtRestart
    BY <1>5, Zenon DEF RtRestart, RoutingTyped, Healths
  <1>6. CASE UNCHANGED <<health, sick>>
    BY <1>6, Zenon DEF RoutingTyped
  <1> QED
    BY <1>3, <1>4, <1>5, <1>6, Zenon

RatesTyped ==
  /\ window \in [Endpoints -> Windows]
  /\ granted \in [Endpoints -> [Minutes -> Nat]]
  /\ skewed \in BOOLEAN

LEMMA ReserveKeepsWindows ==
    ASSUME RoutingTyped, \A e \in Endpoints : WindowHolds(e),
           NEW c \in calls, ReserveRateCapacity(c)
    PROVE  RatesTyped' /\ \A e \in Endpoints : WindowHolds(e)'
  <1>1. PICK x \in Endpoints : x = c.endpoint
    BY DEF RoutingTyped, CallRows
  <1>2. PICK m \in Minutes : m = c.minute
    BY DEF RoutingTyped, CallRows
  <1>3. PICK w : w = RateWindow(x, m)
    BY Zenon
  <1>4. /\ w \in Windows /\ w.minute = m /\ w.requests \in Nat
        /\ w.requests <= RequestsPerMinute
        /\ m = window[x].minute => w = window[x]
    BY <1>3, RoutingBounds DEF RateWindow, RoutingTyped, Windows, WindowHolds
  <1>5. /\ skewed' \in BOOLEAN /\ (skewed => skewed')
        /\ ~skewed' => ~(m < window[x].minute)
    BY <1>1, <1>2, Zenon DEF ReserveRateCapacity, RoutingTyped
  <1>6. window[x] \in Windows /\ granted[x] \in [Minutes -> Nat] /\ WindowHolds(x)
    BY Zenon DEF RoutingTyped
  <1>7. ~skewed' => /\ granted[x][m] <= w.requests
                    /\ \A n \in Minutes : n > m => granted[x][n] = 0
    BY <1>4, <1>5, <1>6 DEF WindowHolds, Minutes, Windows
  <1>8. ASSUME w.requests < RequestsPerMinute,
               window' = [window EXCEPT ![x] = CountRequest(w)],
               granted' = [granted EXCEPT ![x][m] = @ + 1]
        PROVE  RatesTyped' /\ \A e \in Endpoints : WindowHolds(e)'
    <2>1. PICK v : v = CountRequest(w)
      BY Zenon
    <2>2. v \in Windows /\ v.minute = m /\ v.requests = w.requests + 1
      BY <1>4, <2>1 DEF CountRequest, Windows
    <2>3. PICK g : g = [granted[x] EXCEPT ![m] = @ + 1]
      BY Zenon
    <2>4. /\ g \in [Minutes -> Nat] /\ g[m] = granted[x][m] + 1
          /\ \A n \in Minutes : n # m => g[n] = granted[x][n]
      BY <1>6, <2>3
    <2>5. window' = [window EXCEPT ![x] = v] /\ granted' = [granted EXCEPT ![x] = g]
      BY <1>8, <2>1, <2>3
    <2>6. /\ window' \in [Endpoints -> Windows] /\ window'[x] = v
          /\ granted' \in [Endpoints -> [Minutes -> Nat]] /\ granted'[x] = g
          /\ \A e \in Endpoints : e # x => window'[e] = window[e] /\ granted'[e] = granted[e]
      BY <2>2, <2>4, <2>5 DEF RoutingTyped
    <2>7. ~skewed' => granted[x][m] <= w.requests
      BY <1>7, Zenon
    <2>8. v.requests <= RequestsPerMinute
      BY <1>4, <1>8, <2>2, RoutingBounds
    <2>9. ~skewed' => /\ g[m] <= v.requests
                      /\ \A n \in Minutes : g[n] <= RequestsPerMinute /\ (n > m => g[n] = 0)
      <3>1. ~skewed' => g[m] <= v.requests /\ g[m] <= RequestsPerMinute
        BY <1>4, <1>6, <1>8, <2>2, <2>4, <2>7, <2>8, RoutingBounds
      <3>2. ~skewed' => \A n \in Minutes : n # m => g[n] <= RequestsPerMinute
        BY <1>5, <1>6, <2>4, Zenon DEF WindowHolds
      <3>3. ~skewed' => \A n \in Minutes : n > m => g[n] = 0
        BY <1>7, <2>4 DEF Minutes
      <3> QED
        BY <3>1, <3>2, <3>3, Zenon
    <2>10. WindowHolds(x)'
      BY <2>2, <2>6, <2>8, <2>9, Zenon DEF WindowHolds
    <2>11. \A e \in Endpoints : e # x => WindowHolds(e)'
      BY <1>5, <2>6, Zenon DEF WindowHolds
    <2> QED
      BY <1>5, <2>6, <2>10, <2>11, Zenon DEF RatesTyped
  <1>9. ASSUME window' = [window EXCEPT ![x] = w], granted' = granted
        PROVE  RatesTyped' /\ \A e \in Endpoints : WindowHolds(e)'
    <2>1. /\ window' \in [Endpoints -> Windows] /\ window'[x] = w
          /\ \A e \in Endpoints : e # x => window'[e] = window[e]
      BY <1>4, <1>9 DEF RoutingTyped
    <2>2. ~skewed' => \A n \in Minutes : granted[x][n] <= RequestsPerMinute
      BY <1>5, <1>6, Zenon DEF WindowHolds
    <2>3. WindowHolds(x)'
      BY <1>4, <1>7, <1>9, <2>1, <2>2, Zenon DEF WindowHolds
    <2>4. \A e \in Endpoints : e # x => WindowHolds(e)'
      BY <1>5, <1>9, <2>1, Zenon DEF WindowHolds
    <2> QED
      BY <1>5, <1>9, <2>1, <2>3, <2>4, Zenon DEF RatesTyped, RoutingTyped
  <1> QED
    BY <1>1, <1>2, <1>3, <1>8, <1>9, Zenon DEF ReserveRateCapacity

LEMMA RatesStep ==
    ASSUME RoutingTyped, \A e \in Endpoints : WindowHolds(e), [RoutingNext]_routingVars
    PROVE  RatesTyped' /\ \A e \in Endpoints : WindowHolds(e)'
  <1>1. CASE UNCHANGED <<window, granted, skewed>>
    BY <1>1, Zenon DEF RatesTyped, RoutingTyped, WindowHolds
  <1>2. CASE RtRestart
    <2>1. /\ \A e \in Endpoints : window'[e] = [minute |-> 0, requests |-> 0]
          /\ \A e \in Endpoints, m \in Minutes : granted'[e][m] = 0
          /\ 0 \in Minutes
      <3>1. /\ window' = [e \in Endpoints |-> [minute |-> 0, requests |-> 0]]
            /\ granted' = [e \in Endpoints |-> [m \in Minutes |-> 0]]
        BY <1>2, Zenon DEF RtRestart, Minutes
      <3>2. 0 \in Minutes
        BY RoutingBounds DEF Minutes
      <3> QED
        BY <3>1, <3>2, Zenon
    <2>2. RatesTyped'
      <3>1. [minute |-> 0, requests |-> 0] \in Windows
        BY <2>1 DEF Windows
      <3>2. window' \in [Endpoints -> Windows]
        BY <1>2, <3>1, Zenon DEF RtRestart
      <3>3. granted' \in [Endpoints -> [Minutes -> Nat]]
        BY <1>2, Zenon DEF RtRestart, Minutes
      <3> QED
        BY <1>2, <3>2, <3>3, Zenon DEF RatesTyped, RoutingTyped, RtRestart
    <2>3. \A e \in Endpoints : WindowHolds(e)'
      BY <2>1, RoutingBounds DEF WindowHolds
    <2> QED
      BY <2>2, <2>3, Zenon
  <1> QED
    BY <1>1, <1>2, ReserveKeepsWindows, Zenon
       DEF RoutingNext, routingVars, PrepareModel, AcquireSlot, WorkerTimesOut, ReadMinute,
           FinishCall, MinutePasses

LEMMA TypedStep ==
    ASSUME RoutingTyped, ThreadsInv, \A e \in Endpoints : WindowHolds(e),
           [RoutingNext]_routingVars
    PROVE  RoutingTyped'
  <1>1. pins' = pins
    BY Zenon DEF RoutingNext, routingVars
  <1>2. minute' \in Minutes
    <2>1. CASE MinutePasses
      BY <2>1, RoutingBounds DEF MinutePasses, RoutingTyped, Minutes
    <2>2. CASE UNCHANGED minute
      BY <2>2, Zenon DEF RoutingTyped
    <2> QED
      BY <2>1, <2>2, Zenon
         DEF RoutingNext, routingVars, PrepareModel, AcquireSlot, WorkerTimesOut, ReadMinute,
             ReserveRateCapacity, FinishCall, RtRestart
  <1>3. inFlight' = [e \in Endpoints |-> inFlight'[e]]
    <2>1. ASSUME NEW e, NEW n, inFlight' = [inFlight EXCEPT ![e] = n]
          PROVE  inFlight' = [x \in Endpoints |-> inFlight'[x]]
      BY <2>1, Zenon DEF RoutingTyped
    <2>2. ASSUME NEW c, ReleaseSlot(c)
          PROVE  inFlight' = [x \in Endpoints |-> inFlight'[x]]
      BY <2>1, <2>2, Zenon DEF ReleaseSlot
    <2>3. ASSUME NEW r, NEW d, ThreadStarts(r, d)
          PROVE  inFlight' = [x \in Endpoints |-> inFlight'[x]]
      BY <2>1, <2>3, Zenon DEF ThreadStarts
    <2>4. CASE UNCHANGED inFlight
      BY <2>4, Zenon DEF RoutingTyped
    <2>5. CASE ThreadsGone
      BY <2>5 DEF ThreadsGone
    <2> QED
      BY <2>2, <2>3, <2>4, <2>5, ThreadShape, Zenon
         DEF ThreadsQuiet, ThreadGoesOn, ThreadEnds
  <1>4. /\ runs' \in [RtRuns -> RunRows]
        /\ \A r \in RtRuns :
             runs'[r].state \in {"prepared", "waiting"} => runs'[r].endpoint \in Endpoints
    <2>1. \A r \in RtRuns : RowMoves(r)
      BY EveryStepMovesRuns, RunFields, Zenon DEF RunsStep
    <2>2. \A r \in RtRuns : runs'[r] \in RunRows
      BY <2>1, Zenon DEF RowMoves
    <2>3. runs' \in [RtRuns -> RunRows]
      BY <2>2, EveryStepMovesRuns DEF RunsStep
    <2>4. ASSUME NEW r \in RtRuns, runs'[r].state \in {"prepared", "waiting"}
          PROVE  runs'[r].endpoint \in Endpoints
      BY <2>1, <2>4 DEF RowMoves, RoutingTyped
    <2> QED
      BY <2>3, <2>4, Zenon
  <1> QED
    BY <1>1, <1>2, <1>3, <1>4, ThreadsStep, HealthStep, RatesStep, Zenon
       DEF RoutingTyped, RatesTyped

-----------------------------------------------------------------------------
(* The walk along the chain, and lost calls. *)

LEMMA WalksStep ==
    ASSUME RoutingTyped, [RoutingNext]_routingVars, NEW r \in RtRuns, Walks(r)
    PROVE  Walks(r)'
  <1>1. pins' = pins /\ sick \subseteq sick' /\ RowMoves(r) /\ Candidates(r)' = Candidates(r)
    BY EveryStepMovesRuns, RunFields, HealthStep, Zenon
       DEF RunsStep, RoutingNext, routingVars, Candidates
  <1>2. /\ runs[r].tried \in Seq(Endpoints) /\ runs'[r].tried \in Seq(Endpoints)
        /\ runs[r].retries \in Nat /\ runs[r].state \in RtStates
    BY <1>1, RoutingBounds DEF RoutingTyped, RowMoves, RunRows
  <1>3. CASE runs'[r].tried = runs[r].tried
    <2>1. \A i \in DOMAIN runs'[r].tried :
            runs'[r].tried[i] \in Candidates(r)' /\ Serves(runs'[r].tried[i], r)
      BY <1>1, <1>3, Zenon DEF Walks
    <2>2. ASSUME sick' = {}, \A e \in Endpoints : Serves(e, r), pins'[r] = "none"
          PROVE  /\ \A i \in DOMAIN runs'[r].tried : runs'[r].tried[i] = AttemptAt(i)
                 /\ runs'[r].state = "ready" => Len(runs'[r].tried) = runs'[r].retries
                 /\ runs'[r].state \in {"prepared", "waiting"} =>
                      Len(runs'[r].tried) = runs'[r].retries + 1
      <3>1. /\ \A i \in DOMAIN runs[r].tried : runs[r].tried[i] = AttemptAt(i)
            /\ runs[r].state = "ready" => Len(runs[r].tried) = runs[r].retries
            /\ runs[r].state \in {"prepared", "waiting"} =>
                 Len(runs[r].tried) = runs[r].retries + 1
        BY <1>1, <2>2 DEF Walks
      <3>2. runs'[r].tried # Append(runs[r].tried, runs'[r].endpoint)
        <4>1. Len(Append(runs[r].tried, runs'[r].endpoint)) = Len(runs[r].tried) + 1
          BY <1>2
        <4> QED
          BY <1>2, <1>3, <4>1
      <3> QED
        BY <1>1, <1>2, <1>3, <3>1, <3>2 DEF RowMoves
    <2> QED
      BY <2>1, <2>2, Zenon DEF Walks
  <1>4. CASE /\ runs[r].state = "ready" /\ runs'[r].state = "prepared"
             /\ runs'[r].endpoint \in RouteProvider(r) /\ runs'[r].endpoint \in Endpoints
             /\ runs'[r].tried = Append(runs[r].tried, runs'[r].endpoint)
             /\ runs'[r].retries = runs[r].retries
    <2>1. PICK e \in RouteProvider(r) : e = runs'[r].endpoint
      BY <1>4, Zenon
    <2>2. /\ e \in Endpoints
          /\ \A i \in DOMAIN runs'[r].tried :
               (i \in DOMAIN runs[r].tried /\ runs'[r].tried[i] = runs[r].tried[i])
               \/ (i = Len(runs[r].tried) + 1 /\ runs'[r].tried[i] = e)
          /\ Len(runs'[r].tried) = Len(runs[r].tried) + 1
      BY <1>2, <1>4, <2>1
    <2>3. \A i \in DOMAIN runs'[r].tried :
            runs'[r].tried[i] \in Candidates(r)' /\ Serves(runs'[r].tried[i], r)
      BY <1>1, <2>1, <2>2, Routed, Zenon DEF Walks
    <2>4. ASSUME sick' = {}, \A x \in Endpoints : Serves(x, r), pins'[r] = "none"
          PROVE  /\ \A i \in DOMAIN runs'[r].tried : runs'[r].tried[i] = AttemptAt(i)
                 /\ Len(runs'[r].tried) = runs'[r].retries + 1
      <3>0. sick = {} /\ pins[r] = "none"
        BY <1>1, <2>4, Zenon
      <3>1. /\ \A i \in DOMAIN runs[r].tried : runs[r].tried[i] = AttemptAt(i)
            /\ Len(runs[r].tried) = runs[r].retries
        BY <1>4, <2>4, <3>0, Zenon DEF Walks
      <3>2. e = AttemptAt(runs[r].retries + 1)
        BY <2>4, <3>0, Routed, Zenon
      <3> QED
        BY <1>4, <2>2, <3>1, <3>2, Zenon
    <2>5. runs'[r].state # "ready"
      BY <1>4
    <2> QED
      BY <2>3, <2>4, <2>5, Zenon DEF Walks
  <1> QED
    BY <1>1, <1>3, <1>4, Zenon DEF RowMoves

LostInv == lost \subseteq RtRuns /\ UnknownIsNotRepeated

LEMMA LostStep ==
    ASSUME RoutingTyped, ThreadsInv, LostInv, [RoutingNext]_routingVars
    PROVE  LostInv'
  <1>1. \A r \in lost : runs'[r].state \in {"answered", "failed"}
    <2> SUFFICES ASSUME NEW r \in lost PROVE runs'[r].state \in {"answered", "failed"}
      BY Zenon
    <2>1. r \in RtRuns /\ runs[r].state \in {"answered", "failed"} /\ RunStep(r)
      BY EveryStepMovesRuns, Zenon DEF LostInv, UnknownIsNotRepeated, RunsStep
    <2> QED
      BY <2>1 DEF RunStep
  <1>2. ASSUME NEW r \in RtRuns, WorkerTimesOut(r)
        PROVE  LostInv'
    <2>1. runs'[r].state = "failed" /\ lost' = lost \cup {r}
      BY <1>2 DEF WorkerTimesOut, RoutingTyped, RunRows
    <2> QED
      BY <1>1, <2>1 DEF LostInv, UnknownIsNotRepeated
  <1>3. ASSUME NEW c \in calls, NEW o, SettleCall(c, o)
        PROVE  LostInv'
    <2>1. CASE o.known
      BY <1>1, <1>3, <2>1, Zenon DEF SettleCall, LostInv, UnknownIsNotRepeated
    <2>2. CASE ~o.known
      <3>1. PICK r \in RtRuns : r = c.run
        BY DEF RoutingTyped, CallRows
      <3>2. runs[r].state \in {"waiting", "failed"} /\ c.attempt = runs[r].retries
        BY <3>1, Zenon DEF ThreadsInv
      <3>3. o # Success
        BY <2>2 DEF Success, Outcome
      <3>4. runs'[r] = IF runs[r].state # "waiting" THEN runs[r] ELSE Failed(runs[r])
        BY <1>3, <2>2, <3>1, <3>2, <3>3
           DEF SettleCall, HandBack, Retried, Failed, AtState, RoutingTyped
      <3>5. runs'[r].state = "failed"
        BY <3>2, <3>4 DEF Failed, AtState, RoutingTyped, RunRows
      <3>6. lost' = lost \cup {r}
        BY <1>3, <2>2, <3>1, Zenon DEF SettleCall
      <3> QED
        BY <1>1, <3>5, <3>6 DEF LostInv, UnknownIsNotRepeated
    <2> QED
      BY <2>1, <2>2, Zenon
  <1>4. CASE UNCHANGED lost
    BY <1>1, <1>4, Zenon DEF LostInv, UnknownIsNotRepeated
  <1> QED
    BY <1>2, <1>3, <1>4, Zenon
       DEF RoutingNext, routingVars, PrepareModel, AcquireSlot, ReadMinute,
           ReserveRateCapacity, FinishCall, MinutePasses, RtRestart

-----------------------------------------------------------------------------
(* Slots are counted by the threads that hold them. *)

CallsOn(e) == {c \in calls : c.endpoint = e}

Finite(S) == IsFiniteSet(S)
Count(S) == Cardinality(S)

\* What counting rests on; shown at the end, from the library's theorems.
Counting ==
  /\ Finite({}) /\ Count({}) = 0
  /\ \A S : Finite(S) =>
       /\ Count(S) \in Nat
       /\ \A T : T \subseteq S => Finite(T)
       /\ \A x : x \notin S => Finite(S \cup {x}) /\ Count(S \cup {x}) = Count(S) + 1
       /\ \A x : x \in S => Finite(S \ {x}) /\ Count(S \ {x}) = Count(S) - 1

SlotsCounted ==
  \A e \in Endpoints :
    inFlight[e] = Count(CallsOn(e)) /\ inFlight[e] <= MaximumConcurrentRequests

SlotsInv == Finite(calls) /\ SlotsCounted

LEMMA SlotsStep ==
    ASSUME Counting, RoutingTyped, ThreadsInv, SlotsInv, [RoutingNext]_routingVars
    PROVE  SlotsInv'
  <1>0. /\ \A e : Finite(CallsOn(e)) /\ CallsOn(e) \subseteq calls
        /\ \A c \in calls : c.endpoint \in Endpoints /\ c \in CallsOn(c.endpoint)
        /\ \A e \in Endpoints :
             inFlight[e] \in Nat /\ inFlight[e] = Count(CallsOn(e))
             /\ inFlight[e] <= MaximumConcurrentRequests
    <2>1. \A e : Finite(CallsOn(e)) /\ CallsOn(e) \subseteq calls
      BY Zenon DEF Counting, SlotsInv, CallsOn
    <2>2. \A c \in calls : c.endpoint \in Endpoints /\ c \in CallsOn(c.endpoint)
      BY DEF RoutingTyped, CallRows, CallsOn
    <2>3. \A e : Count(CallsOn(e)) \in Nat
      BY <2>1, Zenon DEF Counting
    <2> QED
      BY <2>1, <2>2, <2>3, Zenon DEF SlotsInv, SlotsCounted
  <1>1. CASE UNCHANGED <<calls, inFlight>>
    BY <1>1, Zenon DEF SlotsInv, SlotsCounted, CallsOn
  <1>2. ASSUME NEW r \in RtRuns, NEW d, ThreadStarts(r, d)
        PROVE  SlotsInv'
    <2>1. PICK x \in Endpoints : x = d.endpoint
      BY <1>2 DEF ThreadStarts, CallRows
    <2>2. d \notin calls
      BY <1>2 DEF ThreadStarts, ThreadsInv
    <2>3. /\ calls' = calls \cup {d} /\ inFlight[x] < MaximumConcurrentRequests
          /\ inFlight'[x] = inFlight[x] + 1
          /\ \A e \in Endpoints : e # x => inFlight'[e] = inFlight[e]
      BY <1>2, <2>1 DEF ThreadStarts, RoutingTyped
    <2>4. Finite(calls')
      BY <2>2, <2>3, Zenon DEF Counting, SlotsInv
    <2>5. /\ CallsOn(x)' = CallsOn(x) \cup {d} /\ d \notin CallsOn(x)
          /\ \A e : e # x => CallsOn(e)' = CallsOn(e)
      BY <2>1, <2>2, <2>3, Zenon DEF CallsOn
    <2>6. Count(CallsOn(x)') = inFlight[x] + 1
      <3>1. PICK S : S = CallsOn(x)
        BY Zenon
      <3>2. Finite(S) /\ d \notin S /\ Count(S) = inFlight[x]
        BY <1>0, <2>5, <3>1, Zenon
      <3>3. Count(S \cup {d}) = Count(S) + 1
        BY <3>2, Zenon DEF Counting
      <3> QED
        BY <2>5, <3>1, <3>2, <3>3, Zenon
    <2>7. inFlight[x] + 1 <= MaximumConcurrentRequests
      BY <1>0, <2>3, RoutingBounds
    <2> QED
      BY <1>0, <2>3, <2>4, <2>5, <2>6, <2>7, Zenon DEF SlotsInv, SlotsCounted, Count, CallsOn
  <1>3. ASSUME NEW c \in calls, NEW d, ThreadGoesOn(c, d)
        PROVE  SlotsInv'
    <2>1. PICK x \in Endpoints : x = c.endpoint
      BY <1>0, Zenon
    <2>2. PICK rest : rest = calls \ {c}
      BY Zenon
    <2>3. calls' = rest \cup {d} /\ d \notin rest /\ d.endpoint = x /\ UNCHANGED inFlight
      BY <1>3, <2>1, <2>2, Zenon DEF ThreadGoesOn, StepCall, ThreadsInv
    <2>4. Finite(calls')
      BY <2>2, <2>3, Zenon DEF Counting, SlotsInv
    <2>5. PICK others : others = CallsOn(x) \ {c}
      BY Zenon
    <2>6. /\ CallsOn(x)' = others \cup {d} /\ d \notin others
          /\ \A e : e # x => CallsOn(e)' = CallsOn(e)
      BY <2>1, <2>2, <2>3, <2>5, Zenon DEF CallsOn
    <2>7. Finite(others) /\ Count(others) = inFlight[x] - 1
      BY <1>0, <2>1, <2>5, Zenon DEF Counting
    <2>8. Count(CallsOn(x)') = inFlight[x] - 1 + 1
      BY <2>6, <2>7, Zenon DEF Counting
    <2>9. Count(CallsOn(x)') = inFlight[x]
      BY <1>0, <2>8
    <2> QED
      BY <1>0, <2>3, <2>4, <2>6, <2>9, Zenon DEF SlotsInv, SlotsCounted, Count, CallsOn
  <1>4. ASSUME NEW c \in calls, ThreadEnds(c)
        PROVE  SlotsInv'
    <2>1. PICK x \in Endpoints : x = c.endpoint
      BY <1>0, Zenon
    <2>2. /\ calls' = calls \ {c} /\ inFlight'[x] = inFlight[x] - 1
          /\ \A e \in Endpoints : e # x => inFlight'[e] = inFlight[e]
      BY <1>4, <2>1 DEF ThreadEnds, ReleaseSlot, RoutingTyped
    <2>3. Finite(calls')
      BY <2>2, Zenon DEF Counting, SlotsInv
    <2>4. /\ CallsOn(x)' = CallsOn(x) \ {c}
          /\ \A e : e # x => CallsOn(e)' = CallsOn(e)
      BY <2>1, <2>2, Zenon DEF CallsOn
    <2>5. Count(CallsOn(x)') = inFlight[x] - 1
      <3>1. PICK S : S = CallsOn(x)
        BY Zenon
      <3>2. Finite(S) /\ c \in S /\ Count(S) = inFlight[x]
        BY <1>0, <2>1, <3>1, Zenon
      <3>3. Count(S \ {c}) = Count(S) - 1
        BY <3>2, Zenon DEF Counting
      <3> QED
        BY <2>4, <3>1, <3>2, <3>3, Zenon
    <2>6. inFlight[x] - 1 <= MaximumConcurrentRequests
      BY <1>0, RoutingBounds
    <2> QED
      BY <1>0, <2>2, <2>3, <2>4, <2>5, <2>6, Zenon DEF SlotsInv, SlotsCounted, Count, CallsOn
  <1>5. CASE ThreadsGone
    <2>1. \A e : CallsOn(e)' = {}
      BY <1>5, Zenon DEF ThreadsGone, CallsOn
    <2>2. Finite(calls') /\ Count({}) = 0
      BY <1>5, Zenon DEF Counting, ThreadsGone
    <2>3. \A e \in Endpoints : inFlight'[e] = 0 /\ 0 <= MaximumConcurrentRequests
      BY <1>5, RoutingBounds DEF ThreadsGone
    <2> QED
      BY <2>1, <2>2, <2>3, Zenon DEF SlotsInv, SlotsCounted, Count, CallsOn
  <1> QED
    BY <1>1, <1>2, <1>3, <1>4, <1>5, ThreadShape, Zenon DEF ThreadsQuiet

-----------------------------------------------------------------------------
(* The theorem. *)

RoutingInv ==
  /\ RoutingTyped
  /\ ThreadsInv
  /\ SlotsInv
  /\ \A e \in Endpoints : WindowHolds(e)
  /\ \A r \in RtRuns : Walks(r)
  /\ LostInv

LEMMA RoutingInitInv ==
    ASSUME Counting, RoutingInit
    PROVE  RoutingInv
  <1>1. RoutingTyped
    <2>1. ReadyRun \in RunRows /\ ReadyRun.state = "ready"
      BY RoutingBounds DEF ReadyRun, RunRows, RtStates
    <2>2. [minute |-> 0, requests |-> 0] \in Windows /\ 0 \in Minutes
      BY RoutingBounds DEF Windows, Minutes
    <2>3. /\ health \in [Endpoints -> Healths]
          /\ {e \in Endpoints : health[e] = "unhealthy"} \subseteq sick
          /\ inFlight = [e \in Endpoints |-> inFlight[e]]
          /\ granted \in [Endpoints -> [Minutes -> Nat]]
      BY DEF RoutingInit, Healths, Minutes
    <2>4. /\ runs \in [RtRuns -> RunRows]
          /\ \A r \in RtRuns : runs[r].state = "ready"
          /\ window \in [Endpoints -> Windows]
      BY <2>1, <2>2, Zenon DEF RoutingInit
    <2>5. \A r \in RtRuns :
            runs[r].state \in {"prepared", "waiting"} => runs[r].endpoint \in Endpoints
      BY <2>4
    <2> QED
      BY <2>2, <2>3, <2>4, <2>5, Zenon DEF RoutingInit, RoutingTyped
  <1>2. ThreadsInv /\ LostInv
    BY Zenon DEF RoutingInit, ThreadsInv, LostInv, UnknownIsNotRepeated
  <1>3. SlotsInv
    <2>1. \A e : CallsOn(e) = {}
      BY Zenon DEF RoutingInit, CallsOn
    <2>2. Finite(calls) /\ Count({}) = 0
      BY Zenon DEF Counting, RoutingInit
    <2>3. \A e \in Endpoints : inFlight[e] = 0 /\ 0 <= MaximumConcurrentRequests
      BY RoutingBounds DEF RoutingInit
    <2> QED
      BY <2>1, <2>2, <2>3, Zenon DEF SlotsInv, SlotsCounted
  <1>4. \A e \in Endpoints : WindowHolds(e)
    BY RoutingBounds DEF RoutingInit, WindowHolds, Minutes
  <1>5. \A r \in RtRuns : Walks(r)
    <2>1. \A r \in RtRuns : runs[r].tried = <<>> /\ runs[r].retries = 0 /\ runs[r].state = "ready"
      BY DEF RoutingInit, ReadyRun
    <2> QED
      BY <2>1 DEF Walks
  <1> QED
    BY <1>1, <1>2, <1>3, <1>4, <1>5, Zenon DEF RoutingInv

LEMMA RoutingStep ==
    ASSUME Counting, RoutingInv, [RoutingNext]_routingVars
    PROVE  RoutingInv'
  BY TypedStep, ThreadsStep, SlotsStep, RatesStep, WalksStep, LostStep, Zenon DEF RoutingInv

LEMMA WalkedChain ==
    ASSUME RoutingInv
    PROVE  ChainIsWalked
  <1> SUFFICES ASSUME NEW r \in RtRuns
               PROVE  LET tried   == runs[r].tried
                          serving == {e \in Candidates(r) : Serves(e, r)}
                      IN  /\ \A i \in DOMAIN tried : tried[i] \in serving
                          /\ (sick = {} /\ \A e \in Endpoints : Serves(e, r)) =>
                               \A i, j \in DOMAIN tried :
                                 i < j /\ tried[i] = tried[j] =>
                                   \/ pins[r] # "none"
                                   \/ \A e \in serving : \E k \in 1..(j - 1) : tried[k] = e
    BY Zenon DEF ChainIsWalked
  <1> DEFINE tried == runs[r].tried
             serving == {e \in Candidates(r) : Serves(e, r)}
  <1>1. Walks(r) /\ tried \in Seq(Endpoints)
    BY DEF RoutingInv, RoutingTyped, RunRows
  <1>2. \A i \in DOMAIN tried : tried[i] \in serving
    BY <1>1, Zenon DEF Walks
  <1>3. ASSUME sick = {}, \A e \in Endpoints : Serves(e, r), pins[r] = "none",
               NEW i \in DOMAIN tried, NEW j \in DOMAIN tried, i < j, tried[i] = tried[j],
               NEW e \in serving
        PROVE  \E k \in 1..(j - 1) : tried[k] = e
    <2>1. \A n \in DOMAIN tried : tried[n] = AttemptAt(n)
      BY <1>1, <1>3, Zenon DEF Walks
    <2>2. PICK k \in DOMAIN Chain : e = Chain[k]
      BY Zenon DEF Candidates, Endpoints
    <2>3. /\ Len(Chain) \in Nat \ {0} /\ DOMAIN Chain = 1..Len(Chain)
          /\ \A m, n \in DOMAIN Chain : Chain[m] = Chain[n] => m = n
      BY RoutingBounds
    <2>4. DOMAIN tried = 1..Len(tried) /\ Len(tried) \in Nat
      BY <1>1
    <2> HIDE DEF tried
    <2>5. PICK a \in DOMAIN Chain : a = (IF i < Len(Chain) THEN i ELSE Len(Chain))
      BY <2>3, <2>4
    <2>6. PICK b \in DOMAIN Chain : b = (IF j < Len(Chain) THEN j ELSE Len(Chain))
      BY <2>3, <2>4
    <2>7. a = b
      BY <1>3, <2>1, <2>3, <2>5, <2>6, Zenon DEF AttemptAt
    <2>8. Len(Chain) <= i
      BY <1>3, <2>3, <2>4, <2>5, <2>6, <2>7
    <2>9. k \in 1..(j - 1) /\ k \in DOMAIN tried
      BY <1>3, <2>2, <2>3, <2>4, <2>8
    <2>10. AttemptAt(k) = Chain[k]
      BY <2>2, <2>3 DEF AttemptAt
    <2> QED
      BY <2>1, <2>2, <2>9, <2>10, Zenon
  <1> QED
    BY <1>2, <1>3, Zenon

LEMMA RoutingInvSuffices ==
    ASSUME RoutingInv
    PROVE  RoutingSafety
  <1>1. RoutingTypeOK
    BY DEF RoutingInv, RoutingTyped, RoutingTypeOK, Healths, RunRows, RtStates
  <1>2. SlotsAreThreads
    BY Zenon DEF RoutingInv, SlotsInv, SlotsCounted, SlotsAreThreads, CallsOn, Count
  <1>3. RateIsHeld
    BY Zenon DEF RoutingInv, WindowHolds, RateIsHeld, Minutes
  <1> QED
    BY <1>1, <1>2, <1>3, WalkedChain, Zenon DEF RoutingInv, LostInv, RoutingSafety

\* The library's theorems speak of copies of IsFiniteSet and Cardinality; they
\* have the same definitions.
HasEnumeration(S) == \E seq \in Seq(S) : \A s \in S : \E n \in 1..Len(seq) : seq[n] = s
CountFunction(S) ==
    CHOOSE f : f = [T \in SUBSET S |->
        IF T = {} THEN 0 ELSE 1 + f[T \ {CHOOSE x : x \in T}]]

LEMMA CountDefined ==
    ASSUME NEW S
    PROVE  Count(S) = CountFunction(S)[S] /\ (Finite(S) <=> HasEnumeration(S))
  <1>1. Count(S) = CountFunction(S)[S]
    BY Zenon DEF Count, Cardinality, CountFunction
  <1>2. Finite(S) <=> HasEnumeration(S)
    BY Zenon DEF Finite, IsFiniteSet, HasEnumeration
  <1> QED
    BY <1>1, <1>2, Zenon

LOCAL INSTANCE FiniteSetTheorems

LEMMA CountIsCardinality ==
    ASSUME NEW S
    PROVE  Count(S) = Cardinality(S) /\ (Finite(S) <=> IsFiniteSet(S))
  <1>1. Cardinality(S) = CountFunction(S)[S]
    BY Zenon DEF Cardinality, CountFunction
  <1>2. IsFiniteSet(S) <=> HasEnumeration(S)
    BY Zenon DEF IsFiniteSet, HasEnumeration
  <1> QED
    BY <1>1, <1>2, CountDefined, Zenon

LEMMA CountingHolds == Counting
  <1>1. Finite({}) /\ Count({}) = 0
    BY FS_EmptySet, CountIsCardinality, Zenon
  <1>2. ASSUME NEW S, Finite(S)
        PROVE  Count(S) \in Nat /\ \A T : T \subseteq S => Finite(T)
    BY <1>2, FS_CardinalityType, FS_Subset, CountIsCardinality, Zenon
  <1>3. ASSUME NEW S, Finite(S), NEW x
        PROVE  x \notin S => Finite(S \cup {x}) /\ Count(S \cup {x}) = Count(S) + 1
    <2>1. IsFiniteSet(S)
      BY <1>3, CountIsCardinality, Zenon
    <2>2. x \notin S => /\ IsFiniteSet(S \cup {x})
                        /\ Cardinality(S \cup {x}) = Cardinality(S) + 1
      BY <2>1, FS_AddElement, Zenon
    <2> QED
      BY <2>2, CountIsCardinality, Zenon
  <1>4. ASSUME NEW S, Finite(S), NEW x
        PROVE  x \in S => Finite(S \ {x}) /\ Count(S \ {x}) = Count(S) - 1
    BY <1>4, FS_RemoveElement, CountIsCardinality, Zenon
  <1> QED
    BY <1>1, <1>2, <1>3, <1>4, Zenon DEF Counting

\* Whatever runs share the chain and however their threads interleave, restart
\* or outlive their callers: slots are the threads in flight and within the
\* ceiling, the rate window holds, retries walk the chain, and a run whose
\* outcome is unknown is not repeated.
THEOREM RoutingSafe == RoutingSpec => []RoutingSafety
  <1>1. RoutingInit => RoutingInv
    BY CountingHolds, RoutingInitInv, Zenon
  <1>2. RoutingInv /\ [RoutingNext]_routingVars => RoutingInv'
    BY CountingHolds, RoutingStep, Zenon
  <1>3. RoutingInv => RoutingSafety
    BY RoutingInvSuffices, Zenon
  <1> QED
    BY <1>1, <1>2, <1>3, PTL DEF RoutingSpec

=============================================================================
