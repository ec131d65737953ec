----------------------------- MODULE StoreProofs -----------------------------
(***************************************************************************)
(* Proofs about what the store keeps: governed memory, the artifact        *)
(* directory with its collector, and the outbox (one request per counted   *)
(* attempt, no early end, a driver settles only the attempt it started).   *)
(* Each is for any number of memories, producers, blobs, messages, drivers *)
(* and attempts.                                                           *)
(***************************************************************************)
EXTENDS GovernedMemory, ArtifactStore, Outbox, TLAPS

-----------------------------------------------------------------------------
(* The cardinality of the empty set and of a singleton, from the definition. *)
LEMMA CardNone == Cardinality({}) = 0
  <1> DEFINE Def(f, S) == f = [T \in SUBSET S |-> IF T = {} THEN 0
                               ELSE 1 + f[T \ {CHOOSE x : x \in T}]]
  <1>1. Cardinality({}) = (CHOOSE f : Def(f, {}))[{}]
    BY DEF Cardinality
  <1>2. Def([T \in SUBSET {} |-> 0], {})
    OBVIOUS
  <1>3. Def(CHOOSE f : Def(f, {}), {})
    <2> HIDE DEF Def
    <2> QED BY <1>2, Zenon
  <1> QED
    BY <1>1, <1>3, Zenon

LEMMA CardOne ==
  ASSUME NEW a
  PROVE  Cardinality({a}) = 1
  <1> DEFINE Def(f, S) == f = [T \in SUBSET S |-> IF T = {} THEN 0
                               ELSE 1 + f[T \ {CHOOSE x : x \in T}]]
             g == [T \in SUBSET {a} |-> IF T = {} THEN 0 ELSE 1]
             h == CHOOSE f : Def(f, {a})
  <1>1. (CHOOSE x : x \in {a}) = a
    BY Zenon
  <1>2. SUBSET {a} = {{}, {a}}
    OBVIOUS
  <1>3. {a} \ {a} = {}
    OBVIOUS
  <1>4. Cardinality({a}) = h[{a}]
    BY DEF Cardinality
  <1>5. Def(g, {a})
    <2>1. \A T \in SUBSET {a} :
             g[T] = IF T = {} THEN 0 ELSE 1 + g[T \ {CHOOSE x : x \in T}]
      BY <1>1, <1>2, <1>3
    <2> QED
      BY <2>1
  <1>6. Def(h, {a})
    <2> HIDE DEF Def, g
    <2> QED
      BY <1>5, Zenon
  <1>7. h[{}] = 0
    BY <1>6, Zenon
  <1>8. h[{a}] = 1 + h[{a} \ {CHOOSE x : x \in {a}}]
    <2> HIDE DEF h
    <2>1. {a} # {} /\ {a} \in SUBSET {a}
      OBVIOUS
    <2> QED
      BY <1>6, <2>1, Zenon
  <1> HIDE DEF h
  <1>9. h[{a}] = 1 + h[{}]
    BY <1>1, <1>8, <1>3, Zenon
  <1> QED
    BY <1>4, <1>7, <1>9

-----------------------------------------------------------------------------
(* The artifact directory.                                                 *)

(* A producer that has published and not committed holds a digest whose    *)
(* blob is not old: only MinimumAgeElapses ages a blob, and it waits for   *)
(* the producers.                                                          *)
PublishedIsYoung ==
  \A p \in Producers : producer[p].pc = "published" => blob[producer[p].digest] # "old"

(* During a collection, a digest referenced since its snapshot has a blob  *)
(* that is not old.                                                        *)
NewReferenceIsYoung ==
  collector.pc # "idle" =>
     \A d \in referenced : d \notin collector.snapshot => blob[d] # "old"

(* What the collector is about to remove was not held when it looked.      *)
EntryWasFree == collector.pc = "removing" => collector.entry \cap collector.seen = {}

CollectorTyped ==
  collector \in [pc : {"idle", "scanning", "removing"}, snapshot : SUBSET Digests,
                 todo : SUBSET Digests, entry : SUBSET Digests, seen : SUBSET Digests]

ArtifactInv ==
  ArtifactTypeOK /\ CollectorTyped /\ PublishedIsYoung /\ NewReferenceIsYoung /\ EntryWasFree

LEMMA ArtifactInitInv == ArtifactInit => ArtifactInv
  BY ArtifactAssumption, SMT
  DEF ArtifactInit, ArtifactInv, ArtifactTypeOK, CollectorTyped,
      PublishedIsYoung,
      NewReferenceIsYoung, EntryWasFree, IdleProducer, IdleCollector

(* During a collection, an old blob outside the snapshot is held by nobody. *)
LEMMA OldIsFree ==
  ASSUME ArtifactInv, collector.pc # "idle", NEW d \in Digests,
         d \notin collector.snapshot, blob[d] = "old"
  PROVE  d \notin Held
  BY DEF ArtifactInv, ArtifactTypeOK, CollectorTyped, PublishedIsYoung, NewReferenceIsYoung, Held

LEMMA HeldTyped == ArtifactInv => Held \subseteq Digests
  BY DEF ArtifactInv, ArtifactTypeOK, Held

LEMMA ArtifactInvStep == ArtifactInv /\ [ArtifactNext]_artifactVars => ArtifactInv'
  <1> SUFFICES ASSUME ArtifactInv, [ArtifactNext]_artifactVars PROVE ArtifactInv'
    BY Zenon
  <1> USE ArtifactAssumption
  <1> USE DEF ArtifactInv, ArtifactTypeOK, CollectorTyped, PublishedIsYoung,
      NewReferenceIsYoung, EntryWasFree
  <1>1. ASSUME NEW p \in Producers, NEW d \in Digests, WriteTemporary(p, d) PROVE ArtifactInv'
    BY <1>1, Zenon DEF WriteTemporary
  <1>2. ASSUME NEW p \in Producers, Publish(p) PROVE ArtifactInv'
    BY <1>2 DEF Publish
  <1>3. ASSUME NEW p \in Producers, CommitReference(p) PROVE ArtifactInv'
    BY <1>3 DEF CommitReference, IdleProducer
  <1>4. ASSUME NEW p \in Producers, RemoveTemporary(p) PROVE ArtifactInv'
    BY <1>4, Zenon DEF RemoveTemporary
  <1>5. CASE StartCollection
    BY <1>5, Zenon DEF StartCollection, IdleCollector
  <1>6. ASSUME NEW d \in Digests, InspectBlob(d) PROVE ArtifactInv'
    <2>1. Held \subseteq Digests
      BY HeldTyped, Zenon
    <2>2. CASE d \in collector.snapshot \/ blob[d] # "old"
      BY <1>6, <2>2, Zenon DEF InspectBlob
    <2>3. CASE ~(d \in collector.snapshot \/ blob[d] # "old")
      <3>1. d \notin Held
        BY <1>6, <2>3, OldIsFree, Zenon DEF InspectBlob
      <3>2. /\ collector' = [collector EXCEPT !.pc = "removing", !.todo = @ \ {d},
                                              !.entry = {d}, !.seen = Held]
            /\ UNCHANGED <<blob, temporary, referenced, producer, agings, blobCrashes>>
            /\ collector.pc = "scanning"
        BY <1>6, <2>3, Zenon DEF InspectBlob
      <3>3. CollectorTyped'
        BY <2>1, <3>2, Zenon
      <3>4. collector'.entry = {d} /\ collector'.seen = Held
              /\ collector'.snapshot = collector.snapshot /\ collector'.pc = "removing"
        BY <3>2, Zenon
      <3>5. EntryWasFree'
        BY <3>1, <3>4
      <3> QED
        BY <3>2, <3>3, <3>4, <3>5, Zenon
    <2> QED
      BY <2>2, <2>3, Zenon
  <1>7. CASE RemoveBlob
    BY <1>7, Zenon DEF RemoveBlob
  <1>8. CASE FinishCollection
    BY <1>8, Zenon DEF FinishCollection, IdleCollector
  <1>9. CASE MinimumAgeElapses
    BY <1>9 DEF MinimumAgeElapses
  <1>10. CASE DaemonDies
    BY <1>10 DEF DaemonDies, IdleProducer, IdleCollector
  <1>11. CASE UNCHANGED artifactVars
    BY <1>11, Zenon DEF artifactVars
  <1> QED
    BY <1>1, <1>2, <1>3, <1>4, <1>5, <1>6, <1>7, <1>8, <1>9, <1>10, <1>11, Zenon
       DEF ArtifactNext

LEMMA ArtifactInvariant == ArtifactSpec => []ArtifactInv
  BY ArtifactInitInv, ArtifactInvStep, PTL DEF ArtifactSpec

(* The blob directory, its temporaries, the rows and the processes keep      *)
(* their shape for every number of producers and collections.                *)
THEOREM ArtifactTypeCorrect == ArtifactSpec => []ArtifactTypeOK
  BY ArtifactInvariant, PTL DEF ArtifactInv

(* garbage_collect never unlinks a blob that was referenced, or published    *)
(* and about to be, when it inspected the file, although it decides from a   *)
(* snapshot and holds no lock: however many producers publish meanwhile.     *)
THEOREM CollectorRetainsHeld == ArtifactSpec => RetainsHeld
  <1> DEFINE Keeps == \A d \in Digests :
       (blob[d] # "absent" /\ blob'[d] = "absent") => d \notin collector.seen
  <1>1. ArtifactInv /\ [ArtifactNext]_artifactVars => [Keeps]_artifactVars
    <2> SUFFICES ASSUME ArtifactInv, ArtifactNext PROVE Keeps
      BY Zenon DEF artifactVars
    <2>1. CASE RemoveBlob
      BY <2>1, Zenon
         DEF RemoveBlob, ArtifactInv, EntryWasFree, CollectorTyped,
             ArtifactTypeOK
    <2>2. CASE UNCHANGED blob
      BY <2>2, Zenon
    <2>3. ASSUME NEW p \in Producers, Publish(p) PROVE Keeps
      BY <2>3, Zenon DEF Publish, ArtifactInv, ArtifactTypeOK
    <2>4. CASE MinimumAgeElapses
      BY <2>4, Zenon DEF MinimumAgeElapses, ArtifactInv, ArtifactTypeOK
    <2> QED
      BY <2>1, <2>2, <2>3, <2>4, Zenon
      DEF ArtifactNext, WriteTemporary, CommitReference, RemoveTemporary,
          StartCollection,
          InspectBlob, FinishCollection, DaemonDies
  <1> QED
    BY ArtifactInvariant, <1>1, PTL DEF ArtifactSpec, RetainsHeld

-----------------------------------------------------------------------------
(* Governed memory.  One row with its revisions: the active revision is the *)
(* last one and exists while the memory is active, text is stored until the *)
(* revision is deleted, and what was ever active was authorized.            *)
RevisionsFit(row) ==
  /\ Len(row.revisions) <= row.revision + 1
  /\ row.status = "none" <=> row.revisions = <<>>
  /\ row.status = "proposed" => Len(row.revisions) = 1 /\ row.revisions[1].status = "proposed"

LastIsActive(row) ==
  \A i \in 1 .. Len(row.revisions) :
    row.revisions[i].status = "active" <=> (row.status = "active" /\ i = Len(row.revisions))

TextUntilDeleted(row) ==
  \A i \in 1 .. Len(row.revisions) :
    /\ row.revisions[i].content <=> row.revisions[i].status # "deleted"
    /\ row.status = "deleted" => row.revisions[i].status = "deleted"

ActivationsAuthorized(row) ==
  \A i \in 1 .. Len(row.revisions) :
    /\ row.revisions[i].status \in {"active", "superseded", "expired"}
    /\ row.sensitive \/ row.revisions[i].restricted
    => row.revisions[i].authorized

RowInv(row) ==
  /\ row \in MemoryRow /\ RevisionsFit(row) /\ LastIsActive(row)
  /\ TextUntilDeleted(row) /\ ActivationsAuthorized(row)

(* The index is exact.                                                      *)
IndexExact ==
  /\ memoryIndex \subseteq Memories \X (1 .. MaxMemRevision + 1)
  /\ \A m \in Memories, i \in 1 .. MaxMemRevision + 1 :
        <<m, i>> \in memoryIndex <=> i \in RevisionsIn(memory[m], "active")

MemoryInv ==
  /\ memory \in [Memories -> MemoryRow]
  /\ \A m \in Memories : RowInv(memory[m])
  /\ IndexExact

LEMMA MemoryInitInv == MemoryInit => MemoryInv
  <1> SUFFICES ASSUME MemoryInit PROVE MemoryInv
    BY Zenon
  <1> USE MemoryAssumption
  <1>1. (CHOOSE w \in MemWorkspaces : TRUE) \in MemWorkspaces
    BY Zenon
  <1>2. memory \in [Memories -> MemoryRow]
    BY <1>1 DEF MemoryInit, MemoryRow, Retention
  <1>3. ASSUME NEW m \in Memories PROVE RowInv(memory[m])
    <2>1. memory[m].revisions = <<>> /\ memory[m].status = "none" /\ memory[m].revision = 0
      BY Zenon DEF MemoryInit
    <2>2. memory[m] \in MemoryRow
      BY <1>2, Zenon
    <2> QED
      BY <2>1, <2>2
         DEF RowInv, RevisionsFit, LastIsActive, TextUntilDeleted,
             ActivationsAuthorized
  <1>4. IndexExact
    <2>1. \A m \in Memories : memory[m].revisions = <<>>
      BY Zenon DEF MemoryInit
    <2> QED
      BY <2>1 DEF IndexExact, MemoryInit, RevisionsIn
  <1> QED
    BY <1>2, <1>3, <1>4, Zenon DEF MemoryInv

(* A command that replaces one row by a sound one keeps the rows sound and  *)
(* the index exact.                                                         *)
LEMMA StoreKeeps ==
  ASSUME MemoryInv, NEW m \in Memories, NEW row, Store(m, row),
         RowInv([row EXCEPT !.revision = @ + 1]),
         [row EXCEPT !.revision = @ + 1].revisions = row.revisions
  PROVE  MemoryInv'
  <1> DEFINE new == [row EXCEPT !.revision = @ + 1]
  <1> USE MemoryAssumption
  <1>1. memory' = [memory EXCEPT ![m] = new] /\ memoryIndex' = FtsUpdate(m, row)
    BY Zenon DEF Store
  <1>2. RowInv(new) /\ new \in MemoryRow /\ new.revisions = row.revisions
    BY Zenon DEF RowInv
  <1> HIDE DEF new
  <1>3. memory' \in [Memories -> MemoryRow] /\ \A n \in Memories : RowInv(memory'[n])
    BY <1>1, <1>2, Zenon DEF MemoryInv
  <1>4. RevisionsIn(new, "active") = RevisionsIn(row, "active")
    BY <1>2, Zenon DEF RevisionsIn
  <1>5. RevisionsIn(row, "active") \subseteq 1 .. MaxMemRevision + 1
    <2>1. Len(new.revisions) <= MaxMemRevision + 1 /\ DOMAIN new.revisions = 1 .. Len(new.revisions)
      BY <1>2 DEF RowInv, RevisionsFit, MemoryRow
    <2> QED
      BY <1>2, <2>1 DEF RevisionsIn, MemoryRow
  <1>6. IndexExact'
    <2>1. \A n \in Memories : n # m => memory'[n] = memory[n]
      BY <1>1, Zenon DEF MemoryInv
    <2>2. memory'[m] = new
      BY <1>1, Zenon DEF MemoryInv
    <2>3. memoryIndex' \subseteq Memories \X (1 .. MaxMemRevision + 1)
      BY <1>1, <1>5 DEF FtsUpdate, MemoryInv, IndexExact
    <2>4. ASSUME NEW n \in Memories, NEW i \in 1 .. MaxMemRevision + 1
          PROVE  <<n, i>> \in memoryIndex' <=> i \in RevisionsIn(memory'[n], "active")
      <3>1. CASE n = m
        BY <1>1, <1>4, <2>2, <3>1, Zenon DEF FtsUpdate
      <3>2. CASE n # m
        BY <1>1, <2>1, <3>2, Zenon DEF FtsUpdate, MemoryInv, IndexExact
      <3> QED
        BY <3>1, <3>2, Zenon
    <2>5. \A n \in Memories : RevisionsIn(memory[n], "active")' = RevisionsIn(memory'[n], "active")
      BY Zenon DEF RevisionsIn
    <2> QED
      BY <2>3, <2>4, <2>5, Zenon DEF IndexExact
  <1> QED
    BY <1>3, <1>6, Zenon DEF MemoryInv

LEMMA RowFields ==
  ASSUME NEW row \in MemoryRow
  PROVE  /\ row.revision \in 0 .. MaxMemRevision /\ row.revisions \in Seq(RevisionRow)
         /\ Len(row.revisions) \in Nat /\ DOMAIN row.revisions = 1 .. Len(row.revisions)
         /\ \A i \in 1 .. Len(row.revisions) : row.revisions[i] \in RevisionRow
  <1>1. row.revision \in 0 .. MaxMemRevision /\ row.revisions \in Seq(RevisionRow)
    BY Zenon DEF MemoryRow
  <1> QED
    BY <1>1

(* The fields the commands change, the counter aside.                      *)
Updated(row, status, retention, revisions) ==
  [row EXCEPT !.status = status, !.retention = retention, !.revisions = revisions]

(* Every row with these fields and a raised counter is sound.               *)
SoundFields(old, status, revisions) ==
  \A x \in MemoryRow :
     (/\ x.status = status /\ x.revisions = revisions
      /\ x.sensitive = old.sensitive /\ x.revision = old.revision + 1)
     => RowInv(x)

(* What a command stores under Store is again a row.                        *)
LEMMA RowStored ==
  ASSUME MaxMemRevision \in Nat, NEW row \in MemoryRow, row.revision < MaxMemRevision,
         NEW status \in MemoryStatus, NEW retention \in Retention,
         NEW revisions \in Seq(RevisionRow)
  PROVE  [row EXCEPT !.status = status, !.retention = retention, !.revisions = revisions,
                     !.revision = row.revision + 1] \in MemoryRow
  <1>1. row.revision + 1 \in 0 .. MaxMemRevision
    BY DEF MemoryRow
  <1> QED
    BY <1>1, Zenon DEF MemoryRow

LEMMA ProposeKeeps ==
  ASSUME MemoryInv, NEW m \in Memories, NEW w \in MemWorkspaces, NEW s \in BOOLEAN,
         NEW r \in BOOLEAN, NEW k \in Retention, ProposeMemory(m, w, s, r, k)
  PROVE  MemoryInv'
  <1> USE MemoryAssumption
  <1> DEFINE new == [status |-> "proposed", revision |-> 0, workspace |-> w,
                     sensitive |-> s, retention |-> k, revisions |-> <<Proposal(r)>>]
  <1>1. memory' = [memory EXCEPT ![m] = new] /\ memoryIndex' = memoryIndex
    BY Zenon DEF ProposeMemory
  <1>2. Proposal(r) \in RevisionRow /\ Proposal(r).status = "proposed" /\ Proposal(r).content
    BY Zenon DEF Proposal, RevisionRow, MemoryStatus
  <1>3. new \in MemoryRow
    BY <1>2 DEF MemoryRow, MemoryStatus
  <1>4. /\ new.status = "proposed" /\ new.revision = 0 /\ Len(new.revisions) = 1
        /\ new.revisions[1] = Proposal(r) /\ new.revisions # <<>>
    BY Zenon
  <1> HIDE DEF new
  <1>5. RowInv(new)
    BY <1>2, <1>3, <1>4
       DEF RowInv, RevisionsFit, LastIsActive, TextUntilDeleted,
           ActivationsAuthorized
  <1>6. memory[m].status = "none" /\ memory[m].revisions = <<>>
    BY Zenon DEF ProposeMemory, MemoryInv, RowInv, RevisionsFit
  <1>7. RevisionsIn(new, "active") = {} /\ RevisionsIn(memory[m], "active") = {}
    <2>1. DOMAIN new.revisions = 1 .. 1
      BY <1>3, <1>4, RowFields, Zenon
    <2> QED
      BY <1>2, <1>4, <1>6, <2>1 DEF RevisionsIn
  <1>8. /\ memory' \in [Memories -> MemoryRow]
        /\ \A n \in Memories : memory'[n] = IF n = m THEN new ELSE memory[n]
    BY <1>1, <1>3, Zenon DEF MemoryInv
  <1>9. \A n \in Memories : RowInv(memory'[n])
    BY <1>5, <1>8, Zenon DEF MemoryInv
  <1>10. \A n \in Memories : RevisionsIn(memory'[n], "active") = RevisionsIn(memory[n], "active")
    BY <1>7, <1>8, Zenon
  <1>11. \A n \in Memories : RevisionsIn(memory[n], "active")' = RevisionsIn(memory'[n], "active")
    BY Zenon DEF RevisionsIn
  <1>12. IndexExact'
    BY <1>1, <1>10, <1>11, Zenon DEF MemoryInv, IndexExact
  <1> QED
    BY <1>8, <1>9, <1>12, Zenon DEF MemoryInv

(* Store with the fields the commands change: it is enough that every row   *)
(* with these fields is sound.                                              *)
LEMMA StoreFields ==
  ASSUME MemoryInv, NEW m \in Memories, NEW status \in MemoryStatus,
         NEW retention \in Retention, NEW revisions \in Seq(RevisionRow),
         Store(m, Updated(memory[m], status, retention, revisions)),
         SoundFields(memory[m], status, revisions)
  PROVE  MemoryInv'
  <1> USE MemoryAssumption
  <1> DEFINE row == Updated(memory[m], status, retention, revisions)
             stored == [memory[m] EXCEPT !.status = status, !.retention = retention,
                                         !.revisions = revisions,
                                         !.revision = memory[m].revision + 1]
  <1>1. memory[m] \in MemoryRow /\ memory[m].revision < MaxMemRevision
    BY Zenon DEF MemoryInv, Store
  <1>2. stored \in MemoryRow
    BY <1>1, RowStored, Zenon
  <1>3. /\ stored.status = status /\ stored.revisions = revisions
        /\ stored.sensitive = memory[m].sensitive /\ stored.revision = memory[m].revision + 1
    BY <1>1, Zenon DEF MemoryRow
  <1>4. [row EXCEPT !.revision = @ + 1] = stored /\ row.revisions = revisions
    BY <1>1, Zenon DEF MemoryRow, Updated
  <1>5. RowInv(stored)
    <2> HIDE DEF stored
    <2> QED
      BY <1>2, <1>3, Zenon DEF SoundFields
  <1>6. RowInv([row EXCEPT !.revision = @ + 1]) /\ [row EXCEPT !.revision = @ + 1].revisions = row.revisions
    <2> HIDE DEF stored, row
    <2> QED
      BY <1>3, <1>4, <1>5, Zenon
  <1>7. Store(m, row)
    BY Zenon
  <1> HIDE DEF row
  <1> QED
    BY <1>6, <1>7, StoreKeeps, Zenon

LEMMA PromoteKeeps ==
  ASSUME MemoryInv, NEW m \in Memories, NEW a \in BOOLEAN, PromoteMemory(m, a)
  PROVE  MemoryInv'
  <1> DEFINE row == memory[m]
             act == [RecordAuthorization(row.revisions[1], a) EXCEPT !.status = "active"]
             new == [row EXCEPT !.status = "active", !.revisions[1] = act]
             revs == [row.revisions EXCEPT ![1] = act]
  <1>1. /\ row.status = "proposed" /\ Store(m, new)
        /\ PromotionAuthorized(row.sensitive, row.revisions[1].restricted, a)
    BY Zenon DEF PromoteMemory
  <1>2. row \in MemoryRow /\ RowInv(row)
    BY Zenon DEF MemoryInv
  <1>3. Len(row.revisions) = 1 /\ row.revisions[1].status = "proposed"
    BY <1>1, <1>2, Zenon DEF RowInv, RevisionsFit
  <1>4. /\ row.revision \in Nat /\ row.revisions \in Seq(RevisionRow)
        /\ row.revisions[1] \in RevisionRow /\ row.retention \in Retention
    BY <1>2, <1>3, RowFields, MemoryAssumption DEF MemoryRow
  <1>5. /\ act \in RevisionRow /\ act.status = "active" /\ act.authorized = a
        /\ act.content = row.revisions[1].content /\ act.restricted = row.revisions[1].restricted
    BY <1>4, Zenon DEF RecordAuthorization, RevisionRow, MemoryStatus
  <1> HIDE DEF act
  <1>6. revs \in Seq(RevisionRow) /\ Len(revs) = 1 /\ revs[1] = act /\ revs # <<>>
    BY <1>3, <1>4, <1>5
  <1>7. new = [row EXCEPT !.status = "active", !.retention = row.retention, !.revisions = revs]
    BY <1>2, Zenon DEF MemoryRow
  <1>10. Store(m, Updated(memory[m], "active", row.retention, revs))
    BY <1>1, <1>7, Zenon DEF Updated
  <1> HIDE DEF revs, row, new
  <1>8. ASSUME NEW x \in MemoryRow, x.status = "active", x.revisions = revs,
               x.sensitive = row.sensitive, x.revision = row.revision + 1
        PROVE  RowInv(x)
    <2>4. Len(x.revisions) = 1 /\ x.revisions[1] = act /\ x.revisions # <<>>
      BY <1>6, <1>8, Zenon
    <2>1. RevisionsFit(x) /\ LastIsActive(x)
      BY <1>4, <1>5, <1>8, <2>4 DEF RevisionsFit, LastIsActive
    <2>2. TextUntilDeleted(x)
      BY <1>2, <1>3, <1>5, <1>8, <2>4 DEF RowInv, TextUntilDeleted
    <2>3. ActivationsAuthorized(x)
      BY <1>1, <1>5, <1>8, <2>4 DEF ActivationsAuthorized, PromotionAuthorized
    <2> QED
      BY <2>1, <2>2, <2>3, Zenon DEF RowInv
  <1>9. "active" \in MemoryStatus
    BY Zenon DEF MemoryStatus
  <1> QED
    <2>1. SoundFields(memory[m], "active", revs)
      BY <1>8, Zenon DEF row, SoundFields
    <2>2. row.retention \in Retention /\ revs \in Seq(RevisionRow)
      BY <1>4, <1>6, Zenon
    <2> QED
      BY <1>9, <1>10, <2>1, <2>2, StoreFields, Zenon

LEMMA CorrectKeeps ==
  ASSUME MemoryInv, NEW m \in Memories, NEW e \in 0 .. MaxMemRevision, NEW r \in BOOLEAN,
         NEW a \in BOOLEAN, NEW k \in Retention, CorrectMemory(m, e, r, a, k)
  PROVE  MemoryInv'
  <1> DEFINE row == memory[m]
             revs == Superseded(m, r, a)
             n == Len(row.revisions)
             act == [RecordAuthorization(Proposal(r), a) EXCEPT !.status = "active"]
             old == [row.revisions EXCEPT ![n].status = "superseded"]
  <1>1. /\ row.status = "active" /\ PromotionAuthorized(row.sensitive, r, a)
        /\ Store(m, [row EXCEPT !.retention = k, !.revisions = revs])
    BY Zenon DEF CorrectMemory, ActiveForMutation
  <1>2. row \in MemoryRow /\ RowInv(row)
    BY Zenon DEF MemoryInv
  <1>3. /\ row.revision \in Nat /\ row.revisions \in Seq(RevisionRow) /\ n \in Nat
        /\ \A i \in 1 .. n : row.revisions[i] \in RevisionRow
    BY <1>2, RowFields, MemoryAssumption
  <1>4. n >= 1 /\ n <= row.revision + 1
    BY <1>1, <1>2, <1>3 DEF RowInv, RevisionsFit
  <1>5. /\ act \in RevisionRow /\ act.status = "active" /\ act.authorized = a
        /\ act.content /\ act.restricted = r
    BY Zenon DEF RecordAuthorization, Proposal, RevisionRow, MemoryStatus
  <1>6. revs = Append(old, act)
    BY Zenon DEF Superseded, LastRevision
  <1> HIDE DEF act
  <1>7. /\ [row.revisions[n] EXCEPT !.status = "superseded"] \in RevisionRow
        /\ old = [row.revisions EXCEPT ![n] = [row.revisions[n] EXCEPT !.status = "superseded"]]
    BY <1>3, <1>4 DEF RevisionRow, MemoryStatus
  <1>8. /\ old \in Seq(RevisionRow) /\ Len(old) = n
        /\ \A i \in 1 .. n - 1 : old[i] = row.revisions[i]
        /\ old[n] = [row.revisions[n] EXCEPT !.status = "superseded"]
    <2> DEFINE sup == [row.revisions[n] EXCEPT !.status = "superseded"]
    <2> HIDE DEF sup, row
    <2> QED
      BY <1>3, <1>4, <1>7 DEF sup
  <1>9. /\ old[n].status = "superseded" /\ old[n].content = row.revisions[n].content
        /\ old[n].restricted = row.revisions[n].restricted
        /\ old[n].authorized = row.revisions[n].authorized
    BY <1>3, <1>4, <1>8 DEF RevisionRow
  <1> HIDE DEF old, revs, n
  <1>10. /\ revs \in Seq(RevisionRow) /\ Len(revs) = n + 1 /\ revs[n + 1] = act
         /\ \A i \in 1 .. n : revs[i] = old[i]
    BY <1>3, <1>5, <1>6, <1>8
  <1>11. [row EXCEPT !.retention = k, !.revisions = revs]
         = [row EXCEPT !.status = row.status, !.retention = k, !.revisions = revs]
    BY <1>2, Zenon DEF MemoryRow
  <1> DEFINE new == [row EXCEPT !.retention = k, !.revisions = revs]
  <1>14. Store(m, Updated(memory[m], row.status, k, revs))
    BY <1>1, <1>11, Zenon DEF Updated
  <1> HIDE DEF row, new
  <1>12. ASSUME NEW x \in MemoryRow, x.status = row.status, x.revisions = revs,
               x.sensitive = row.sensitive, x.revision = row.revision + 1
        PROVE  RowInv(x)
    <2>1. RevisionsFit(x)
      BY <1>1, <1>3, <1>4, <1>10, <1>12 DEF RevisionsFit
    <2>2. \A i \in 1 .. n : (i \in 1 .. n - 1 \/ i = n)
      BY <1>3
    <2>3. \A i \in 1 .. n - 1 : revs[i] = row.revisions[i] /\ i \in 1 .. n /\ i # n
      BY <1>3, <1>8, <1>10
    <2>4. revs[n] = old[n] /\ n \in 1 .. n
      BY <1>3, <1>4, <1>10
    <2>5. \A i \in 1 .. n + 1 : (i \in 1 .. n - 1 \/ i = n \/ i = n + 1)
      BY <1>3
    <2>6. LastIsActive(x)
      <3> SUFFICES ASSUME NEW i \in 1 .. n + 1
                   PROVE  revs[i].status = "active" <=> i = n + 1
        BY <1>1, <1>10, <1>12, Zenon DEF LastIsActive
      <3>1. CASE i \in 1 .. n - 1
        <4>1. row.revisions[i].status # "active"
          BY <1>2, <2>3, <3>1, Zenon DEF RowInv, LastIsActive, n
        <4> QED
          BY <1>3, <2>3, <3>1, <4>1
      <3>2. CASE i = n
        BY <1>3, <1>9, <2>4, <3>2
      <3>3. CASE i = n + 1
        BY <1>5, <1>10, <3>3, Zenon
      <3> QED
        BY <2>5, <3>1, <3>2, <3>3, Zenon
    <2>7. TextUntilDeleted(x)
      <3>1. \A i \in 1 .. n : row.revisions[i].content <=> row.revisions[i].status # "deleted"
        BY <1>2, Zenon DEF RowInv, TextUntilDeleted, n
      <3>2. row.revisions[n].status = "active"
        BY <1>1, <1>2, <2>4, Zenon DEF RowInv, LastIsActive, n
      <3>3. \A i \in 1 .. n + 1 : revs[i].content <=> revs[i].status # "deleted"
        BY <1>5, <1>9, <1>10, <2>3, <2>4, <2>5, <3>1, <3>2, Zenon
      <3> QED
        BY <1>1, <1>10, <1>12, <3>3, Zenon DEF TextUntilDeleted
    <2>8. ActivationsAuthorized(x)
      <3> SUFFICES ASSUME NEW i \in 1 .. n + 1,
                          revs[i].status \in {"active", "superseded", "expired"},
                          row.sensitive \/ revs[i].restricted
                   PROVE  revs[i].authorized
        BY <1>10, <1>12, Zenon DEF ActivationsAuthorized
      <3>1. \A j \in 1 .. n : /\ row.revisions[j].status \in {"active", "superseded", "expired"}
                              /\ row.sensitive \/ row.revisions[j].restricted
                              => row.revisions[j].authorized
        BY <1>2, Zenon DEF RowInv, ActivationsAuthorized, n
      <3>2. CASE i \in 1 .. n - 1
        <4>1. revs[i] = row.revisions[i] /\ i \in 1 .. n
          BY <2>3, <3>2, Zenon
        <4> QED
          BY <3>1, <4>1, Zenon
      <3>3. CASE i = n
        <4>1. row.revisions[n].status = "active"
          BY <1>1, <1>2, <2>4, Zenon DEF RowInv, LastIsActive, n
        <4>2. row.sensitive \/ row.revisions[n].restricted
          BY <1>9, <2>4, <3>3, Zenon
        <4>3. row.revisions[n].authorized
          BY <2>4, <3>1, <4>1, <4>2, Zenon
        <4> QED
          BY <1>9, <2>4, <3>3, <4>3, Zenon
      <3>4. CASE i = n + 1
        <4>1. revs[i] = act
          BY <1>10, <3>4, Zenon
        <4>2. row.sensitive \/ r
          BY <1>5, <4>1, Zenon
        <4> QED
          BY <1>1, <1>5, <4>1, <4>2, Zenon DEF PromotionAuthorized
      <3> QED
        BY <2>5, <3>2, <3>3, <3>4, Zenon
    <2> QED
      BY <2>1, <2>6, <2>7, <2>8, Zenon DEF RowInv
  <1>13. row.status \in MemoryStatus
    BY <1>1, Zenon DEF MemoryStatus
  <1> QED
    <2>1. SoundFields(memory[m], row.status, revs)
      BY <1>12, Zenon DEF row, SoundFields
    <2>2. revs \in Seq(RevisionRow)
      BY <1>10, Zenon
    <2> QED
      BY <1>13, <1>14, <2>1, <2>2, StoreFields, Zenon

LEMMA PinKeeps ==
  ASSUME MemoryInv, NEW m \in Memories, NEW e \in 0 .. MaxMemRevision, NEW p \in BOOLEAN,
         SetMemoryPin(m, e, p)
  PROVE  MemoryInv'
  <1> DEFINE row == memory[m]
             k == IF p THEN "pinned" ELSE "standard"
  <1>1. /\ row.status = "active" /\ Store(m, [row EXCEPT !.retention = k])
    BY Zenon DEF SetMemoryPin, ActiveForMutation
  <1>2. row \in MemoryRow /\ RowInv(row)
    BY Zenon DEF MemoryInv
  <1>3. [row EXCEPT !.retention = k] = Updated(row, "active", k, row.revisions)
    BY <1>1, <1>2, Zenon DEF MemoryRow, Updated
  <1>4. k \in Retention /\ row.revisions \in Seq(RevisionRow) /\ row.revision \in Nat
        /\ Len(row.revisions) \in Nat
    BY <1>2, RowFields, MemoryAssumption DEF Retention
  <1>5. Store(m, Updated(memory[m], "active", k, row.revisions))
    BY <1>1, <1>3, Zenon
  <1>6. SoundFields(memory[m], "active", row.revisions)
    <2> HIDE DEF k
    <2> SUFFICES ASSUME NEW x \in MemoryRow, x.status = "active", x.revisions = row.revisions,
                        x.sensitive = row.sensitive, x.revision = row.revision + 1
                 PROVE  RowInv(x)
      BY Zenon DEF SoundFields
    <2>1. RevisionsFit(x) /\ LastIsActive(x)
      BY <1>1, <1>2, <1>4 DEF RowInv, RevisionsFit, LastIsActive
    <2>2. TextUntilDeleted(x) /\ ActivationsAuthorized(x)
      BY <1>1, <1>2, Zenon DEF RowInv, TextUntilDeleted, ActivationsAuthorized
    <2> QED
      BY <2>1, <2>2, Zenon DEF RowInv
  <1>7. "active" \in MemoryStatus
    BY Zenon DEF MemoryStatus
  <1> HIDE DEF row, k
  <1> QED
    BY <1>4, <1>5, <1>6, <1>7, StoreFields, Zenon

LEMMA RejectKeeps ==
  ASSUME MemoryInv, NEW m \in Memories, NEW e \in 0 .. MaxMemRevision, RejectMemory(m, e)
  PROVE  MemoryInv'
  <1> DEFINE row == memory[m]
             rej == [row.revisions[1] EXCEPT !.status = "rejected"]
             revs == [row.revisions EXCEPT ![1] = rej]
             new == [row EXCEPT !.status = "rejected", !.revisions[1].status = "rejected"]
  <1>1. row.status = "proposed" /\ Store(m, new)
    BY Zenon DEF RejectMemory
  <1>2. row \in MemoryRow /\ RowInv(row)
    BY Zenon DEF MemoryInv
  <1>3. Len(row.revisions) = 1 /\ row.revisions[1].status = "proposed"
    BY <1>1, <1>2, Zenon DEF RowInv, RevisionsFit
  <1>4. /\ row.revision \in Nat /\ row.revisions \in Seq(RevisionRow)
        /\ row.revisions[1] \in RevisionRow /\ row.retention \in Retention
    BY <1>2, <1>3, RowFields, MemoryAssumption DEF MemoryRow
  <1>5. /\ rej \in RevisionRow /\ rej.status = "rejected" /\ rej.content = row.revisions[1].content
    BY <1>4, Zenon DEF RevisionRow, MemoryStatus
  <1>6. new = Updated(row, "rejected", row.retention, revs)
    BY <1>2, <1>4, Zenon DEF MemoryRow, Updated
  <1> HIDE DEF rej, new
  <1>7. revs \in Seq(RevisionRow) /\ Len(revs) = 1 /\ revs[1] = rej /\ revs # <<>>
    BY <1>3, <1>4, <1>5
  <1>8. Store(m, Updated(memory[m], "rejected", row.retention, revs))
    BY <1>1, <1>6, Zenon
  <1> HIDE DEF revs
  <1>9. SoundFields(memory[m], "rejected", revs)
    <2> SUFFICES ASSUME NEW x \in MemoryRow, x.status = "rejected", x.revisions = revs,
                        x.sensitive = row.sensitive, x.revision = row.revision + 1
                 PROVE  RowInv(x)
      BY Zenon DEF SoundFields
    <2>1. Len(x.revisions) = 1 /\ x.revisions[1] = rej /\ x.revisions # <<>>
      BY <1>7, Zenon
    <2>2. RevisionsFit(x) /\ LastIsActive(x)
      BY <1>4, <1>5, <2>1 DEF RevisionsFit, LastIsActive
    <2>3. TextUntilDeleted(x)
      BY <1>2, <1>3, <1>5, <2>1 DEF RowInv, TextUntilDeleted
    <2>4. ActivationsAuthorized(x)
      BY <1>5, <2>1 DEF ActivationsAuthorized
    <2> QED
      BY <2>2, <2>3, <2>4, Zenon DEF RowInv
  <1>10. "rejected" \in MemoryStatus
    BY Zenon DEF MemoryStatus
  <1> HIDE DEF row
  <1> QED
    BY <1>4, <1>7, <1>8, <1>9, <1>10, StoreFields, Zenon

(* Expiry and deletion: the revisions in `from' become `target'.            *)
LEMMA RetireKeeps ==
  ASSUME MemoryInv, NEW m \in Memories, NEW e \in 0 .. MaxMemRevision,
         NEW from, NEW target, NEW scrub \in BOOLEAN,
         \/ from = {"active"} /\ target = "expired" /\ ~scrub
         \/ from = MemoryStatus \ {"deleted"} /\ target = "deleted" /\ scrub,
         TransitionOutOfRetrieval(m, e, from, target, scrub)
  PROVE  MemoryInv'
  <1> DEFINE row == memory[m]
             n == Len(row.revisions)
             Moved(r) == [r EXCEPT !.status = target, !.content = @ /\ ~scrub]
             revs == [i \in 1 .. n |-> RetiredRevision(row.revisions[i], from, target, scrub)]
  <1>1. /\ Store(m, Retired(row, from, target, scrub)) /\ row.status \notin {"none", "deleted"}
        /\ \E i \in DOMAIN row.revisions : row.revisions[i].status \in from
    BY Zenon DEF TransitionOutOfRetrieval
  <1>2. row \in MemoryRow /\ RowInv(row)
    BY Zenon DEF MemoryInv
  <1>3. /\ row.revision \in Nat /\ row.revisions \in Seq(RevisionRow) /\ n \in Nat
        /\ DOMAIN row.revisions = 1 .. n /\ \A i \in 1 .. n : row.revisions[i] \in RevisionRow
        /\ row.retention \in Retention
    BY <1>2, RowFields, MemoryAssumption DEF MemoryRow
  <1>4. Retired(row, from, target, scrub) = Updated(row, target, row.retention, revs)
    <2>1. [i \in DOMAIN row.revisions |->
             RetiredRevision(row.revisions[i], from, target, scrub)] = revs
      BY <1>3, Zenon
    <2>2. Retired(row, from, target, scrub) = [row EXCEPT !.status = target, !.revisions = revs]
      BY <2>1, Zenon DEF Retired
    <2> HIDE DEF revs
    <2> QED
      BY <1>2, <2>2, Zenon DEF Updated, MemoryRow
  <1>5. Store(m, Updated(memory[m], target, row.retention, revs))
    BY <1>1, <1>4, Zenon
  <1>6. target \in MemoryStatus \ {"active", "none", "proposed"}
    BY Zenon DEF MemoryStatus
  <1>7. ASSUME NEW r \in RevisionRow
        PROVE  /\ Moved(r) \in RevisionRow /\ Moved(r).status = target
               /\ Moved(r).content <=> (r.content /\ ~scrub)
               /\ Moved(r).restricted = r.restricted /\ Moved(r).authorized = r.authorized
    BY <1>6, <1>7, Zenon DEF RevisionRow
  <1> HIDE DEF Moved
  <1>8. /\ revs \in Seq(RevisionRow) /\ Len(revs) = n
        /\ \A i \in 1 .. n : revs[i] = IF row.revisions[i].status \in from
                                       THEN Moved(row.revisions[i]) ELSE row.revisions[i]
    <2>6. \A i \in 1 .. n : revs[i] = IF row.revisions[i].status \in from
                                      THEN Moved(row.revisions[i]) ELSE row.revisions[i]
      BY Zenon DEF RetiredRevision, Moved
    <2>1. \A i \in 1 .. n : revs[i] \in RevisionRow
      BY <1>3, <1>7, <2>6, Zenon
    <2>2. revs \in [1 .. n -> RevisionRow]
      BY <2>1, Zenon
    <2>3. revs \in Seq(RevisionRow)
      <3> HIDE DEF revs
      <3> QED
        BY <1>3, <2>2
    <2>4. DOMAIN revs = 1 .. n /\ DOMAIN revs = 1 .. Len(revs) /\ Len(revs) \in Nat
      <3>1. DOMAIN revs = 1 .. n
        BY Zenon
      <3> HIDE DEF revs
      <3> QED
        BY <2>3, <3>1
    <2>5. Len(revs) = n
      <3> HIDE DEF revs
      <3> QED
        BY <1>3, <2>4
    <2> QED
      BY <2>3, <2>5, <2>6, Zenon
  <1>9. n >= 1 /\ n <= row.revision + 1
    BY <1>1, <1>2, <1>3 DEF RowInv, RevisionsFit
  <1>10. \A i \in 1 .. n : row.revisions[i].status = "active" => "active" \in from
    BY Zenon DEF MemoryStatus
  <1> HIDE DEF revs, row, n
  <1>11. SoundFields(row, target, revs)
    <2> SUFFICES ASSUME NEW x \in MemoryRow, x.status = target, x.revisions = revs,
                        x.sensitive = row.sensitive, x.revision = row.revision + 1
                 PROVE  RowInv(x)
      BY Zenon DEF SoundFields
    <2>1. RevisionsFit(x)
      BY <1>3, <1>6, <1>8, <1>9 DEF RevisionsFit
    <2>2. LastIsActive(x)
      BY <1>3, <1>6, <1>7, <1>8, <1>10 DEF LastIsActive
    <2>3. TextUntilDeleted(x)
      <3>1. \A i \in 1 .. n : row.revisions[i].content <=> row.revisions[i].status # "deleted"
        BY <1>2, Zenon DEF RowInv, TextUntilDeleted, n
      <3>2. CASE scrub
        <4>1. \A i \in 1 .. n : row.revisions[i].status \in from \/ row.revisions[i].status = "deleted"
          BY <1>3, <3>2, Zenon DEF RevisionRow
        <4>2. \A i \in 1 .. n : revs[i].status = "deleted" /\ ~revs[i].content
          BY <1>3, <1>7, <1>8, <3>1, <3>2, <4>1
        <4> QED
          BY <1>8, <4>2, Zenon DEF TextUntilDeleted
      <3>3. CASE ~scrub
        <4>1. target # "deleted"
          BY <3>3, Zenon
        <4>2. \A i \in 1 .. n : row.revisions[i].status \in from => row.revisions[i].status # "deleted"
          BY <3>3, Zenon
        <4>3. \A i \in 1 .. n : revs[i].content <=> revs[i].status # "deleted"
          BY <1>3, <1>7, <1>8, <3>1, <3>3, <4>1, <4>2
        <4> QED
          BY <1>8, <4>1, <4>3, Zenon DEF TextUntilDeleted
      <3> QED
        BY <3>2, <3>3, Zenon
    <2>4. ActivationsAuthorized(x)
      <3>1. ASSUME NEW i \in 1 .. n, revs[i].status \in {"active", "superseded", "expired"},
                   row.sensitive \/ revs[i].restricted
            PROVE  revs[i].authorized
        <4>1. CASE row.revisions[i].status \in from
          <5>1. revs[i] = Moved(row.revisions[i]) /\ revs[i].status = target
            BY <1>3, <1>7, <1>8, <4>1
          <5>2. target = "expired" /\ row.revisions[i].status = "active"
            BY <3>1, <4>1, <5>1, Zenon
          <5>3. row.revisions[i].authorized
            BY <1>2, <1>3, <1>7, <3>1, <5>1, <5>2, Zenon
               DEF RowInv, ActivationsAuthorized, n
          <5> QED
            BY <1>3, <1>7, <5>1, <5>3
        <4>2. CASE row.revisions[i].status \notin from
          <5>1. revs[i] = row.revisions[i]
            BY <1>8, <4>2, Zenon
          <5> QED
            BY <1>2, <3>1, <5>1, Zenon DEF RowInv, ActivationsAuthorized, n
        <4> QED
          BY <4>1, <4>2, Zenon
      <3> QED
        BY <1>8, <3>1, Zenon DEF ActivationsAuthorized
    <2> QED
      BY <2>1, <2>2, <2>3, <2>4, Zenon DEF RowInv
  <1>12. SoundFields(memory[m], target, revs) /\ target \in MemoryStatus
         /\ row.retention \in Retention /\ revs \in Seq(RevisionRow)
    BY <1>3, <1>6, <1>8, <1>11, Zenon DEF row
  <1> QED
    BY <1>5, <1>12, StoreFields, Zenon

(* The rebuild computes the index the triggers kept.                        *)
LEMMA RebuildKeeps ==
  ASSUME MemoryInv, RebuildMemoryIndex
  PROVE  MemoryInv'
  <1>1. memory' = memory /\ memoryIndex' = RebuiltIndex
    BY Zenon DEF RebuildMemoryIndex
  <1>2. ASSUME NEW m \in Memories, NEW i \in RevisionsIn(memory[m], "active")
        PROVE  memory[m].status = "active" /\ memory[m].revisions[i].content
    <2>1. RowInv(memory[m]) /\ memory[m] \in MemoryRow
      BY Zenon DEF MemoryInv
    <2>2. i \in 1 .. Len(memory[m].revisions) /\ memory[m].revisions[i].status = "active"
      BY <1>2, <2>1, RowFields, Zenon DEF RevisionsIn
    <2> QED
      BY <2>1, <2>2, Zenon DEF RowInv, LastIsActive, TextUntilDeleted
  <1>3. memoryIndex' \subseteq Memories \X (1 .. MaxMemRevision + 1)
    BY <1>1, Zenon DEF RebuiltIndex
  <1>4. ASSUME NEW m \in Memories, NEW i \in 1 .. MaxMemRevision + 1
        PROVE  <<m, i>> \in memoryIndex' <=> i \in RevisionsIn(memory[m], "active")
    <2>1. <<m, i>> \in Memories \X (1 .. MaxMemRevision + 1) /\ <<m, i>>[1] = m /\ <<m, i>>[2] = i
      BY <1>4, Zenon
    <2> QED
      BY <1>1, <1>2, <2>1, Zenon DEF RebuiltIndex
  <1>5. IndexExact'
    BY <1>1, <1>3, <1>4, Zenon DEF IndexExact, RevisionsIn
  <1> QED
    BY <1>1, <1>5, Zenon DEF MemoryInv

LEMMA MemoryInvStep == MemoryInv /\ [MemoryNext]_memVars => MemoryInv'
  <1> SUFFICES ASSUME MemoryInv, [MemoryNext]_memVars PROVE MemoryInv'
    BY Zenon
  <1>1. ASSUME NEW m \in Memories, NEW e \in 0 .. MaxMemRevision, ExpireMemory(m, e)
        PROVE  MemoryInv'
    BY <1>1, RetireKeeps, Zenon DEF ExpireMemory
  <1>2. ASSUME NEW m \in Memories, NEW e \in 0 .. MaxMemRevision, DeleteMemory(m, e)
        PROVE  MemoryInv'
    BY <1>2, RetireKeeps, Zenon DEF DeleteMemory
  <1>3. CASE UNCHANGED memVars
    BY <1>3, Zenon DEF memVars, MemoryInv, IndexExact, RevisionsIn
  <1> QED
    BY <1>1, <1>2, <1>3, ProposeKeeps, PromoteKeeps, CorrectKeeps, PinKeeps,
       RejectKeeps,
       RebuildKeeps, Zenon DEF MemoryNext

LEMMA MemoryInvariant == MemorySpec => []MemoryInv
  BY MemoryInitInv, MemoryInvStep, PTL DEF MemorySpec

(* After any sequence of commands from any number of clients with stale     *)
(* revisions: the lexical index holds exactly the active revisions, an      *)
(* active memory has one of them, what was ever active under a sensitive    *)
(* category was authorized, and a deleted memory has no text left.          *)
THEOREM MemorySafe == MemorySpec => []MemorySafety
  <1>1. MemoryInv => MemorySafety
    <2> SUFFICES ASSUME MemoryInv PROVE MemorySafety
      BY Zenon
    <2>1. MemoryTypeOK
      BY Zenon DEF MemoryTypeOK, MemoryInv, IndexExact
    <2>2. ASSUME NEW m \in Memories
          PROVE  /\ RowInv(memory[m]) /\ memory[m] \in MemoryRow
                 /\ DOMAIN memory[m].revisions = 1 .. Len(memory[m].revisions)
                 /\ Len(memory[m].revisions) \in Nat
                 /\ Len(memory[m].revisions) <= MaxMemRevision + 1
      BY RowFields, MemoryAssumption DEF MemoryInv, RowInv, RevisionsFit
    <2>3. IndexIsActive
      <3> SUFFICES ASSUME NEW m \in Memories
                   PROVE  LET active == RevisionsIn(memory[m], "active") IN
                          /\ {x[2] : x \in {y \in memoryIndex : y[1] = m}} = active
                          /\ Cardinality(active) = (IF memory[m].status = "active" THEN 1 ELSE 0)
        BY Zenon DEF IndexIsActive
      <3> DEFINE active == RevisionsIn(memory[m], "active")
                 n == Len(memory[m].revisions)
      <3>1. active \subseteq 1 .. MaxMemRevision + 1
        BY <2>2, MemoryAssumption DEF RevisionsIn
      <3>2. \A i \in 1 .. MaxMemRevision + 1 : <<m, i>> \in memoryIndex <=> i \in active
        BY Zenon DEF MemoryInv, IndexExact
      <3>3. memoryIndex \subseteq Memories \X (1 .. MaxMemRevision + 1)
        BY Zenon DEF MemoryInv, IndexExact
      <3>4. {x[2] : x \in {y \in memoryIndex : y[1] = m}} = active
        <4> HIDE DEF active
        <4>1. ASSUME NEW x \in memoryIndex, x[1] = m PROVE x[2] \in active
          <5>1. x = <<m, x[2]>> /\ x[2] \in 1 .. MaxMemRevision + 1
            BY <3>3, <4>1
          <5> QED
            BY <3>2, <5>1, Zenon
        <4>2. ASSUME NEW i \in active
              PROVE  \E x \in {y \in memoryIndex : y[1] = m} : i = x[2]
          <5>1. <<m, i>> \in memoryIndex /\ <<m, i>>[1] = m /\ <<m, i>>[2] = i
            BY <3>1, <3>2, <4>2, Zenon
          <5> QED
            BY <5>1, Zenon
        <4> QED
          BY <4>1, <4>2, Zenon
      <3>5. CASE memory[m].status = "active"
        <4>1. n >= 1 /\ n \in Nat
          BY <2>2, <3>5 DEF RowInv, RevisionsFit
        <4>2. active = {n}
          BY <2>2, <3>5, <4>1 DEF RevisionsIn, RowInv, LastIsActive
        <4> QED
          BY <3>4, <3>5, <4>2, CardOne, Zenon
      <3>6. CASE memory[m].status # "active"
        <4>1. active = {}
          BY <2>2, <3>6, Zenon DEF RevisionsIn, RowInv, LastIsActive
        <4> QED
          BY <3>4, <3>6, <4>1, CardNone, Zenon
      <3> QED
        BY <3>5, <3>6, Zenon
    <2>4. SensitiveIsAuthorized
      BY <2>2, Zenon DEF SensitiveIsAuthorized, RowInv, ActivationsAuthorized
    <2>5. DeletedIsScrubbed
      <3> SUFFICES ASSUME NEW m \in Memories, memory[m].status = "deleted"
                   PROVE  /\ \A i \in DOMAIN memory[m].revisions : ~memory[m].revisions[i].content
                          /\ \A x \in memoryIndex : x[1] # m
        BY Zenon DEF DeletedIsScrubbed
      <3>1. \A i \in DOMAIN memory[m].revisions : ~memory[m].revisions[i].content
        BY <2>2, Zenon DEF RowInv, TextUntilDeleted
      <3>2. RevisionsIn(memory[m], "active") = {}
        BY <2>2, Zenon DEF RevisionsIn, RowInv, LastIsActive
      <3>3. ASSUME NEW x \in memoryIndex, x[1] = m PROVE FALSE
        <4>1. x = <<m, x[2]>> /\ x[2] \in 1 .. MaxMemRevision + 1
          BY <3>3 DEF MemoryInv, IndexExact
        <4> QED
          BY <3>2, <4>1, Zenon DEF MemoryInv, IndexExact
      <3> QED
        BY <3>1, <3>3, Zenon
    <2> QED
      BY <2>1, <2>3, <2>4, <2>5, Zenon DEF MemorySafety
  <1> QED
    BY MemoryInvariant, <1>1, PTL

(* Store changes one row's status, to that of the row it is given.          *)
LEMMA StoreStatus ==
  ASSUME MemoryInv, NEW m \in Memories, NEW row, Store(m, row),
         [row EXCEPT !.revision = @ + 1].status = row.status,
         row.status = memory[m].status \/ <<memory[m].status, row.status>> \in MemoryAllowed
  PROVE  \A n \in Memories : memory'[n].status # memory[n].status =>
            <<memory[n].status, memory'[n].status>> \in MemoryAllowed
  <1> DEFINE new == [row EXCEPT !.revision = @ + 1]
  <1>1. memory' = [memory EXCEPT ![m] = new] /\ new.status = row.status
    BY Zenon DEF Store
  <1> HIDE DEF new
  <1>2. \A n \in Memories : memory'[n] = IF n = m THEN new ELSE memory[n]
    BY <1>1, Zenon DEF MemoryInv
  <1> QED
    BY <1>1, <1>2, Zenon

(* A memory moves only along the transitions of MemoryState::transition,    *)
(* which the store's SQL never calls, whichever revision a caller names.    *)
THEOREM MemoryKeepsToDomain == MemorySpec => MemoryFollowsDomain
  <1> DEFINE Follows == \A m \in Memories : memory'[m].status # memory[m].status =>
                           <<memory[m].status, memory'[m].status>> \in MemoryAllowed
  <1>1. MemoryInv /\ [MemoryNext]_memVars => [Follows]_memVars
    <2> SUFFICES ASSUME MemoryInv, MemoryNext PROVE Follows
      BY Zenon DEF memVars
    <2>1. \A n \in Memories : memory[n] \in MemoryRow /\ RowInv(memory[n])
      BY Zenon DEF MemoryInv
    <2>2. ASSUME NEW m \in Memories, NEW w \in MemWorkspaces, NEW s \in BOOLEAN,
                 NEW r \in BOOLEAN, NEW k \in Retention, ProposeMemory(m, w, s, r, k)
          PROVE  Follows
      <3> DEFINE new == [status |-> "proposed", revision |-> 0, workspace |-> w,
                         sensitive |-> s, retention |-> k, revisions |-> <<Proposal(r)>>]
      <3>1. memory' = [memory EXCEPT ![m] = new] /\ new.status = "proposed"
            /\ memory[m].status = "none"
        BY <2>2, Zenon DEF ProposeMemory
      <3> HIDE DEF new
      <3>2. \A n \in Memories : memory'[n] = IF n = m THEN new ELSE memory[n]
        BY <3>1, Zenon DEF MemoryInv
      <3> QED
        BY <3>1, <3>2, Zenon DEF MemoryAllowed
    <2>3. ASSUME NEW m \in Memories, NEW a \in BOOLEAN, PromoteMemory(m, a) PROVE Follows
      <3> DEFINE row == memory[m]
                 new == [row EXCEPT !.status = "active", !.revisions[1] =
                           [RecordAuthorization(row.revisions[1], a) EXCEPT !.status = "active"]]
      <3>1. Store(m, new) /\ row.status = "proposed"
        BY <2>3, Zenon DEF PromoteMemory
      <3>2. new.status = "active" /\ [new EXCEPT !.revision = @ + 1].status = new.status
        BY <2>1, Zenon DEF MemoryRow
      <3>3. <<row.status, new.status>> \in MemoryAllowed
        BY <3>1, <3>2, Zenon DEF MemoryAllowed
      <3> HIDE DEF new
      <3> QED
        BY <3>1, <3>2, <3>3, StoreStatus, Zenon
    <2>4. ASSUME NEW m \in Memories, NEW e \in 0 .. MaxMemRevision, NEW r \in BOOLEAN,
                 NEW a \in BOOLEAN, NEW k \in Retention, CorrectMemory(m, e, r, a, k)
          PROVE  Follows
      <3> DEFINE new == [memory[m] EXCEPT !.retention = k, !.revisions = Superseded(m, r, a)]
      <3>1. Store(m, new)
        BY <2>4, Zenon DEF CorrectMemory
      <3>2. new.status = memory[m].status /\ [new EXCEPT !.revision = @ + 1].status = new.status
        BY <2>1, Zenon DEF MemoryRow
      <3> HIDE DEF new
      <3> QED
        BY <3>1, <3>2, StoreStatus, Zenon
    <2>5. ASSUME NEW m \in Memories, NEW e \in 0 .. MaxMemRevision, NEW p \in BOOLEAN,
                 SetMemoryPin(m, e, p)
          PROVE  Follows
      <3> DEFINE new == [memory[m] EXCEPT !.retention = IF p THEN "pinned" ELSE "standard"]
      <3>1. Store(m, new)
        BY <2>5, Zenon DEF SetMemoryPin
      <3>2. new.status = memory[m].status /\ [new EXCEPT !.revision = @ + 1].status = new.status
        BY <2>1, Zenon DEF MemoryRow
      <3> HIDE DEF new
      <3> QED
        BY <3>1, <3>2, StoreStatus, Zenon
    <2>6. ASSUME NEW m \in Memories, NEW e \in 0 .. MaxMemRevision, RejectMemory(m, e)
          PROVE  Follows
      <3> DEFINE new == [memory[m] EXCEPT !.status = "rejected", !.revisions[1].status = "rejected"]
      <3>1. Store(m, new) /\ memory[m].status = "proposed"
        BY <2>6, Zenon DEF RejectMemory
      <3>2. new.status = "rejected" /\ [new EXCEPT !.revision = @ + 1].status = new.status
        BY <2>1, Zenon DEF MemoryRow
      <3>3. <<memory[m].status, new.status>> \in MemoryAllowed
        BY <3>1, <3>2, Zenon DEF MemoryAllowed
      <3> HIDE DEF new
      <3> QED
        BY <3>1, <3>2, <3>3, StoreStatus, Zenon
    <2>7. ASSUME NEW m \in Memories, NEW e \in 0 .. MaxMemRevision, ExpireMemory(m, e)
          PROVE  Follows
      <3> DEFINE new == Retired(memory[m], {"active"}, "expired", FALSE)
      <3>1. /\ Store(m, new)
            /\ \E i \in DOMAIN memory[m].revisions : memory[m].revisions[i].status = "active"
        BY <2>7, Zenon DEF ExpireMemory, TransitionOutOfRetrieval
      <3>2. memory[m].status = "active"
        BY <2>1, <3>1, RowFields, Zenon DEF RowInv, LastIsActive
      <3>3. new.status = "expired" /\ [new EXCEPT !.revision = @ + 1].status = new.status
        BY <2>1, Zenon DEF MemoryRow, Retired
      <3>4. <<memory[m].status, new.status>> \in MemoryAllowed
        BY <3>2, <3>3, Zenon DEF MemoryAllowed
      <3> HIDE DEF new
      <3> QED
        BY <3>1, <3>3, <3>4, StoreStatus, Zenon
    <2>8. ASSUME NEW m \in Memories, NEW e \in 0 .. MaxMemRevision, DeleteMemory(m, e)
          PROVE  Follows
      <3> DEFINE new == Retired(memory[m], MemoryStatus \ {"deleted"}, "deleted", TRUE)
      <3>1. Store(m, new) /\ memory[m].status \notin {"none", "deleted"}
        BY <2>8, Zenon DEF DeleteMemory, TransitionOutOfRetrieval
      <3>2. new.status = "deleted" /\ [new EXCEPT !.revision = @ + 1].status = new.status
        BY <2>1, Zenon DEF MemoryRow, Retired
      <3>3. memory[m].status \in MemoryStatus
        BY <2>1, <3>1, Zenon DEF MemoryRow
      <3>4. <<memory[m].status, new.status>> \in MemoryAllowed
        BY <3>1, <3>2, <3>3, Zenon DEF MemoryAllowed, MemoryStatus
      <3> HIDE DEF new
      <3> QED
        BY <3>1, <3>2, <3>4, StoreStatus, Zenon
    <2>9. CASE RebuildMemoryIndex
      BY <2>9, Zenon DEF RebuildMemoryIndex
    <2> QED
      BY <2>2, <2>3, <2>4, <2>5, <2>6, <2>7, <2>8, <2>9, Zenon DEF MemoryNext
  <1> QED
    BY MemoryInvariant, <1>1, PTL DEF MemorySpec, MemoryFollowsDomain

-----------------------------------------------------------------------------
(***************************************************************************)
(* The outbox.                                                             *)
(***************************************************************************)
USE OutboxAssumption

-----------------------------------------------------------------------------
(* exponential_retry_delay: "The result is always between `base` and *)
(* `maximum`, inclusive", whatever the multiplier and the seed.      *)
THEOREM BackoffBounds ==
  ASSUME NEW multiplier \in Nat \ {0}, NEW seed \in Nat
  PROVE  Backoff(multiplier, seed) \in BaseDelay..MaximumDelay
  <1> DEFINE product == BaseDelay * multiplier
             exponential == AtMost(product, MaximumDelay)
             jitter == seed % ((exponential \div 4) + 1)
  <1>1. product \in Nat /\ product >= BaseDelay
    OBVIOUS
  <1>2. exponential \in BaseDelay..MaximumDelay
    <2> HIDE DEF product
    <2> QED
      BY <1>1 DEF AtMost
  <1>3. jitter \in Nat
    <2>1. exponential \in Nat
      BY <1>2
    <2>2. (exponential \div 4) + 1 \in Nat \ {0}
      <3> HIDE DEF exponential
      <3> QED
        BY <2>1
    <2> HIDE DEF exponential
    <2> QED
      BY <2>2
  <1>4. AtMost(exponential + jitter, MaximumDelay) \in BaseDelay..MaximumDelay
    <2> HIDE DEF exponential, jitter
    <2> QED
      BY <1>2, <1>3 DEF AtMost
  <1> QED
    BY <1>4 DEF Backoff

-----------------------------------------------------------------------------
(* The inductive invariant. *)

(* A driver without a job has seen nothing; a job has a message and an *)
(* attempt the row has counted.                                        *)
JobsAreCounted ==
    \A d \in Drivers :
       \/ job[d] = NoJob /\ result[d] = "none"
       \/ /\ job[d].message \in Messages
          /\ job[d].attempt \in 1..attempts[job[d].message]

(* No two drivers work under one attempt of a message. *)
AttemptsAreDistinct ==
    \A d1, d2 \in Drivers :
       (/\ d1 # d2 /\ job[d1].message \in Messages
        /\ job[d1].message = job[d2].message)
       => job[d1].attempt # job[d2].attempt

(* A driver that has sent nothing yet works under an unused attempt. *)
UnsentIsUnused ==
    \A d \in Drivers :
       (job[d].message \in Messages /\ result[d] = "none")
       => sends[job[d].message][job[d].attempt] = 0

(* The driver that owns a row in delivery, if it still works on it, works *)
(* under the row's last attempt.                                          *)
OwnerIsCurrent ==
    \A d \in Drivers :
       (/\ job[d].message \in Messages
        /\ state[job[d].message] = "delivering" /\ owner[job[d].message] = d)
       => job[d].attempt = attempts[job[d].message]

(* What forbids another attempt is remembered. *)
VerdictsAreNoted ==
    \A d \in Drivers :
       (job[d].message \in Messages /\ result[d] \in Verdicts)
       => result[d] \in verdicts[job[d].message]

Inv ==
    /\ TypeOK
    /\ JobsAreCounted
    /\ AttemptsAreDistinct
    /\ UnsentIsUnused
    /\ OwnerIsCurrent
    /\ VerdictsAreNoted
    /\ OneSendPerAttempt
    /\ EndsForCause

LEMMA NoJobType == NoJob \in Jobs
  BY DEF NoJob, Jobs

LEMMA InvInit == Init => Inv
  BY NoJobType
     DEF Init, Inv, TypeOK, JobsAreCounted, AttemptsAreDistinct, UnsentIsUnused,
         OwnerIsCurrent, VerdictsAreNoted, OneSendPerAttempt, EndsForCause,
         NoJob, States, Results, Verdicts

LEMMA InvStep == Inv /\ [Next]_vars => Inv'
  <1> SUFFICES ASSUME Inv, [Next]_vars PROVE Inv'
    OBVIOUS
  <1> USE DEF Inv, rowVars, driverVars, worldVars, NoJob
  <1>1. ASSUME NEW m \in Messages, Insert(m)
        PROVE  Inv'
    <2>1. TypeOK'
      BY <1>1 DEF TypeOK, States, Results, Verdicts, Insert
    <2>2. JobsAreCounted'
      BY <1>1 DEF JobsAreCounted, TypeOK, Insert
    <2>3. AttemptsAreDistinct'
      BY <1>1, Zenon DEF AttemptsAreDistinct, TypeOK, Insert
    <2>4. UnsentIsUnused'
      BY <1>1 DEF UnsentIsUnused, TypeOK, Insert
    <2>5. OwnerIsCurrent'
      BY <1>1, Zenon DEF OwnerIsCurrent, TypeOK, Insert
    <2>6. VerdictsAreNoted'
      BY <1>1 DEF VerdictsAreNoted, TypeOK, Insert
    <2>7. OneSendPerAttempt'
      BY <1>1 DEF OneSendPerAttempt, TypeOK, Insert
    <2>8. EndsForCause'
      BY <1>1 DEF EndsForCause, TypeOK, Insert
    <2> QED
      BY <2>1, <2>2, <2>3, <2>4, <2>5, <2>6, <2>7, <2>8, Zenon DEF Inv
  <1>2. ASSUME NEW d \in Drivers, NEW m \in Messages, NEW route \in Routes,
               Claim(d, m, route)
        PROVE  Inv'
    <2>1. TypeOK'
      BY <1>2
         DEF TypeOK, States, Results, Verdicts, Jobs, Claim, Swept, Due, Stale,
             Exhausted
    <2>2. JobsAreCounted'
      BY <1>2 DEF JobsAreCounted, TypeOK, Claim, Swept, Due, Stale, Exhausted
    <2>3. AttemptsAreDistinct'
      BY <1>2
         DEF AttemptsAreDistinct, TypeOK, JobsAreCounted, Claim, Swept, Due,
             Stale, Exhausted
    <2>4. UnsentIsUnused'
      BY <1>2
         DEF UnsentIsUnused, TypeOK, JobsAreCounted, OneSendPerAttempt, Claim,
             Swept, Due, Stale, Exhausted
    <2>5. OwnerIsCurrent'
      BY <1>2
         DEF OwnerIsCurrent, TypeOK, JobsAreCounted, Claim, Swept, Due, Stale,
             Exhausted
    <2>6. VerdictsAreNoted'
      BY <1>2
         DEF VerdictsAreNoted, TypeOK, JobsAreCounted, Verdicts, Claim, Swept,
             Due, Stale, Exhausted
    <2>7. OneSendPerAttempt'
      BY <1>2 DEF OneSendPerAttempt, TypeOK, Claim, Swept, Due, Stale, Exhausted
    <2>8. EndsForCause'
      BY <1>2 DEF EndsForCause, TypeOK, Claim, Swept, Due, Stale, Exhausted
    <2> QED
      BY <2>1, <2>2, <2>3, <2>4, <2>5, <2>6, <2>7, <2>8, Zenon DEF Inv
  <1>3. ASSUME NEW d \in Drivers, Sweep(d)
        PROVE  Inv'
    <2>1. TypeOK'
      BY <1>3
         DEF TypeOK, States, Results, Verdicts, Sweep, Swept, Due, Stale,
             Exhausted
    <2>2. JobsAreCounted'
      BY <1>3 DEF JobsAreCounted, TypeOK, Sweep, Swept, Due, Stale, Exhausted
    <2>3. AttemptsAreDistinct'
      BY <1>3
         DEF AttemptsAreDistinct, TypeOK, Sweep, Swept, Due, Stale, Exhausted
    <2>4. UnsentIsUnused'
      BY <1>3 DEF UnsentIsUnused, TypeOK, Sweep, Swept, Due, Stale, Exhausted
    <2>5. OwnerIsCurrent'
      BY <1>3 DEF OwnerIsCurrent, TypeOK, Sweep, Swept, Due, Stale, Exhausted
    <2>6. VerdictsAreNoted'
      BY <1>3 DEF VerdictsAreNoted, TypeOK, Sweep, Swept, Due, Stale, Exhausted
    <2>7. OneSendPerAttempt'
      BY <1>3 DEF OneSendPerAttempt, TypeOK, Sweep, Swept, Due, Stale, Exhausted
    <2>8. EndsForCause'
      BY <1>3 DEF EndsForCause, TypeOK, Sweep, Swept, Due, Stale, Exhausted
    <2> QED
      BY <2>1, <2>2, <2>3, <2>4, <2>5, <2>6, <2>7, <2>8, Zenon DEF Inv
  <1>4. ASSUME NEW d \in Drivers, DeliverUnsent(d)
        PROVE  Inv'
    <2>a. job[d].message \in Messages /\ job[d].attempt \in 1..attempts[job[d].message]
      BY <1>4 DEF JobsAreCounted, DeliverUnsent
    <2>b. /\ \E r \in Results : /\ result' = [result EXCEPT ![d] = r] /\ r # "none"
                            /\ Note(job[d].message, r)
          /\ UNCHANGED <<up, state, attempts, owner, age, job, sends>>
      BY <1>4, Zenon DEF DeliverUnsent, UnsentResults, Results
    <2>1. TypeOK'
      BY <2>a, <2>b DEF TypeOK, States, Results, Verdicts, Note
    <2>2. JobsAreCounted'
      BY <2>a, <2>b DEF JobsAreCounted, TypeOK, Note
    <2>3. AttemptsAreDistinct'
      BY <2>a, <2>b, Zenon DEF AttemptsAreDistinct, TypeOK, Note
    <2>4. UnsentIsUnused'
      BY <2>a, <2>b, Zenon DEF UnsentIsUnused, TypeOK, Note
    <2>5. OwnerIsCurrent'
      BY <2>a, <2>b, Zenon DEF OwnerIsCurrent, TypeOK, Note
    <2>6. VerdictsAreNoted'
      BY <2>a, <2>b DEF VerdictsAreNoted, TypeOK, Note
    <2>7. OneSendPerAttempt'
      BY <2>a, <2>b DEF OneSendPerAttempt, TypeOK, Note
    <2>8. EndsForCause'
      BY <2>a, <2>b DEF EndsForCause, TypeOK, Note
    <2> QED
      BY <2>1, <2>2, <2>3, <2>4, <2>5, <2>6, <2>7, <2>8, Zenon DEF Inv
  <1>5. ASSUME NEW d \in Drivers, Send(d)
        PROVE  Inv'
    <2>a. job[d].message \in Messages /\ job[d].attempt \in 1..attempts[job[d].message]
      BY <1>5 DEF JobsAreCounted, Send
    <2>c. job[d].attempt \in 1..MaximumAttempts
      BY <2>a DEF TypeOK
    <2>s. sends' \in [Messages -> [1..MaximumAttempts -> Nat]]
      <3> DEFINE n == job[d].message
                 row == [sends[n] EXCEPT ![job[d].attempt] = @ + 1]
      <3>1. n \in Messages /\ sends[n] \in [1..MaximumAttempts -> Nat]
        BY <2>a DEF TypeOK
      <3>2. row \in [1..MaximumAttempts -> Nat]
        <4> HIDE DEF n
        <4> QED
          BY <2>c, <3>1
      <3>3. sends' = [sends EXCEPT ![n] = row]
        BY <1>5 DEF Send
      <3> HIDE DEF row, n
      <3> QED
        BY <3>1, <3>2, <3>3 DEF TypeOK
    <2>1. TypeOK'
      BY <1>5, <2>s, Zenon DEF TypeOK, Results, Send
    <2>2. JobsAreCounted'
      BY <1>5, <2>a DEF JobsAreCounted, TypeOK, Send
    <2>3. AttemptsAreDistinct'
      BY <1>5, <2>a, Zenon DEF AttemptsAreDistinct, TypeOK, Send
    <2>4. UnsentIsUnused'
      <3> SUFFICES ASSUME NEW e \in Drivers, job[e].message \in Messages,
                          result'[e] = "none"
                   PROVE  sends'[job[e].message][job[e].attempt] = 0
        BY <1>5 DEF UnsentIsUnused, Send
      <3>1. e # d /\ result[e] = "none"
        BY <1>5 DEF TypeOK, Send
      <3>2. ~ (job[e].message = job[d].message /\ job[e].attempt = job[d].attempt)
        BY <3>1 DEF AttemptsAreDistinct
      <3>3. sends[job[e].message][job[e].attempt] = 0
        BY <3>1 DEF UnsentIsUnused
      <3>4. job[e].attempt \in 1..MaximumAttempts
        BY DEF JobsAreCounted, TypeOK
      <3> QED
        BY <1>5, <2>a, <2>c, <3>2, <3>3, <3>4, Zenon DEF TypeOK, Send
    <2>5. OwnerIsCurrent'
      BY <1>5, <2>a, Zenon DEF OwnerIsCurrent, TypeOK, Send
    <2>6. VerdictsAreNoted'
      BY <1>5, <2>a DEF VerdictsAreNoted, TypeOK, Verdicts, Send
    <2>7. OneSendPerAttempt'
      <3> SUFFICES ASSUME NEW m \in Messages, NEW a \in 1..MaximumAttempts
                   PROVE  sends'[m][a] <= (IF a <= attempts[m] THEN 1 ELSE 0)
        BY <1>5 DEF OneSendPerAttempt, Send
      <3>1. CASE m = job[d].message /\ a = job[d].attempt
        <4>1. sends[m][a] = 0 /\ a <= attempts[m]
          BY <1>5, <2>a, <3>1 DEF UnsentIsUnused, Send
        <4>2. sends'[m][a] = 1
          BY <1>5, <3>1, <4>1 DEF Send, TypeOK
        <4> QED
          BY <4>1, <4>2 DEF TypeOK
      <3>2. CASE ~ (m = job[d].message /\ a = job[d].attempt)
        BY <1>5, <2>a, <3>2, Zenon DEF OneSendPerAttempt, TypeOK, Send
      <3> QED
        BY <3>1, <3>2
    <2>8. EndsForCause'
      BY <1>5, <2>a DEF EndsForCause, TypeOK, Send
    <2> QED
      BY <2>1, <2>2, <2>3, <2>4, <2>5, <2>6, <2>7, <2>8, Zenon DEF Inv
  <1>6. ASSUME NEW d \in Drivers, Answer(d)
        PROVE  Inv'
    <2>a. job[d].message \in Messages /\ job[d].attempt \in 1..attempts[job[d].message]
      BY <1>6 DEF JobsAreCounted, Answer
    <2>b. /\ \E r \in Results : /\ result' = [result EXCEPT ![d] = r] /\ r # "none"
                            /\ Note(job[d].message, r)
          /\ UNCHANGED <<up, state, attempts, owner, age, job, sends>>
      BY <1>6, Zenon DEF Answer, AnswerResults, Results
    <2>1. TypeOK'
      BY <2>a, <2>b DEF TypeOK, States, Results, Verdicts, Note
    <2>2. JobsAreCounted'
      BY <2>a, <2>b DEF JobsAreCounted, TypeOK, Note
    <2>3. AttemptsAreDistinct'
      BY <2>a, <2>b, Zenon DEF AttemptsAreDistinct, TypeOK, Note
    <2>4. UnsentIsUnused'
      BY <2>a, <2>b, Zenon DEF UnsentIsUnused, TypeOK, Note
    <2>5. OwnerIsCurrent'
      BY <2>a, <2>b, Zenon DEF OwnerIsCurrent, TypeOK, Note
    <2>6. VerdictsAreNoted'
      BY <2>a, <2>b DEF VerdictsAreNoted, TypeOK, Note
    <2>7. OneSendPerAttempt'
      BY <2>a, <2>b DEF OneSendPerAttempt, TypeOK, Note
    <2>8. EndsForCause'
      BY <2>a, <2>b DEF EndsForCause, TypeOK, Note
    <2> QED
      BY <2>1, <2>2, <2>3, <2>4, <2>5, <2>6, <2>7, <2>8, Zenon DEF Inv
  <1>7. ASSUME NEW d \in Drivers, Complete(d)
        PROVE  Inv'
    <2>a. job[d].message \in Messages /\ job[d].attempt \in 1..attempts[job[d].message]
      BY <1>7 DEF JobsAreCounted, Complete
    <2>b. /\ result[d] = "delivered" /\ HoldsClaim(d)
          /\ state' = [state EXCEPT ![job[d].message] = "delivered"]
          /\ job' = [job EXCEPT ![d] = NoJob] /\ result' = [result EXCEPT ![d] = "none"]
          /\ UNCHANGED <<up, attempts, owner, age, sends, verdicts>>
      BY <1>7 DEF Complete, Release
    <2>t. job' \in [Drivers -> Jobs] /\ result' \in [Drivers -> Results]
      <3> HIDE DEF NoJob
      <3> QED
        BY <2>a, <2>b, NoJobType DEF TypeOK, Results
    <2>1. TypeOK'
      <3> HIDE DEF NoJob
      <3> QED
        BY <2>a, <2>b, <2>t DEF TypeOK, States
    <2>2. JobsAreCounted'
      BY <2>a, <2>b DEF JobsAreCounted, TypeOK, HoldsClaim
    <2>3. AttemptsAreDistinct'
      BY <2>a, <2>b DEF AttemptsAreDistinct, TypeOK, HoldsClaim
    <2>4. UnsentIsUnused'
      BY <2>a, <2>b DEF UnsentIsUnused, TypeOK, HoldsClaim
    <2>5. OwnerIsCurrent'
      BY <2>a, <2>b DEF OwnerIsCurrent, TypeOK, HoldsClaim
    <2>6. VerdictsAreNoted'
      BY <2>a, <2>b DEF VerdictsAreNoted, TypeOK, HoldsClaim
    <2>7. OneSendPerAttempt'
      BY <2>a, <2>b DEF OneSendPerAttempt, TypeOK, HoldsClaim
    <2>8. EndsForCause'
      BY <2>a, <2>b
         DEF EndsForCause, TypeOK, VerdictsAreNoted, Verdicts, HoldsClaim
    <2> QED
      BY <2>1, <2>2, <2>3, <2>4, <2>5, <2>6, <2>7, <2>8, Zenon DEF Inv
  <1>8. ASSUME NEW d \in Drivers, Retry(d)
        PROVE  Inv'
    <2>a. job[d].message \in Messages /\ job[d].attempt \in 1..attempts[job[d].message]
      BY <1>8 DEF JobsAreCounted, Retry
    <2>b. /\ result[d] \in {"failed", "failed_after", "terminal", "outcome_unknown"}
          /\ HoldsClaim(d)
          /\ owner' = [owner EXCEPT ![job[d].message] = NoDriver]
          /\ age' = [age EXCEPT ![job[d].message] = 0]
          /\ \/ /\ job[d].attempt >= Limit(d)
                /\ state' = [state EXCEPT ![job[d].message] = "failed"]
             \/ state' = [state EXCEPT ![job[d].message] = "pending"]
          /\ job' = [job EXCEPT ![d] = NoJob] /\ result' = [result EXCEPT ![d] = "none"]
          /\ UNCHANGED <<up, attempts, sends, verdicts>>
      BY <1>8 DEF Retry, Release
    <2>t. job' \in [Drivers -> Jobs] /\ result' \in [Drivers -> Results]
      <3> HIDE DEF NoJob
      <3> QED
        BY <2>a, <2>b, NoJobType DEF TypeOK, Results
    <2>1. TypeOK'
      <3> HIDE DEF NoJob
      <3> QED
        <4>1. state' \in [Messages -> States]
          BY <2>b, Zenon DEF TypeOK, States
        <4>2. owner' \in [Messages -> Drivers \cup {NoDriver}]
          BY <2>b, Zenon DEF TypeOK
        <4>3. age' \in [Messages -> 0..ClaimTimeout]
          <5>1. age' = [age EXCEPT ![job[d].message] = 0]
            BY <2>b, Zenon
          <5>2. age \in [Messages -> 0..ClaimTimeout] /\ 0 \in 0..ClaimTimeout
            BY DEF TypeOK
          <5> QED
            BY <5>1, <5>2, Zenon
        <4> QED
          BY <2>b, <2>t, <4>1, <4>2, <4>3, Zenon DEF TypeOK
    <2>2. JobsAreCounted'
      BY <2>a, <2>b DEF JobsAreCounted, TypeOK
    <2>3. AttemptsAreDistinct'
      BY <2>a, <2>b DEF AttemptsAreDistinct, TypeOK
    <2>4. UnsentIsUnused'
      BY <2>a, <2>b DEF UnsentIsUnused, TypeOK
    <2>5. OwnerIsCurrent'
      BY <2>a, <2>b DEF OwnerIsCurrent, TypeOK
    <2>6. VerdictsAreNoted'
      BY <2>a, <2>b DEF VerdictsAreNoted, TypeOK
    <2>7. OneSendPerAttempt'
      BY <2>a, <2>b DEF OneSendPerAttempt, TypeOK
    <2>8. EndsForCause'
      <3>1. \A m \in Messages \ {job[d].message} : state'[m] = state[m]
        BY <2>b DEF TypeOK
      <3>2. state'[job[d].message] = "failed" => job[d].attempt >= Limit(d)
        BY <2>a, <2>b DEF TypeOK
      <3>3. state'[job[d].message] # "delivered"
        BY <2>a, <2>b DEF TypeOK
      <3>4. job[d].attempt = attempts[job[d].message]
        BY <2>a, <2>b DEF OwnerIsCurrent, HoldsClaim
      <3>5. job[d].attempt >= Limit(d)
            => \/ attempts[job[d].message] = MaximumAttempts
               \/ verdicts[job[d].message] \cap {"terminal", "outcome_unknown"} # {}
        BY <2>a, <2>b, <3>4 DEF Limit, VerdictsAreNoted, Verdicts, TypeOK
      <3> QED
        BY <2>b, <3>1, <3>2, <3>3, <3>5 DEF EndsForCause
    <2> QED
      BY <2>1, <2>2, <2>3, <2>4, <2>5, <2>6, <2>7, <2>8, Zenon DEF Inv
  <1>9. ASSUME NEW d \in Drivers, FinishStale(d) \/ Abandon(d)
        PROVE  Inv'
    <2>b. /\ job' = [job EXCEPT ![d] = NoJob] /\ result' = [result EXCEPT ![d] = "none"]
          /\ UNCHANGED <<up, state, attempts, owner, age, sends, verdicts>>
      BY <1>9 DEF FinishStale, Abandon, Release
    <2>t. job' \in [Drivers -> Jobs] /\ result' \in [Drivers -> Results]
      <3> HIDE DEF NoJob
      <3> QED
        BY <2>b, NoJobType DEF TypeOK, Results
    <2>1. TypeOK'
      <3> HIDE DEF NoJob
      <3> QED
        BY <2>b, <2>t DEF TypeOK, States
    <2>2. JobsAreCounted'
      BY <2>b DEF JobsAreCounted, TypeOK
    <2>3. AttemptsAreDistinct'
      BY <2>b DEF AttemptsAreDistinct, TypeOK
    <2>4. UnsentIsUnused'
      BY <2>b DEF UnsentIsUnused, TypeOK
    <2>5. OwnerIsCurrent'
      BY <2>b DEF OwnerIsCurrent, TypeOK
    <2>6. VerdictsAreNoted'
      BY <2>b DEF VerdictsAreNoted, TypeOK
    <2>7. OneSendPerAttempt'
      BY <2>b DEF OneSendPerAttempt, TypeOK
    <2>8. EndsForCause'
      BY <2>b DEF EndsForCause, TypeOK
    <2> QED
      BY <2>1, <2>2, <2>3, <2>4, <2>5, <2>6, <2>7, <2>8, Zenon DEF Inv
  <1>10. CASE Crash
    <2>b. /\ up' = FALSE /\ job' = [e \in Drivers |-> NoJob]
          /\ result' = [e \in Drivers |-> "none"]
          /\ UNCHANGED <<state, attempts, owner, age, sends, verdicts>>
      BY <1>10 DEF Crash
    <2>t. job' \in [Drivers -> Jobs] /\ result' \in [Drivers -> Results]
      <3> HIDE DEF NoJob
      <3> QED
        BY <2>b, NoJobType DEF TypeOK, Results
    <2>1. TypeOK'
      <3> HIDE DEF NoJob
      <3> QED
        BY <2>b, <2>t, Zenon DEF TypeOK, States
    <2>2. JobsAreCounted'
      BY <2>b DEF JobsAreCounted, TypeOK
    <2>3. AttemptsAreDistinct'
      BY <2>b DEF AttemptsAreDistinct, TypeOK
    <2>4. UnsentIsUnused'
      BY <2>b DEF UnsentIsUnused, TypeOK
    <2>5. OwnerIsCurrent'
      BY <2>b DEF OwnerIsCurrent, TypeOK
    <2>6. VerdictsAreNoted'
      BY <2>b DEF VerdictsAreNoted, TypeOK
    <2>7. OneSendPerAttempt'
      BY <2>b DEF OneSendPerAttempt, TypeOK
    <2>8. EndsForCause'
      BY <2>b DEF EndsForCause, TypeOK
    <2> QED
      BY <2>1, <2>2, <2>3, <2>4, <2>5, <2>6, <2>7, <2>8, Zenon DEF Inv
  <1>11. CASE Recover
    <2>1. TypeOK'
      BY <1>11 DEF TypeOK, States, Results, Verdicts, Recover
    <2>2. JobsAreCounted'
      BY <1>11 DEF JobsAreCounted, TypeOK, Recover
    <2>3. AttemptsAreDistinct'
      BY <1>11, Zenon DEF AttemptsAreDistinct, TypeOK, Recover
    <2>4. UnsentIsUnused'
      BY <1>11 DEF UnsentIsUnused, TypeOK, Recover
    <2>5. OwnerIsCurrent'
      BY <1>11 DEF OwnerIsCurrent, TypeOK, Recover
    <2>6. VerdictsAreNoted'
      BY <1>11 DEF VerdictsAreNoted, TypeOK, Recover
    <2>7. OneSendPerAttempt'
      BY <1>11 DEF OneSendPerAttempt, TypeOK, Recover
    <2>8. EndsForCause'
      BY <1>11 DEF EndsForCause, TypeOK, Recover
    <2> QED
      BY <2>1, <2>2, <2>3, <2>4, <2>5, <2>6, <2>7, <2>8, Zenon DEF Inv
  <1>12. CASE Tick
    <2>b. /\ age' \in [Messages -> 0..ClaimTimeout]
          /\ UNCHANGED <<up, state, attempts, owner, job, result, sends, verdicts>>
      BY <1>12 DEF Tick, TypeOK, AtMost
    <2>1. TypeOK'
      BY <2>b, Zenon DEF TypeOK, States, Results, Verdicts
    <2>2. JobsAreCounted'
      BY <2>b DEF JobsAreCounted, TypeOK
    <2>3. AttemptsAreDistinct'
      BY <2>b, Zenon DEF AttemptsAreDistinct, TypeOK
    <2>4. UnsentIsUnused'
      BY <2>b DEF UnsentIsUnused, TypeOK
    <2>5. OwnerIsCurrent'
      BY <2>b DEF OwnerIsCurrent, TypeOK
    <2>6. VerdictsAreNoted'
      BY <2>b DEF VerdictsAreNoted, TypeOK
    <2>7. OneSendPerAttempt'
      BY <2>b DEF OneSendPerAttempt, TypeOK
    <2>8. EndsForCause'
      BY <2>b DEF EndsForCause, TypeOK
    <2> QED
      BY <2>1, <2>2, <2>3, <2>4, <2>5, <2>6, <2>7, <2>8, Zenon DEF Inv
  <1>13. CASE UNCHANGED vars
    BY <1>13
       DEF vars, TypeOK, JobsAreCounted, AttemptsAreDistinct, UnsentIsUnused,
             OwnerIsCurrent, VerdictsAreNoted, OneSendPerAttempt, EndsForCause
  <1> HIDE DEF Inv
  <1> QED
    BY <1>1, <1>2, <1>3, <1>4, <1>5, <1>6, <1>7, <1>8, <1>9, <1>10, <1>11,
       <1>12,
       <1>13, Zenon DEF Next, ClaimStep, DeliverStep, FinishStep

LEMMA OutboxInvariant == Spec => []Inv
  BY InvInit, InvStep, PTL DEF Spec

-----------------------------------------------------------------------------
(* Theorems. *)

\* The variables keep their types: attempts never passes MAXIMUM_ATTEMPTS, and
\* a claim is owned by a driver or by none.
THEOREM OutboxTypeCorrect == Spec => []TypeOK
  <1>1. Inv => TypeOK
    BY DEF Inv
  <1> QED
    BY <1>1, OutboxInvariant, PTL

\* Each attempt counted by claim_next_outbox sends at most one request, for any
\* number of drivers, crashes and stale claims.
THEOREM SendSafety == Spec => []OneSendPerAttempt
  <1>1. Inv => OneSendPerAttempt
    BY DEF Inv
  <1> QED
    BY <1>1, OutboxInvariant, PTL

\* No row ends as delivered or failed without a cause.
THEOREM EndSafety == Spec => []EndsForCause
  <1>1. Inv => EndsForCause
    BY DEF Inv
  <1> QED
    BY <1>1, OutboxInvariant, PTL

\* complete_outbox and retry_outbox compare the owner alone; that is enough for
\* a driver to settle no attempt but its own.
THEOREM SettlementSafety == Spec => OwnAttempts
  <1>1. Inv /\ [Next]_vars => [SettlesOwnAttempt]_vars
    <2> SUFFICES ASSUME Inv, Next,
                        NEW m \in Messages, up, state[m] = "delivering",
                        ~ Stale(m), state'[m] # "delivering"
                 PROVE  \E d \in Drivers : /\ job[d].message = m
                                           /\ job[d].attempt = attempts[m]
                                           /\ job'[d] = NoJob
      BY DEF SettlesOwnAttempt
    <2> USE DEF Inv
    <2>1. ASSUME NEW d \in Drivers, Complete(d) \/ Retry(d)
          PROVE  /\ job[d].message = m
                 /\ job[d].attempt = attempts[m]
                 /\ job'[d] = NoJob
      <3>1. job[d].message = m
        BY <2>1, Zenon DEF Complete, Retry, TypeOK
      <3>2. HoldsClaim(d)
        BY <2>1, Zenon DEF Complete, Retry
      <3>3. job[d].attempt = attempts[m]
        BY <3>1, <3>2 DEF HoldsClaim, OwnerIsCurrent
      <3>4. job'[d] = NoJob
        BY <2>1, Zenon DEF Complete, Retry, Release, TypeOK
      <3> QED
        BY <3>1, <3>3, <3>4
    <2>2. ASSUME NEW d \in Drivers, NEW n \in Messages, NEW route \in Routes,
                 Claim(d, n, route)
          PROVE  FALSE
      BY <2>2 DEF Claim, Swept
    <2>3. ASSUME NEW d \in Drivers, Sweep(d) PROVE FALSE
      BY <2>3 DEF Sweep, Swept
    <2>4. ASSUME NEW n \in Messages, Insert(n) PROVE FALSE
      BY <2>4 DEF Insert, TypeOK
    <2>5. ASSUME NEW d \in Drivers,
                 DeliverStep(d) \/ FinishStale(d) \/ Abandon(d)
          PROVE  FALSE
      BY <2>5, Zenon
         DEF DeliverStep, DeliverUnsent, Send, Answer, FinishStale, Abandon,
                  rowVars
    <2>6. CASE Crash \/ Recover \/ Tick
      BY <2>6, Zenon DEF Crash, Recover, Tick, rowVars
    <2> HIDE DEF Inv
    <2> QED
      BY <2>1, <2>2, <2>3, <2>4, <2>5, <2>6, Zenon DEF Next, ClaimStep, FinishStep
  <1> QED
    BY <1>1, OutboxInvariant, PTL DEF Spec, OwnAttempts

=============================================================================
