---------------------------- MODULE ArtifactStore ----------------------------
(***************************************************************************)
(* The content-addressed blob directory (artifact.rs) beside the canonical *)
(* artifact rows (sqlite/artifact.rs, sqlite/operations.rs).  A producer   *)
(* publishes a blob first and commits the row that references it later; a  *)
(* collector takes the referenced digests from a read snapshot and walks   *)
(* the directory, one stat and one unlink at a time, without the           *)
(* publication lock.                                                       *)
(***************************************************************************)
EXTENDS Naturals, FiniteSets

CONSTANTS
  Digests,    \* blob identities
  Producers,  \* concurrent publications
  MaxAgings,  \* bound: times the minimum collection age elapses
  MaxBlobCrashes

ASSUME ArtifactAssumption ==
  Digests # {} /\ MaxAgings \in Nat /\ MaxBlobCrashes \in Nat

VARIABLES
  blob,        \* [Digests -> {"absent", "young", "old"}]
  temporary,   \* [Producers -> {"none", "young", "old"}], .tmp- files
  referenced,  \* digests of canonical artifact rows
  producer,    \* [Producers -> [pc, digest]]
  collector,   \* the running collection
  agings, blobCrashes

artifactVars ==
  <<blob, temporary, referenced, producer, collector, agings, blobCrashes>>

IdleProducer == [pc |-> "idle", digest |-> CHOOSE d \in Digests : TRUE]

\* seen: history, what was referenced or published when the entry about to
\* be removed was inspected.
IdleCollector ==
  [pc |-> "idle", snapshot |-> {}, todo |-> {}, entry |-> {}, seen |-> {}]

-----------------------------------------------------------------------------
\* commit_reader streams into a private temporary file ...
WriteTemporary(p, d) ==
  /\ producer[p].pc = "idle" /\ temporary[p] = "none"
  /\ producer' = [producer EXCEPT ![p] = [pc |-> "written", digest |-> d]]
  /\ temporary' = [temporary EXCEPT ![p] = "young"]
  /\ UNCHANGED <<blob, referenced, collector, agings, blobCrashes>>

\* Mutant of Publish: a duplicate keeps the age of the first publication.
PublishKeepingAge(p) ==
  /\ producer[p].pc = "written" /\ temporary[p] # "none"
  /\ blob' = [blob EXCEPT ![producer[p].digest] =
                IF @ = "absent" THEN "young" ELSE @]
  /\ temporary' = [temporary EXCEPT ![p] = "none"]
  /\ producer' = [producer EXCEPT ![p].pc = "published"]
  /\ UNCHANGED <<referenced, collector, agings, blobCrashes>>

\* ... and under the publication lock either renames it, or verifies the
\* existing blob and refreshes its age.
Publish(p) ==
  /\ producer[p].pc = "written" /\ temporary[p] # "none"
  /\ blob' = [blob EXCEPT ![producer[p].digest] = "young"]
  /\ temporary' = [temporary EXCEPT ![p] = "none"]
  /\ producer' = [producer EXCEPT ![p].pc = "published"]
  /\ UNCHANGED <<referenced, collector, agings, blobCrashes>>

\* The canonical transaction inserts the row, or is refused.
CommitReference(p) ==
  /\ producer[p].pc = "published"
  /\ producer' = [producer EXCEPT ![p] = IdleProducer]
  /\ referenced' \in {referenced, referenced \cup {producer[p].digest}}
  /\ UNCHANGED <<blob, temporary, collector, agings, blobCrashes>>

-----------------------------------------------------------------------------
\* run_garbage_collection: referenced_artifact_digests on a read snapshot,
\* then garbage_collect.
StartCollection ==
  /\ collector.pc = "idle"
  /\ collector' = [IdleCollector EXCEPT !.pc = "scanning",
       !.snapshot = referenced, !.todo = Digests]
  /\ UNCHANGED <<blob, temporary, referenced, producer, agings, blobCrashes>>

Held == referenced \cup
  {producer[p].digest : p \in {q \in Producers : producer[q].pc = "published"}}

InspectBlob(d) ==
  /\ collector.pc = "scanning" /\ d \in collector.todo
  /\ collector' =
       IF d \in collector.snapshot \/ blob[d] # "old"
       THEN [collector EXCEPT !.todo = @ \ {d}]
       ELSE [collector EXCEPT !.pc = "removing", !.todo = @ \ {d},
                              !.entry = {d}, !.seen = Held]
  /\ UNCHANGED <<blob, temporary, referenced, producer, agings, blobCrashes>>

RemoveBlob ==
  /\ collector.pc = "removing"
  /\ blob' = [d \in Digests |-> IF d \in collector.entry THEN "absent"
                                                         ELSE blob[d]]
  /\ collector' = [collector EXCEPT !.pc = "scanning", !.entry = {},
                                    !.seen = {}]
  /\ UNCHANGED <<temporary, referenced, producer, agings, blobCrashes>>

RemoveTemporary(p) ==
  /\ collector.pc = "scanning" /\ temporary[p] = "old"
  /\ temporary' = [temporary EXCEPT ![p] = "none"]
  /\ UNCHANGED <<blob, referenced, producer, collector, agings, blobCrashes>>

FinishCollection ==
  /\ collector.pc = "scanning" /\ collector.todo = {}
  /\ collector' = IdleCollector
  /\ UNCHANGED <<blob, temporary, referenced, producer, agings, blobCrashes>>

-----------------------------------------------------------------------------
\* The minimum collection age (hours) elapses.  A publication takes less, so
\* none is in progress; a collection judges every age by the time at which it
\* started, so what elapses while it runs does not count.
MinimumAgeElapses ==
  /\ agings < MaxAgings /\ collector.pc = "idle"
  /\ \A p \in Producers : producer[p].pc = "idle"
  /\ agings' = agings + 1
  /\ blob' = [d \in Digests |-> IF blob[d] = "young" THEN "old" ELSE blob[d]]
  /\ temporary' = [p \in Producers |->
                     IF temporary[p] = "young" THEN "old" ELSE temporary[p]]
  /\ UNCHANGED <<referenced, producer, collector, blobCrashes>>

\* The daemon dies: blobs, temporaries and rows stay as they are.
DaemonDies ==
  /\ blobCrashes < MaxBlobCrashes
  /\ blobCrashes' = blobCrashes + 1
  /\ producer' = [p \in Producers |-> IdleProducer]
  /\ collector' = IdleCollector
  /\ UNCHANGED <<blob, temporary, referenced, agings>>

ArtifactInit ==
  /\ blob = [d \in Digests |-> "absent"]
  /\ temporary = [p \in Producers |-> "none"]
  /\ referenced = {}
  /\ producer = [p \in Producers |-> IdleProducer]
  /\ collector = IdleCollector
  /\ agings = 0 /\ blobCrashes = 0

ArtifactNext ==
  \/ \E p \in Producers :
       \/ \E d \in Digests : WriteTemporary(p, d)
       \/ Publish(p) \/ CommitReference(p) \/ RemoveTemporary(p)
  \/ StartCollection \/ (\E d \in Digests : InspectBlob(d)) \/ RemoveBlob
  \/ FinishCollection \/ MinimumAgeElapses \/ DaemonDies

ArtifactSpec == ArtifactInit /\ [][ArtifactNext]_artifactVars

-----------------------------------------------------------------------------
(* Properties.                                                             *)

ArtifactTypeOK ==
  /\ blob \in [Digests -> {"absent", "young", "old"}]
  /\ temporary \in [Producers -> {"none", "young", "old"}]
  /\ referenced \subseteq Digests
  /\ producer \in [Producers -> [pc : {"idle", "written", "published"},
                                 digest : Digests]]
  /\ collector.pc \in {"idle", "scanning", "removing"}
  /\ agings \in 0..MaxAgings /\ blobCrashes \in 0..MaxBlobCrashes

\* The collector never removes a blob that was referenced, or published and
\* about to be, when it looked at the file: rows committed after its snapshot
\* are protected by the refreshed age alone.
RetainsHeld ==
  [][\A d \in Digests :
       (blob[d] # "absent" /\ blob'[d] = "absent") =>
         d \notin collector.seen]_artifactVars
=============================================================================
