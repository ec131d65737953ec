--------------------------- MODULE GovernedMemory ---------------------------
(***************************************************************************)
(* Governed memory: the owner's remembered facts, their revisions, the     *)
(* authorizations that let a sensitive revision become active, and the     *)
(* lexical index retrieval reads.                                          *)
(*                                                                         *)
(* Every operation of the store is one immediate transaction and is one    *)
(* action here; the triggers of migration 0009 run inside it.  A caller    *)
(* names the revision it last saw, and may name an old one.  `epochs` is    *)
(* the list of context epochs: an owner may touch the memories of a         *)
(* workspace only when some session of theirs has had an epoch in it.       *)
(***************************************************************************)
EXTENDS Integers, Sequences, FiniteSets

CONSTANTS Memories,            \* logical memory identifiers
          MemWorkspaces,       \* workspace identities
          MaxMemRevision       \* bound: changes of one memory row

ASSUME MemoryAssumption == MaxMemRevision \in Nat /\ MemWorkspaces # {}

VARIABLES memory,              \* memory and memory_revision rows
          memoryIndex,         \* memory_fts: the indexed <<memory, ordinal>>
          epochs               \* context_epoch rows, oldest first

memVars == <<memory, memoryIndex>>

MemoryStatus ==
  {"proposed", "active", "superseded", "expired", "rejected", "deleted"}

Retention == {"standard", "pinned"}

(* One revision; `content` says whether its text is still stored, and      *)
(* `authorized` whether an owner authorization is bound to it.             *)
RevisionRow ==
  [status: MemoryStatus, content: BOOLEAN, restricted: BOOLEAN,
   authorized: BOOLEAN]

(* The logical memory with all its revisions in ordinal order.             *)
MemoryRow ==
  [status: MemoryStatus \cup {"none"}, revision: 0..MaxMemRevision,
   workspace: MemWorkspaces, sensitive: BOOLEAN,
   retention: Retention, revisions: Seq(RevisionRow)]

Proposal(restricted) ==
  [status |-> "proposed", content |-> TRUE, restricted |-> restricted,
   authorized |-> FALSE]

LastRevision(m) == Len(memory[m].revisions)

RevisionsIn(row, status) ==
  {i \in DOMAIN row.revisions : row.revisions[i].status = status}

(* The caller has had an epoch in the memory's workspace.                  *)
AuthorizedWorkspaces == {epochs[i].workspace : i \in DOMAIN epochs}

MemoryInit ==
  /\ memory = [m \in Memories |->
       [status |-> "none", revision |-> 0,
        workspace |-> CHOOSE w \in MemWorkspaces : TRUE,
        sensitive |-> FALSE, retention |-> "standard", revisions |-> <<>>]]
  /\ memoryIndex = {}

(* The index trigger takes out every entry of an updated revision and       *)
(* re-enters the ones the update left active.                               *)
FtsUpdate(m, row) ==
  {e \in memoryIndex : e[1] # m} \cup {<<m, i>> : i \in RevisionsIn(row, "active")}

(* Row m is replaced and its revision counter raised, in one transaction.   *)
Store(m, row) ==
  /\ memory[m].revision < MaxMemRevision
  /\ memory' = [memory EXCEPT ![m] = [row EXCEPT !.revision = @ + 1]]
  /\ memoryIndex' = FtsUpdate(m, row)

Mutable(m, expected) ==
  /\ memory[m].workspace \in AuthorizedWorkspaces
  /\ memory[m].revision = expected

ActiveForMutation(m, expected) ==
  Mutable(m, expected) /\ memory[m].status = "active"

(* A sensitive category or a restricted revision is activated only with an *)
(* owner authorization; the activation trigger asks for the same.          *)
PromotionAuthorized(sensitive, restricted, authorized) ==
  (sensitive \/ restricted) => authorized

(* An authorization is bound to one revision before it is activated.        *)
RecordAuthorization(revision, authorized) == [revision EXCEPT !.authorized = authorized]

ProposeMemory(m, w, sensitive, restricted, retention) ==
  /\ w \in AuthorizedWorkspaces
  /\ memory[m].status = "none"
  /\ memory' = [memory EXCEPT ![m] =
       [status |-> "proposed", revision |-> 0, workspace |-> w,
        sensitive |-> sensitive, retention |-> retention,
        revisions |-> <<Proposal(restricted)>>]]
  /\ UNCHANGED memoryIndex

RevisionForMutation(m) ==
  memory[m].workspace \in AuthorizedWorkspaces /\ memory[m].revisions # <<>>

PromoteMemory(m, authorized) ==
  LET row == memory[m] IN
  /\ RevisionForMutation(m)
  /\ row.status = "proposed"
  /\ row.revisions[1].status = "proposed"
  /\ PromotionAuthorized(row.sensitive, row.revisions[1].restricted, authorized)
  /\ Store(m, [row EXCEPT !.status = "active", !.revisions[1] =
       [RecordAuthorization(@, authorized) EXCEPT !.status = "active"]])

(* The active revision is superseded by the corrected one.                  *)
Superseded(m, restricted, authorized) ==
  Append([memory[m].revisions EXCEPT ![LastRevision(m)].status = "superseded"],
         [RecordAuthorization(Proposal(restricted), authorized) EXCEPT !.status = "active"])

CorrectUnderOldSensitivity(m, expected, restricted, authorized, retention) ==
  LET row == memory[m] IN
  /\ ActiveForMutation(m, expected)
  /\ PromotionAuthorized(row.sensitive, row.revisions[LastRevision(m)].restricted, authorized)
  /\ Store(m, [row EXCEPT !.retention = retention,
                          !.revisions = Superseded(m, restricted, authorized)])

(* A correction is authorized under its own sensitivity.                    *)
CorrectMemory(m, expected, restricted, authorized, retention) ==
  LET row == memory[m] IN
  /\ ActiveForMutation(m, expected)
  /\ PromotionAuthorized(row.sensitive, restricted, authorized)
  /\ Store(m, [row EXCEPT !.retention = retention,
                          !.revisions = Superseded(m, restricted, authorized)])

SetMemoryPin(m, expected, pinned) ==
  /\ ActiveForMutation(m, expected)
  /\ Store(m, [memory[m] EXCEPT !.retention =
       IF pinned THEN "pinned" ELSE "standard"])

RejectMemory(m, expected) ==
  /\ Mutable(m, expected)
  /\ memory[m].status = "proposed"
  /\ memory[m].revisions[1].status = "proposed"
  /\ Store(m, [memory[m] EXCEPT !.status = "rejected",
                                !.revisions[1].status = "rejected"])

(* A revision in `from` becomes `target`; a scrub also drops its text.      *)
RetiredRevision(r, from, target, scrub) ==
  IF r.status \in from
  THEN [r EXCEPT !.status = target, !.content = @ /\ ~scrub]
  ELSE r

Retired(row, from, target, scrub) ==
  [row EXCEPT !.status = target, !.revisions =
     [i \in DOMAIN row.revisions |->
        RetiredRevision(row.revisions[i], from, target, scrub)]]

(* The memory leaves retrieval with at least one of its revisions.          *)
TransitionOutOfRetrieval(m, expected, from, target, scrub) ==
  /\ Mutable(m, expected)
  /\ memory[m].status \notin {"none", "deleted"}
  /\ \E i \in DOMAIN memory[m].revisions : memory[m].revisions[i].status \in from
  /\ Store(m, Retired(memory[m], from, target, scrub))

ExpireMemory(m, expected) ==
  TransitionOutOfRetrieval(m, expected, {"active"}, "expired", FALSE)

DeleteMemory(m, expected) ==
  TransitionOutOfRetrieval(m, expected, MemoryStatus \ {"deleted"}, "deleted", TRUE)

RebuiltIndex ==
  {e \in Memories \X (1..MaxMemRevision + 1) :
      /\ memory[e[1]].status = "active"
      /\ e[2] \in RevisionsIn(memory[e[1]], "active")
      /\ memory[e[1]].revisions[e[2]].content}

RebuildMemoryIndex ==
  /\ epochs # <<>>
  /\ memoryIndex' = RebuiltIndex
  /\ UNCHANGED memory

MemoryNext ==
  \/ \E m \in Memories, w \in MemWorkspaces, s, r \in BOOLEAN, k \in Retention :
        ProposeMemory(m, w, s, r, k)
  \/ \E m \in Memories, a \in BOOLEAN : PromoteMemory(m, a)
  \/ \E m \in Memories, e \in 0..MaxMemRevision :
        \/ \E r, a \in BOOLEAN, k \in Retention : CorrectMemory(m, e, r, a, k)
        \/ \E p \in BOOLEAN : SetMemoryPin(m, e, p)
        \/ RejectMemory(m, e)
        \/ ExpireMemory(m, e)
        \/ DeleteMemory(m, e)
  \/ RebuildMemoryIndex

(* The memories under any behaviour of the sessions: `epochs' is free.      *)
MemorySpec == MemoryInit /\ [][MemoryNext]_memVars

(* What a retrieval for workspace w returns: the indexed revisions of      *)
(* active memories of that workspace, restricted ones left out.            *)
Retrievable(w) ==
  {e \in memoryIndex :
      /\ memory[e[1]].status = "active"
      /\ memory[e[1]].workspace = w
      /\ memory[e[1]].revisions[e[2]].status = "active"
      /\ ~memory[e[1]].revisions[e[2]].restricted}

(* The domain's transition table of a logical memory; a correction and a   *)
(* pin keep an active memory active.                                       *)
MemoryAllowed ==
  {<<"none", "proposed">>, <<"proposed", "active">>, <<"proposed", "rejected">>,
   <<"proposed", "deleted">>, <<"active", "superseded">>, <<"active", "expired">>,
   <<"active", "deleted">>, <<"superseded", "deleted">>, <<"expired", "deleted">>,
   <<"rejected", "deleted">>}

-----------------------------------------------------------------------------
(* The rows keep their shape (memory, memory_revision, memory_fts).        *)
MemoryTypeOK ==
  /\ memory \in [Memories -> MemoryRow]
  /\ memoryIndex \subseteq Memories \X (1..MaxMemRevision + 1)

(* The index holds exactly the revisions retrieval may return, whatever     *)
(* the order of corrections, expiries, deletions and rebuilds, and a memory *)
(* has one active revision exactly while it is active (validate_view,       *)
(* memory_revision_fts_update).                                             *)
IndexIsActive ==
  \A m \in Memories :
    LET active == RevisionsIn(memory[m], "active") IN
    /\ {e[2] : e \in {x \in memoryIndex : x[1] = m}} = active
    /\ Cardinality(active) = (IF memory[m].status = "active" THEN 1 ELSE 0)

(* No revision ever active in a sensitive memory, or as restricted text,    *)
(* lacks its owner's authorization: a correction that raises the            *)
(* sensitivity needs one of its own (validate_promotion_authorization).     *)
SensitiveIsAuthorized ==
  \A m \in Memories : \A i \in DOMAIN memory[m].revisions :
    LET r == memory[m].revisions[i] IN
    /\ r.status \in {"active", "superseded", "expired"}
    /\ memory[m].sensitive \/ r.restricted
    => r.authorized

(* A memory moves only along the transitions of the domain's state machine  *)
(* (MemoryState::transition), whichever revision its caller last saw; the   *)
(* store's SQL never calls that machine.                                    *)
MemoryFollowsDomain ==
  [][\A m \in Memories : memory'[m].status # memory[m].status =>
        <<memory[m].status, memory'[m].status>> \in MemoryAllowed]_memVars

(* Deleting a memory leaves none of its text behind, in its earlier         *)
(* revisions or in the index (transition_out_of_retrieval with scrub).      *)
DeletedIsScrubbed ==
  \A m \in Memories : memory[m].status = "deleted" =>
    /\ \A i \in DOMAIN memory[m].revisions : ~memory[m].revisions[i].content
    /\ \A e \in memoryIndex : e[1] # m

\* What governed memory promises after any sequence of commands: the index
\* holds exactly what may be retrieved, sensitive text was confirmed, and
\* deleted text is gone.
MemorySafety ==
  /\ MemoryTypeOK
  /\ IndexIsActive
  /\ SensitiveIsAuthorized
  /\ DeletedIsScrubbed
=============================================================================
