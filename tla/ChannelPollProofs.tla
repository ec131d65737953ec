-------------------------- MODULE ChannelPollProofs --------------------------
(***************************************************************************)
(* Proofs about ChannelPoll, for both platforms, any number of messages,   *)
(* any page size and backlog, and any number of crashes.                   *)
(***************************************************************************)
EXTENDS ChannelPoll, TLAPS

USE PollAssumption

(***************************************************************************)
(* The inductive invariant.  Its heart is the shape of a batch: the        *)
(* messages the driver holds have consecutive ids, and once the batch is   *)
(* complete everything posted before its oldest message has its terminal   *)
(* receipt.                                                                *)
(***************************************************************************)
Posts == [what : PostKinds, edits : 0 .. MaxEdits]
CpBodies == [what : PostKinds, edits : 0 .. MaxEdits, got : {"none", "text", "ignored"}]
Messages == [id : Ids, body : CpBodies]
Receipts ==
    [state : {"reserved", "admitted", "ignored"}, digest : CpBodies,
     reason : {"", "approval_approved", "approval_resolution_rejected", "unsupported"}]
Polls ==
    [phase : {"idle", "paging", "fetched", "reserve", "act", "complete"},
     messages : SUBSET Messages, before : Nat]

CpTyped ==
    /\ kind \in {"telegram", "discord"} /\ kind \in Kinds
    /\ cpFeed \in Seq(Posts) /\ Len(cpFeed) <= MaxPosts
    /\ cpBinding \in ChannelRows
    /\ receipts \in [Ids -> {NoReceipt} \cup Receipts]
    /\ cpInbox \in Seq(Messages)
    /\ cpPending \in 0 .. MaximumPending
    /\ cpApproval \in [state : {"pending", "approved", "denied"}, by : 0 .. MaxPosts]
    /\ poll \in Polls
    /\ admin \in {"none", "registering", "revoking"}
    /\ cpCrashes \in Nat

(* The batch has the messages lo .. hi, each once. *)
Spans(lo, hi) ==
    /\ \A m \in poll.messages : lo <= m.id /\ m.id <= hi
    /\ \A i \in lo .. hi : \E m \in poll.messages : m.id = i
BatchDiffers == \A m, n \in poll.messages : m.id = n.id => m = n

(* What was posted after the registration and before lo is dealt with. *)
DoneBelow(lo) == \A i \in Posted : cpBinding.first <= i /\ i < lo => Terminal(i)

BatchIsRun ==
    poll.messages # {} =>
        \E lo \in Posted, hi \in Posted :
            /\ Spans(lo, hi) /\ cpBinding.first <= lo
            /\ IF poll.phase = "paging" THEN lo = poll.before /\ cpBinding.cursor < lo
                                        ELSE DoneBelow(lo)

PhaseAgrees ==
    /\ poll.phase = "idle" => poll.messages = {}
    /\ poll.phase \in {"paging", "reserve", "act", "complete"} => poll.messages # {}
    /\ poll.phase = "paging" => kind = "discord"
    /\ poll.phase # "idle" => cpBinding.status # "absent"

HeadReserved ==
    poll.phase \in {"act", "complete"} =>
        /\ receipts[Head1.id].state = "reserved"
        /\ receipts[Head1.id].digest = Head1.body
HeadAdmitted ==
    poll.phase = "complete" /\ InboundAction(Head1.body) = "input" =>
        \E k \in 1 .. Len(cpInbox) : cpInbox[k].id = Head1.id

CursorFrom ==
    cpBinding.status # "absent" =>
        /\ cpBinding.first <= cpBinding.cursor + 1 /\ cpBinding.cursor <= Len(cpFeed) + 1
        /\ kind = "telegram" => cpBinding.first <= cpBinding.cursor
        /\ kind = "discord" => cpBinding.cursor <= Len(cpFeed)

InboxIsInput ==
    \A k \in 1 .. Len(cpInbox) :
        /\ InboundAction(cpInbox[k].body) = "input" /\ cpInbox[k].id \in Posted
        /\ DoneBelow(cpInbox[k].id)

ApprovalBy ==
    /\ cpApproval.state = "pending" => cpApproval.by = 0
    /\ cpApproval.by # 0 =>
          /\ receipts[cpApproval.by].state # "none"
          /\ InboundAction(receipts[cpApproval.by].digest) = "approval"

AdminAgrees ==
    /\ admin = "registering" => cpBinding.status = "absent" /\ cpBinding.secret
    /\ admin = "revoking" => cpBinding.status = "active" /\ ~cpBinding.secret

BatchInv == BatchDiffers /\ BatchIsRun /\ PhaseAgrees /\ HeadReserved /\ HeadAdmitted
RowsInv ==
    /\ CursorFrom /\ InboxIsInput /\ ApprovalBy
    /\ CursorCovers /\ AdmittedOnceInOrder /\ ApprovalTruthful
AdminInv == AdminAgrees /\ CredentialFollowsBinding

CpInv == CpTyped /\ BatchInv /\ RowsInv /\ AdminInv

-----------------------------------------------------------------------------
(* The constants and the fields of the rows have their types. *)
LEMMA Bounds ==
  /\ MaxPosts \in Nat /\ PageSize \in Nat /\ 1 <= PageSize /\ MaxEdits \in Nat
  /\ MaximumPending \in Nat /\ FailureCap \in Nat /\ MaxCrashes \in Nat
  /\ Contents \subseteq PostKinds
  /\ 1 <= MaximumPending /\ 1 <= FailureCap
  <1>1. /\ MaxPosts \in Nat \ {0} /\ PageSize \in Nat \ {0}
        /\ MaximumPending \in Nat \ {0} /\ FailureCap \in Nat \ {0}
        /\ MaxEdits \in Nat /\ MaxCrashes \in Nat /\ Contents \subseteq PostKinds
    BY Zenon DEF PollAssumption
  <1> QED
    BY <1>1

LEMMA PostedIds ==
  ASSUME CpTyped
  PROVE  /\ Len(cpFeed) \in Nat /\ Posted \subseteq Ids
         /\ \A i \in Ids : i \in Nat /\ 1 <= i /\ i <= MaxPosts
         /\ \A i : i \in Posted <=> i \in Nat /\ 1 <= i /\ i <= Len(cpFeed)
  <1>1. cpFeed \in Seq(Posts) /\ Len(cpFeed) <= MaxPosts /\ MaxPosts \in Nat
    BY Bounds, Zenon DEF CpTyped
  <1>2. Len(cpFeed) \in Nat
    BY <1>1
  <1> QED
    BY <1>1, <1>2, SMT DEF Posted, Ids

LEMMA BindingFields ==
  ASSUME CpTyped
  PROVE  /\ cpBinding.status \in {"absent", "active", "revoked"}
         /\ cpBinding.secret \in BOOLEAN
         /\ cpBinding.cursor \in Nat /\ cpBinding.cursor <= MaxPosts + 1
         /\ cpBinding.first \in Nat /\ cpBinding.first <= MaxPosts + 1
         /\ cpBinding.failures \in Nat /\ cpBinding.failures <= FailureCap
  <1>1. /\ cpBinding.status \in {"absent", "active", "revoked"}
        /\ cpBinding.secret \in BOOLEAN /\ cpBinding.cursor \in 0 .. MaxPosts + 1
        /\ cpBinding.first \in 0 .. MaxPosts + 1 /\ cpBinding.failures \in 0 .. FailureCap
    BY Zenon DEF CpTyped, ChannelRows
  <1> QED
    BY <1>1, Bounds

LEMMA PollFields ==
  ASSUME CpTyped
  PROVE  /\ poll.phase \in {"idle", "paging", "fetched", "reserve", "act", "complete"}
         /\ poll.messages \subseteq Messages /\ poll.before \in Nat
         /\ \A m \in poll.messages : m.id \in Ids /\ m.id \in Nat /\ m.body \in CpBodies
  <1>1. /\ poll.phase \in {"idle", "paging", "fetched", "reserve", "act", "complete"}
        /\ poll.messages \subseteq Messages /\ poll.before \in Nat
    BY Zenon DEF CpTyped, Polls
  <1>2. \A m \in poll.messages : m.id \in Ids /\ m.body \in CpBodies
    BY <1>1, Zenon DEF Messages
  <1> QED
    BY <1>1, <1>2, PostedIds, Zenon

(* The oldest message of a batch. *)
LEMMA HeadOf ==
  ASSUME CpTyped, BatchDiffers, NEW lo \in Nat, NEW hi \in Nat, Spans(lo, hi),
         poll.messages # {}
  PROVE  /\ Head1 \in poll.messages /\ Head1.id = lo /\ lo <= hi
         /\ Head1 \in Messages /\ Head1.body \in CpBodies
  <1>1. \A m \in poll.messages : lo <= m.id /\ m.id <= hi /\ m.id \in Nat
    BY PollFields, Zenon DEF Spans
  <1>2. lo <= hi /\ lo \in lo .. hi
    <2>1. PICK m \in poll.messages : TRUE
      BY Zenon
    <2>2. lo <= m.id /\ m.id <= hi /\ m.id \in Nat
      BY <1>1, <2>1, Zenon
    <2> QED
      BY <2>2
  <1>3. PICK m \in poll.messages : m.id = lo
    BY <1>2, Zenon DEF Spans
  <1>4. \A n \in poll.messages : m.id <= n.id
    BY <1>1, <1>3, Zenon
  <1>5. Head1 \in poll.messages /\ \A n \in poll.messages : Head1.id <= n.id
    BY <1>3, <1>4, Zenon DEF Head1
  <1>6. Head1.id <= lo /\ lo <= Head1.id /\ Head1.id \in Nat
    BY <1>1, <1>3, <1>5, Zenon
  <1>7. Head1.id = lo
    BY <1>6
  <1> QED
    BY <1>2, <1>5, <1>7, PollFields, Zenon

HeadFacts ==
    /\ Head1 \in poll.messages /\ Head1 \in Messages /\ Head1.body \in CpBodies
    /\ Head1.id \in Posted /\ Head1.id \in Ids /\ Head1.id \in Nat
    /\ cpBinding.first <= Head1.id /\ DoneBelow(Head1.id)
    /\ \E hi \in Posted : Spans(Head1.id, hi)
    /\ cpBinding.status # "absent"

LEMMA HeadHasFacts ==
  ASSUME CpInv, poll.phase \in {"reserve", "act", "complete"}
  PROVE  HeadFacts
  <1>1. CpTyped /\ BatchDiffers /\ poll.messages # {} /\ cpBinding.status # "absent"
    <2>1. poll.phase # "idle"
      OBVIOUS
    <2> QED
      BY <2>1, Zenon DEF CpInv, BatchInv, PhaseAgrees
  <1>2. PICK lo \in Posted, hi \in Posted :
           Spans(lo, hi) /\ cpBinding.first <= lo /\ DoneBelow(lo)
    <2>1. poll.phase # "paging"
      OBVIOUS
    <2> QED
      BY <1>1, <2>1, Zenon DEF CpInv, BatchInv, BatchIsRun
  <1>3. lo \in Nat /\ hi \in Nat /\ lo \in Ids
    BY <1>1, <1>2, PostedIds, Zenon
  <1>4. /\ Head1 \in poll.messages /\ Head1.id = lo
        /\ Head1 \in Messages /\ Head1.body \in CpBodies
    BY <1>1, <1>2, <1>3, HeadOf, Zenon
  <1> QED
    BY <1>1, <1>2, <1>3, <1>4, Zenon DEF HeadFacts

-----------------------------------------------------------------------------
(* What a step leaves alone. *)
FieldsAlike ==
    /\ kind' = kind /\ Len(cpFeed') = Len(cpFeed)
    /\ cpBinding'.status # "absent" <=> cpBinding.status # "absent"
    /\ cpBinding'.cursor = cpBinding.cursor
    /\ cpBinding'.first = cpBinding.first
RowsAlike ==
    /\ FieldsAlike /\ receipts' = receipts /\ cpInbox' = cpInbox
    /\ cpApproval' = cpApproval

LEMMA ActionsAlike ==
  ASSUME kind' = kind, NEW b
  PROVE  InboundAction(b)' = InboundAction(b)
  BY DEF InboundAction, TelegramUpdateAction, DiscordMessageAction

LEMMA DoneAlike ==
  ASSUME Len(cpFeed') = Len(cpFeed), cpBinding'.first = cpBinding.first,
         receipts' = receipts, NEW i
  PROVE  (DoneBelow(i)' <=> DoneBelow(i)) /\ (Terminal(i)' <=> Terminal(i))
  BY Zenon DEF DoneBelow, Terminal, Posted

LEMMA MostRowsKept ==
  ASSUME RowsInv, FieldsAlike, receipts' = receipts, cpInbox' = cpInbox,
         ApprovalBy', ApprovalTruthful'
  PROVE  RowsInv'
  <1>1. /\ kind' = kind /\ Len(cpFeed') = Len(cpFeed) /\ Posted' = Posted
        /\ cpBinding'.status # "absent" <=> cpBinding.status # "absent"
        /\ cpBinding'.cursor = cpBinding.cursor
        /\ cpBinding'.first = cpBinding.first
    BY Zenon DEF FieldsAlike, Posted
  <1>2. \A b : InboundAction(b)' = InboundAction(b)
    BY <1>1, ActionsAlike, Zenon
  <1>3. \A i : (DoneBelow(i)' <=> DoneBelow(i)) /\ (Terminal(i)' <=> Terminal(i))
    BY <1>1, DoneAlike, Zenon
  <1>4. CursorFrom'
    BY <1>1, Zenon DEF RowsInv, CursorFrom
  <1>5. InboxIsInput'
    BY <1>1, <1>2, <1>3, Zenon DEF RowsInv, InboxIsInput
  <1>6. CursorCovers'
    BY <1>1, <1>3, Zenon DEF RowsInv, CursorCovers, Behind
  <1>7. AdmittedOnceInOrder'
    BY <1>1, Zenon DEF RowsInv, AdmittedOnceInOrder
  <1> QED
    BY <1>4, <1>5, <1>6, <1>7, Zenon DEF RowsInv

LEMMA RowsKept ==
  ASSUME RowsInv, RowsAlike
  PROVE  RowsInv'
  <1>1. /\ FieldsAlike /\ kind' = kind
        /\ receipts' = receipts /\ cpInbox' = cpInbox /\ cpApproval' = cpApproval
    BY Zenon DEF RowsAlike, FieldsAlike
  <1>2. \A b : InboundAction(b)' = InboundAction(b)
    BY <1>1, ActionsAlike, Zenon
  <1>3. ApprovalBy'
    BY <1>1, <1>2, Zenon DEF RowsInv, ApprovalBy
  <1>4. ApprovalTruthful'
    BY <1>1, Zenon DEF RowsInv, ApprovalTruthful, Terminal
  <1> QED
    BY <1>1, <1>3, <1>4, MostRowsKept, Zenon

LEMMA BatchKept ==
  ASSUME BatchInv, FieldsAlike, receipts' = receipts, cpInbox' = cpInbox, poll' = poll
  PROVE  BatchInv'
  <1>1. /\ kind' = kind /\ Len(cpFeed') = Len(cpFeed) /\ Posted' = Posted
        /\ cpBinding'.status # "absent" <=> cpBinding.status # "absent"
        /\ cpBinding'.cursor = cpBinding.cursor
        /\ cpBinding'.first = cpBinding.first /\ Head1' = Head1
    BY Zenon DEF FieldsAlike, Posted, Head1
  <1>2. \A b : InboundAction(b)' = InboundAction(b)
    BY <1>1, ActionsAlike, Zenon
  <1>3. \A i : DoneBelow(i)' <=> DoneBelow(i)
    BY <1>1, DoneAlike, Zenon
  <1>4. \A lo, hi : Spans(lo, hi)' <=> Spans(lo, hi)
    BY Zenon DEF Spans
  <1>5. BatchDiffers' /\ PhaseAgrees'
    BY <1>1, Zenon DEF BatchInv, BatchDiffers, PhaseAgrees
  <1>6. BatchIsRun'
    <2>1. ASSUME poll.messages # {}
          PROVE  \E lo \in Posted, hi \in Posted :
                    /\ Spans(lo, hi)' /\ cpBinding.first <= lo
                    /\ IF poll.phase = "paging"
                       THEN lo = poll.before /\ cpBinding.cursor < lo
                       ELSE DoneBelow(lo)'
      BY <1>3, <1>4, <2>1, Zenon DEF BatchInv, BatchIsRun
    <2> QED
      BY <1>1, <2>1, Zenon DEF BatchIsRun
  <1>7. HeadReserved'
    BY <1>1, Zenon DEF BatchInv, HeadReserved
  <1>8. HeadAdmitted'
    BY <1>1, <1>2, Zenon DEF BatchInv, HeadAdmitted
  <1> QED
    BY <1>5, <1>6, <1>7, <1>8, Zenon DEF BatchInv

LEMMA NoBatch ==
  ASSUME poll'.phase = "idle", poll'.messages = {}
  PROVE  BatchInv'
  <1>1. BatchDiffers' /\ BatchIsRun'
    BY Zenon DEF BatchDiffers, BatchIsRun
  <1>2. PhaseAgrees' /\ HeadReserved' /\ HeadAdmitted'
    BY DEF PhaseAgrees, HeadReserved, HeadAdmitted
  <1> QED
    BY <1>1, <1>2, Zenon DEF BatchInv

LEMMA PollRests ==
  ASSUME poll' = Idle
  PROVE  BatchInv' /\ poll' \in Polls
  <1>1. poll'.phase = "idle" /\ poll'.messages = {}
    BY Zenon DEF Idle
  <1>2. poll' \in Polls
    BY SMT DEF Idle, Polls
  <1> QED
    BY <1>1, <1>2, NoBatch, Zenon

LEMMA AdminKept ==
  ASSUME AdminInv, cpBinding'.status = cpBinding.status,
         cpBinding'.secret = cpBinding.secret, admin' = admin, cpCrashes' = cpCrashes
  PROVE  AdminInv'
  <1>1. cpBinding'.secret <=> cpBinding.secret
    OBVIOUS
  <1> QED
    BY <1>1, Zenon DEF AdminInv, AdminAgrees, CredentialFollowsBinding

-----------------------------------------------------------------------------
(* The actions of the others: none of them touches the batch. *)
LEMMA EditKeeps ==
  ASSUME CpInv, NEW i \in Posted, EditMessage(i)
  PROVE  CpInv'
  <1>1. /\ kind' = kind /\ cpBinding' = cpBinding /\ receipts' = receipts
        /\ cpInbox' = cpInbox /\ cpPending' = cpPending /\ cpApproval' = cpApproval
        /\ poll' = poll /\ admin' = admin /\ cpCrashes' = cpCrashes
        /\ cpFeed[i].edits < MaxEdits
        /\ cpFeed' = [cpFeed EXCEPT ![i].edits = cpFeed[i].edits + 1]
    BY Zenon DEF EditMessage
  <1>2. cpFeed \in Seq(Posts) /\ i \in 1 .. Len(cpFeed) /\ Len(cpFeed) <= MaxPosts
    BY Zenon DEF CpInv, CpTyped, Posted
  <1>3. cpFeed[i] \in Posts
    BY <1>2
  <1> DEFINE row == [cpFeed[i] EXCEPT !.edits = cpFeed[i].edits + 1]
  <1>4. row \in Posts
    <2>1. cpFeed[i].edits \in 0 .. MaxEdits
      BY <1>3, Zenon DEF Posts
    <2>2. cpFeed[i].edits + 1 \in 0 .. MaxEdits
      BY <1>1, <2>1, Bounds
    <2> QED
      BY <1>3, <2>2, Zenon DEF Posts
  <1>5. cpFeed' = [cpFeed EXCEPT ![i] = row]
    BY <1>1
  <1> HIDE DEF row
  <1>6. cpFeed' \in Seq(Posts) /\ Len(cpFeed') = Len(cpFeed)
    BY <1>2, <1>4, <1>5
  <1>7. CpTyped'
    BY <1>1, <1>2, <1>6, Zenon DEF CpInv, CpTyped
  <1>8. RowsAlike
    BY <1>1, <1>6, Zenon DEF RowsAlike, FieldsAlike
  <1>9. BatchInv' /\ RowsInv' /\ AdminInv'
    BY <1>1, <1>8, RowsKept, BatchKept, AdminKept, Zenon DEF CpInv, RowsAlike
  <1> QED
    BY <1>7, <1>9, Zenon DEF CpInv

LEMMA PromoteKeeps ==
  ASSUME CpInv, PromoteOne
  PROVE  CpInv'
  <1>1. /\ kind' = kind /\ cpFeed' = cpFeed /\ cpBinding' = cpBinding
        /\ receipts' = receipts /\ cpInbox' = cpInbox /\ cpApproval' = cpApproval
        /\ poll' = poll /\ admin' = admin /\ cpCrashes' = cpCrashes
        /\ cpPending > 0 /\ cpPending' = cpPending - 1
    BY Zenon DEF PromoteOne
  <1>2. cpPending \in 0 .. MaximumPending
    BY Zenon DEF CpInv, CpTyped
  <1>3. cpPending' \in 0 .. MaximumPending
    BY <1>1, <1>2, Bounds
  <1>4. CpTyped'
    BY <1>1, <1>3, Zenon DEF CpInv, CpTyped
  <1>5. RowsAlike
    BY <1>1, Zenon DEF RowsAlike, FieldsAlike
  <1>6. BatchInv' /\ RowsInv' /\ AdminInv'
    BY <1>1, <1>5, RowsKept, BatchKept, AdminKept, Zenon DEF CpInv, RowsAlike
  <1> QED
    BY <1>4, <1>6, Zenon DEF CpInv

(* Only the credential, the status and the command in progress change. *)
LEMMA CommandKeeps ==
  ASSUME CpInv, cpBinding' \in ChannelRows,
         cpBinding'.status # "absent" <=> cpBinding.status # "absent",
         cpBinding'.cursor = cpBinding.cursor, cpBinding'.first = cpBinding.first,
         admin' \in {"none", "registering", "revoking"}, AdminInv',
         UNCHANGED <<kind, cpFeed, receipts, cpInbox, cpPending, cpApproval, poll,
                     cpCrashes>>
  PROVE  CpInv'
  <1>1. /\ kind' = kind /\ cpFeed' = cpFeed /\ receipts' = receipts
        /\ cpInbox' = cpInbox /\ cpPending' = cpPending /\ cpApproval' = cpApproval
        /\ poll' = poll /\ cpCrashes' = cpCrashes
    BY Zenon
  <1>2. CpTyped'
    BY <1>1, Zenon DEF CpInv, CpTyped
  <1>3. RowsAlike
    BY <1>1, Zenon DEF RowsAlike, FieldsAlike
  <1>4. BatchInv' /\ RowsInv'
    BY <1>1, <1>3, RowsKept, BatchKept, Zenon DEF CpInv, RowsAlike
  <1> QED
    BY <1>2, <1>4, Zenon DEF CpInv

LEMMA CredentialStepKeeps ==
  ASSUME CpInv, StoreCredential \/ RegisterConflict \/ RemoveCredential
  PROVE  CpInv'
  <1> DEFINE Written(secret) == cpBinding' = [cpBinding EXCEPT !.secret = secret]
  <1>1. cpBinding \in ChannelRows
    BY Zenon DEF CpInv, CpTyped
  <1>2. UNCHANGED <<kind, cpFeed, receipts, cpInbox, cpPending, cpApproval, poll, cpCrashes>>
    BY Zenon DEF StoreCredential, RegisterConflict, RemoveCredential
  <1>3. \/ /\ admin = "none" /\ admin' = "registering" /\ cpBinding.status = "absent"
           /\ Written(TRUE)
        \/ admin = "registering" /\ admin' = "none" /\ Written(FALSE)
        \/ /\ admin = "none" /\ admin' = "revoking" /\ cpBinding.status = "active"
           /\ Written(FALSE)
    BY Zenon DEF StoreCredential, RegisterConflict, RemoveCredential,
          CreateTelegramChannel, CreateDiscordChannel, RemoveTelegramCredential,
          RemoveDiscordCredential
  <1>4. ASSUME NEW secret \in BOOLEAN, Written(secret)
        PROVE  /\ cpBinding' \in ChannelRows /\ cpBinding'.secret = secret
               /\ cpBinding'.status = cpBinding.status
               /\ cpBinding'.cursor = cpBinding.cursor
               /\ cpBinding'.first = cpBinding.first
    BY <1>1, <1>4, Zenon DEF ChannelRows
  <1> HIDE DEF Written
  <1>5. /\ cpBinding' \in ChannelRows /\ cpBinding'.status = cpBinding.status
        /\ cpBinding'.cursor = cpBinding.cursor /\ cpBinding'.first = cpBinding.first
        /\ admin' \in {"none", "registering", "revoking"}
    BY <1>3, <1>4, Zenon
  <1>6. AdminInv'
    <2>1. CASE admin' = "registering" /\ cpBinding.status = "absent" /\ Written(TRUE)
      <3>1. cpBinding'.secret = TRUE
        BY <1>4, <2>1, Zenon
      <3> QED
        BY <1>5, <2>1, <3>1 DEF AdminInv, AdminAgrees, CredentialFollowsBinding
    <2>2. CASE admin = "registering" /\ admin' = "none" /\ Written(FALSE)
      <3>1. cpBinding'.secret = FALSE /\ cpBinding.status = "absent"
        BY <1>4, <2>2, Zenon DEF CpInv, AdminInv, AdminAgrees
      <3> QED
        BY <1>5, <2>2, <3>1 DEF AdminInv, AdminAgrees, CredentialFollowsBinding
    <2>3. CASE admin' = "revoking" /\ cpBinding.status = "active" /\ Written(FALSE)
      <3>1. cpBinding'.secret = FALSE
        BY <1>4, <2>3, Zenon
      <3> QED
        BY <1>5, <2>3, <3>1 DEF AdminInv, AdminAgrees, CredentialFollowsBinding
    <2> QED
      BY <1>3, <2>1, <2>2, <2>3, Zenon
  <1> QED
    BY <1>2, <1>5, <1>6, CommandKeeps, Zenon

LEMMA RevokeKeeps ==
  ASSUME CpInv, RevokeChannel
  PROVE  CpInv'
  <1>1. /\ admin = "revoking" /\ admin' = "none"
        /\ cpBinding' = [cpBinding EXCEPT !.status = "revoked"]
        /\ UNCHANGED <<kind, cpFeed, receipts, cpInbox, cpPending, cpApproval, poll,
                       cpCrashes>>
    BY Zenon DEF RevokeChannel, RevokeTelegramChannel, RevokeDiscordChannel
  <1>2. cpBinding \in ChannelRows /\ cpBinding.status = "active" /\ ~cpBinding.secret
    BY <1>1, Zenon DEF CpInv, CpTyped, AdminInv, AdminAgrees
  <1>3. /\ cpBinding' \in ChannelRows /\ cpBinding'.secret = cpBinding.secret
        /\ cpBinding'.status = "revoked" /\ cpBinding'.cursor = cpBinding.cursor
        /\ cpBinding'.first = cpBinding.first
    BY <1>1, <1>2, Zenon DEF ChannelRows
  <1>4. ~cpBinding'.secret
    BY <1>2, <1>3
  <1>5. AdminInv'
    BY <1>1, <1>3, <1>4 DEF AdminInv, AdminAgrees, CredentialFollowsBinding
  <1>6. cpBinding'.status # "absent" /\ cpBinding.status # "absent"
    BY <1>2, <1>3
  <1> QED
    BY <1>1, <1>3, <1>5, <1>6, CommandKeeps, Zenon

LEMMA PostKeeps ==
  ASSUME CpInv, NEW what \in Contents, Post(what)
  PROVE  CpInv'
  <1>1. /\ kind' = kind /\ cpBinding' = cpBinding /\ receipts' = receipts
        /\ cpInbox' = cpInbox /\ cpPending' = cpPending /\ cpApproval' = cpApproval
        /\ poll' = poll /\ admin' = admin /\ cpCrashes' = cpCrashes
        /\ Len(cpFeed) < MaxPosts
        /\ cpFeed' = Append(cpFeed, [what |-> what, edits |-> 0])
    BY Zenon DEF Post
  <1> DEFINE n == Len(cpFeed) + 1
             row == [what |-> what, edits |-> 0]
  <1>2. cpFeed \in Seq(Posts) /\ Len(cpFeed) \in Nat /\ MaxPosts \in Nat /\ CpTyped
    BY PostedIds, Bounds, Zenon DEF CpInv, CpTyped
  <1>3. row \in Posts
    <2>1. what \in PostKinds /\ 0 \in 0 .. MaxEdits
      BY Bounds
    <2> QED
      BY <2>1, Zenon DEF Posts
  <1> HIDE DEF row
  <1>4. cpFeed' \in Seq(Posts) /\ Len(cpFeed') = n /\ Len(cpFeed') <= MaxPosts
    <2>1. cpFeed' = Append(cpFeed, row)
      BY <1>1, Zenon DEF row
    <2>2. cpFeed' \in Seq(Posts) /\ Len(cpFeed') = n
      BY <1>2, <1>3, <2>1
    <2> QED
      BY <1>1, <1>2, <2>2
  <1>5. CpTyped'
    BY <1>1, <1>4, Zenon DEF CpInv, CpTyped
  <1>6. /\ Posted \subseteq Posted'
        /\ \A i \in Posted' : i \in Posted \/ i = n
        /\ \A i \in Posted : i < n /\ ~(n < i)
        /\ n \in Nat
    BY <1>2, <1>4 DEF Posted
  <1>7. \A b : InboundAction(b)' = InboundAction(b)
    BY <1>1, ActionsAlike, Zenon
  <1>8. \A i : Terminal(i)' <=> Terminal(i)
    BY <1>1, Zenon DEF Terminal
  <1>9. ASSUME NEW i \in Posted, DoneBelow(i) PROVE DoneBelow(i)'
    BY <1>1, <1>6, <1>8, <1>9, Zenon DEF DoneBelow
  <1>10. AdminInv'
    BY <1>1, AdminKept, Zenon DEF CpInv
  <1> HIDE DEF n
  <1>11. BatchInv'
    <2>1. Head1' = Head1
      BY <1>1, Zenon DEF Head1
    <2>2. \A lo, hi : Spans(lo, hi) => Spans(lo, hi)'
      BY <1>1, Zenon DEF Spans
    <2>3. BatchDiffers' /\ PhaseAgrees'
      BY <1>1, Zenon DEF CpInv, BatchInv, BatchDiffers, PhaseAgrees
    <2>4. HeadReserved' /\ HeadAdmitted'
      BY <1>1, <1>7, <2>1, Zenon DEF CpInv, BatchInv, HeadReserved, HeadAdmitted
    <2>5. BatchIsRun'
      <3>1. ASSUME poll.messages # {}
            PROVE  \E lo \in Posted', hi \in Posted' :
                      /\ Spans(lo, hi)' /\ cpBinding.first <= lo
                      /\ IF poll.phase = "paging"
                         THEN lo = poll.before /\ cpBinding.cursor < lo
                         ELSE DoneBelow(lo)'
        <4>1. PICK lo \in Posted, hi \in Posted :
                 /\ Spans(lo, hi) /\ cpBinding.first <= lo
                 /\ IF poll.phase = "paging"
                    THEN lo = poll.before /\ cpBinding.cursor < lo
                    ELSE DoneBelow(lo)
          BY <3>1, Zenon DEF CpInv, BatchInv, BatchIsRun
        <4>2. lo \in Posted' /\ hi \in Posted'
          BY <1>6, Zenon
        <4> QED
          BY <1>9, <2>2, <4>1, <4>2, Zenon
      <3> QED
        BY <1>1, <3>1, Zenon DEF BatchIsRun
    <2> QED
      BY <2>3, <2>4, <2>5, Zenon DEF BatchInv
  <1>12. RowsInv'
    <2>1. cpBinding.cursor \in Nat
      BY <1>2, BindingFields, Zenon
    <2>2. CursorFrom'
      <3>1. ASSUME cpBinding.status # "absent"
            PROVE  /\ cpBinding.cursor <= Len(cpFeed') + 1
                   /\ kind = "discord" => cpBinding.cursor <= Len(cpFeed')
        <4>1. /\ cpBinding.cursor <= Len(cpFeed) + 1
              /\ kind = "discord" => cpBinding.cursor <= Len(cpFeed)
          BY <3>1, Zenon DEF CpInv, RowsInv, CursorFrom
        <4> QED
          BY <1>2, <1>4, <2>1, <4>1 DEF n
      <3> QED
        BY <1>1, <3>1, Zenon DEF CpInv, RowsInv, CursorFrom
    <2>3. InboxIsInput'
      BY <1>1, <1>6, <1>7, <1>9, Zenon DEF CpInv, RowsInv, InboxIsInput
    <2>4. ApprovalBy' /\ AdmittedOnceInOrder'
      BY <1>1, <1>7, Zenon DEF CpInv, RowsInv, ApprovalBy, AdmittedOnceInOrder
    <2>5. ApprovalTruthful'
      BY <1>1, <1>8, Zenon DEF CpInv, RowsInv, ApprovalTruthful
    <2>6. CursorCovers'
      <3>1. ASSUME cpBinding.status # "absent" PROVE ~Behind(n)
        <4>1. /\ cpBinding.cursor <= Len(cpFeed) + 1
              /\ kind = "discord" => cpBinding.cursor <= Len(cpFeed)
              /\ kind \in {"telegram", "discord"}
          BY <1>2, <3>1, Zenon DEF CpInv, RowsInv, CursorFrom, CpTyped
        <4> QED
          BY <1>2, <2>1, <4>1 DEF n, Behind
      <3>2. \A i : Behind(i)' <=> Behind(i)
        BY <1>1, Zenon DEF Behind
      <3>3. ASSUME cpBinding.status # "absent", NEW i \in Posted',
                   cpBinding.first <= i, Behind(i)
            PROVE  Terminal(i)
        BY <1>6, <3>1, <3>3, Zenon DEF CpInv, RowsInv, CursorCovers
      <3> QED
        BY <1>1, <1>8, <3>2, <3>3, Zenon DEF CursorCovers
    <2> QED
      BY <2>2, <2>3, <2>4, <2>5, <2>6, Zenon DEF RowsInv
  <1> QED
    BY <1>5, <1>10, <1>11, <1>12, Zenon DEF CpInv

(* The cursor starts behind what is already there. *)
LEMMA RegisterKeeps ==
  ASSUME CpInv, Register
  PROVE  CpInv'
  <1>1. /\ kind' = kind /\ cpFeed' = cpFeed /\ receipts' = receipts
        /\ cpInbox' = cpInbox /\ cpPending' = cpPending /\ cpApproval' = cpApproval
        /\ poll' = poll /\ cpCrashes' = cpCrashes
        /\ admin = "registering" /\ admin' = "none"
    BY Zenon DEF Register
  <1> DEFINE cursor == IF kind = "telegram" THEN Len(cpFeed) + 1 ELSE Len(cpFeed)
  <1>2. cpBinding' = [cpBinding EXCEPT !.status = "active", !.cursor = cursor,
                                       !.first = Len(cpFeed) + 1]
    <2>1. CASE RegisterTelegramChannel
      <3>1. cursor = Len(cpFeed) + 1
        BY <2>1, Zenon DEF RegisterTelegramChannel
      <3> QED
        BY <2>1, <3>1, Zenon DEF RegisterTelegramChannel, TelegramFirstCursor
    <2>2. CASE RegisterDiscordChannel
      <3>1. kind = "discord"
        BY <2>2, Zenon DEF RegisterDiscordChannel
      <3>2. cursor = Len(cpFeed)
        BY <3>1
      <3> QED
        BY <2>2, <3>2, Zenon DEF RegisterDiscordChannel, DiscordFirstCursor
    <2> QED
      BY <2>1, <2>2, Zenon DEF Register
  <1>3. /\ CpTyped /\ cpBinding \in ChannelRows /\ Len(cpFeed) \in Nat
        /\ Len(cpFeed) <= MaxPosts /\ kind \in {"telegram", "discord"}
    BY PostedIds, Zenon DEF CpInv, CpTyped
  <1>4. /\ cursor \in 0 .. MaxPosts + 1 /\ Len(cpFeed) + 1 \in 0 .. MaxPosts + 1
        /\ cursor <= Len(cpFeed) + 1 /\ Len(cpFeed) + 1 <= cursor + 1
        /\ kind = "telegram" => Len(cpFeed) + 1 <= cursor
        /\ kind = "discord" => cursor <= Len(cpFeed)
    BY <1>3, Bounds
  <1> HIDE DEF cursor
  <1>5. /\ cpBinding' \in ChannelRows /\ cpBinding'.status = "active"
        /\ cpBinding'.cursor = cursor /\ cpBinding'.first = Len(cpFeed) + 1
        /\ cpBinding'.secret = cpBinding.secret
    BY <1>2, <1>3, <1>4, Zenon DEF ChannelRows
  <1>6. /\ cpBinding.status = "absent" /\ cpBinding.secret
    BY <1>1, Zenon DEF CpInv, AdminInv, AdminAgrees
  <1>7. CpTyped'
    BY <1>1, <1>5 DEF CpInv, CpTyped
  <1>8. BatchInv'
    <2>1. poll.phase = "idle" /\ poll.messages = {}
      BY <1>6, Zenon DEF CpInv, BatchInv, PhaseAgrees
    <2> QED
      BY <1>1, <2>1, NoBatch, Zenon
  <1>9. AdminInv'
    <2>1. cpBinding'.secret
      BY <1>5, <1>6
    <2> QED
      BY <1>1, <1>5, <2>1 DEF AdminInv, AdminAgrees, CredentialFollowsBinding
  <1>10. RowsInv'
    <2>1. \A b : InboundAction(b)' = InboundAction(b)
      BY <1>1, ActionsAlike, Zenon
    <2>2. Posted' = Posted /\ \A i \in Posted : ~(Len(cpFeed) + 1 <= i)
      BY <1>1, <1>3 DEF Posted
    <2>3. \A i : DoneBelow(i)'
      BY <1>5, <2>2, Zenon DEF DoneBelow
    <2>4. CursorFrom'
      BY <1>1, <1>4, <1>5, Zenon DEF CursorFrom
    <2>5. InboxIsInput'
      BY <1>1, <2>1, <2>2, <2>3, Zenon DEF CpInv, RowsInv, InboxIsInput
    <2>6. ApprovalBy' /\ AdmittedOnceInOrder'
      BY <1>1, <2>1, Zenon DEF CpInv, RowsInv, ApprovalBy, AdmittedOnceInOrder
    <2>7. ApprovalTruthful'
      BY <1>1, Zenon DEF CpInv, RowsInv, ApprovalTruthful, Terminal
    <2>8. CursorCovers'
      BY <1>5, <2>2, Zenon DEF CursorCovers
    <2> QED
      BY <2>4, <2>5, <2>6, <2>7, <2>8, Zenon DEF RowsInv
  <1> QED
    BY <1>7, <1>8, <1>9, <1>10, Zenon DEF CpInv

LEMMA DecideKeeps ==
  ASSUME CpInv, DecideElsewhere
  PROVE  CpInv'
  <1>1. /\ kind' = kind /\ cpFeed' = cpFeed /\ cpBinding' = cpBinding
        /\ receipts' = receipts /\ cpInbox' = cpInbox /\ cpPending' = cpPending
        /\ poll' = poll /\ admin' = admin /\ cpCrashes' = cpCrashes
        /\ cpApproval.state = "pending" /\ cpApproval' = [state |-> "denied", by |-> 0]
    BY Zenon DEF DecideElsewhere
  <1>2. cpApproval.by = 0 /\ cpApproval'.by = 0 /\ cpApproval'.state = "denied"
    BY <1>1, Zenon DEF CpInv, RowsInv, ApprovalBy
  <1>3. cpApproval' \in [state : {"pending", "approved", "denied"}, by : 0 .. MaxPosts]
    <2>1. 0 \in 0 .. MaxPosts
      BY Bounds
    <2> QED
      BY <1>1, <2>1, Zenon
  <1>4. CpTyped'
    BY <1>1, <1>3, Zenon DEF CpInv, CpTyped
  <1>5. ApprovalBy'
    BY <1>2 DEF ApprovalBy
  <1>6. ApprovalTruthful'
    BY <1>1, <1>2, Zenon DEF CpInv, RowsInv, ApprovalTruthful, Terminal
  <1>7. FieldsAlike
    BY <1>1, Zenon DEF FieldsAlike
  <1>8. BatchInv' /\ RowsInv' /\ AdminInv'
    BY <1>1, <1>5, <1>6, <1>7, MostRowsKept, BatchKept, AdminKept, Zenon DEF CpInv
  <1> QED
    BY <1>4, <1>8, Zenon DEF CpInv

LEMMA CrashKeeps ==
  ASSUME CpInv, CpCrash
  PROVE  CpInv'
  <1>1. /\ kind' = kind /\ cpFeed' = cpFeed /\ cpBinding' = cpBinding
        /\ receipts' = receipts /\ cpInbox' = cpInbox /\ cpPending' = cpPending
        /\ cpApproval' = cpApproval /\ poll' = Idle /\ admin' = "none"
        /\ cpCrashes' = cpCrashes + 1
    BY Zenon DEF CpCrash
  <1>2. cpCrashes' \in Nat /\ cpCrashes' # 0
    BY <1>1 DEF CpInv, CpTyped
  <1>3. CpTyped'
    BY <1>1, <1>2, PollRests, Zenon DEF CpInv, CpTyped
  <1>4. RowsAlike
    BY <1>1, Zenon DEF RowsAlike, FieldsAlike
  <1>5. AdminInv'
    <2>1. AdminAgrees'
      BY <1>1 DEF AdminAgrees
    <2>2. CredentialFollowsBinding'
      BY <1>1, <1>2, Zenon DEF CpInv, AdminInv, CredentialFollowsBinding
    <2> QED
      BY <2>1, <2>2, Zenon DEF AdminInv
  <1> QED
    BY <1>1, <1>3, <1>4, <1>5, RowsKept, PollRests, Zenon DEF CpInv

(* The health row counts the failures. *)
LEMMA PollIsRecorded ==
  ASSUME CpTyped, NEW ok \in BOOLEAN, cpBinding' = PollRecorded(ok)
  PROVE  /\ cpBinding' \in ChannelRows /\ cpBinding'.status = cpBinding.status
         /\ cpBinding'.cursor = cpBinding.cursor /\ cpBinding'.first = cpBinding.first
         /\ cpBinding'.secret = cpBinding.secret
  <1> DEFINE failures == IF ok THEN 0 ELSE IF cpBinding.failures < FailureCap
                                           THEN cpBinding.failures + 1 ELSE FailureCap
  <1>1. cpBinding \in ChannelRows
    BY Zenon DEF CpTyped
  <1>2. failures \in 0 .. FailureCap
    BY BindingFields, Bounds
  <1>3. cpBinding' = [cpBinding EXCEPT !.failures = failures]
    BY Zenon DEF PollRecorded
  <1> HIDE DEF failures
  <1> QED
    BY <1>1, <1>2, <1>3, Zenon DEF ChannelRows

LEMMA PollFailsKeeps ==
  ASSUME CpInv, PollFails
  PROVE  CpInv'
  <1>1. /\ kind' = kind /\ cpFeed' = cpFeed
        /\ receipts' = receipts /\ cpInbox' = cpInbox /\ cpPending' = cpPending
        /\ cpApproval' = cpApproval /\ poll' = Idle /\ admin' = admin
        /\ cpCrashes' = cpCrashes
        /\ cpBinding' = PollRecorded(FALSE) \/ cpBinding' = cpBinding
    BY Zenon DEF PollFails
  <1>2. /\ cpBinding' \in ChannelRows /\ cpBinding'.status = cpBinding.status
        /\ cpBinding'.cursor = cpBinding.cursor /\ cpBinding'.first = cpBinding.first
        /\ cpBinding'.secret = cpBinding.secret
    BY <1>1, PollIsRecorded, Zenon DEF CpInv, CpTyped
  <1>3. CpTyped'
    BY <1>1, <1>2, PollRests, Zenon DEF CpInv, CpTyped
  <1>4. RowsAlike
    BY <1>1, <1>2, Zenon DEF RowsAlike, FieldsAlike
  <1> QED
    BY <1>1, <1>2, <1>3, <1>4, RowsKept, PollRests, AdminKept, Zenon DEF CpInv

-----------------------------------------------------------------------------
(* The driver goes on with the batch it has. *)
LEMMA SameBatch ==
  ASSUME CpInv, poll.phase \in {"fetched", "reserve", "act", "complete"},
         poll.messages # {}, NEW p \in {"reserve", "act", "complete"},
         poll' = [poll EXCEPT !.phase = p],
         Len(cpFeed') = Len(cpFeed), cpBinding'.first = cpBinding.first,
         cpBinding'.status # "absent",
         \A i \in Posted : Terminal(i) => Terminal(i)'
  PROVE  /\ poll' \in Polls /\ poll'.phase = p /\ Head1' = Head1
         /\ BatchDiffers' /\ BatchIsRun' /\ PhaseAgrees'
  <1>1. poll \in Polls
    BY Zenon DEF CpInv, CpTyped
  <1>2. /\ poll' \in Polls /\ poll'.phase = p /\ poll'.messages = poll.messages
        /\ poll'.before = poll.before
    BY <1>1 DEF Polls
  <1>3. p # "idle" /\ p # "paging" /\ poll.phase # "paging"
    OBVIOUS
  <1>4. Head1' = Head1
    BY <1>2, Zenon DEF Head1
  <1>5. BatchDiffers'
    BY <1>2, Zenon DEF CpInv, BatchInv, BatchDiffers
  <1>6. PhaseAgrees'
    BY <1>2, <1>3, Zenon DEF PhaseAgrees
  <1>7. BatchIsRun'
    <2>1. PICK lo \in Posted, hi \in Posted :
             Spans(lo, hi) /\ cpBinding.first <= lo /\ DoneBelow(lo)
      BY <1>3, Zenon DEF CpInv, BatchInv, BatchIsRun
    <2>2. Posted' = Posted
      BY Zenon DEF Posted
    <2>3. Spans(lo, hi)' /\ DoneBelow(lo)'
      BY <1>2, <2>1, <2>2, Zenon DEF Spans, DoneBelow
    <2> QED
      BY <1>2, <1>3, <2>1, <2>2, <2>3, Zenon DEF BatchIsRun
  <1> QED
    BY <1>2, <1>4, <1>5, <1>6, <1>7, Zenon

LEMMA RecordPollKeeps ==
  ASSUME CpInv, RecordPoll
  PROVE  CpInv'
  <1>1. /\ kind' = kind /\ cpFeed' = cpFeed
        /\ receipts' = receipts /\ cpInbox' = cpInbox /\ cpPending' = cpPending
        /\ cpApproval' = cpApproval /\ admin' = admin /\ cpCrashes' = cpCrashes
        /\ cpBinding' = PollRecorded(TRUE) \/ cpBinding' = cpBinding
        /\ poll.phase = "fetched"
        /\ \/ poll' = Idle
           \/ poll.messages # {} /\ poll' = [poll EXCEPT !.phase = "reserve"]
    BY Zenon DEF RecordPoll
  <1>2. /\ cpBinding' \in ChannelRows /\ cpBinding'.status = cpBinding.status
        /\ cpBinding'.cursor = cpBinding.cursor /\ cpBinding'.first = cpBinding.first
        /\ cpBinding'.secret = cpBinding.secret
    BY <1>1, PollIsRecorded, Zenon DEF CpInv, CpTyped
  <1>3. RowsAlike
    BY <1>1, <1>2, Zenon DEF RowsAlike, FieldsAlike
  <1>4. poll' \in Polls /\ BatchInv'
    <2>1. CASE poll' = Idle
      BY <2>1, PollRests, Zenon
    <2>2. CASE poll.messages # {} /\ poll' = [poll EXCEPT !.phase = "reserve"]
      <3>1. cpBinding.status # "absent"
        <4>1. poll.phase # "idle"
          BY <1>1
        <4> QED
          BY <4>1, Zenon DEF CpInv, BatchInv, PhaseAgrees
      <3>2. \A i \in Posted : Terminal(i) => Terminal(i)'
        BY <1>1, Zenon DEF Terminal
      <3>3. /\ poll' \in Polls /\ poll'.phase = "reserve"
            /\ BatchDiffers' /\ BatchIsRun' /\ PhaseAgrees'
        BY <1>1, <1>2, <2>2, <3>1, <3>2, SameBatch, Zenon
      <3>4. HeadReserved' /\ HeadAdmitted'
        BY <3>3 DEF HeadReserved, HeadAdmitted
      <3> QED
        BY <3>3, <3>4, Zenon DEF BatchInv
    <2> QED
      BY <1>1, <2>1, <2>2, Zenon
  <1>5. CpTyped'
    BY <1>1, <1>2, <1>4, Zenon DEF CpInv, CpTyped
  <1> QED
    BY <1>1, <1>2, <1>3, <1>4, <1>5, RowsKept, AdminKept, Zenon DEF CpInv

(* Applying a message that changes no input: ignored, or an approval. *)
LEMMA AppliedKeeps ==
  ASSUME CpInv, poll.phase = "act", InboundAction(Head1.body) # "input",
         poll' = [poll EXCEPT !.phase = "complete"],
         cpApproval' \in [state : {"pending", "approved", "denied"}, by : 0 .. MaxPosts],
         ApprovalBy', ApprovalTruthful',
         UNCHANGED <<kind, cpFeed, cpBinding, receipts, cpInbox, cpPending, admin,
                     cpCrashes>>
  PROVE  CpInv'
  <1>1. /\ kind' = kind /\ cpFeed' = cpFeed /\ cpBinding' = cpBinding
        /\ receipts' = receipts /\ cpInbox' = cpInbox /\ cpPending' = cpPending
        /\ admin' = admin /\ cpCrashes' = cpCrashes
    BY Zenon
  <1>2. HeadFacts
    BY HeadHasFacts, Zenon
  <1>3. \A i \in Posted : Terminal(i) => Terminal(i)'
    BY <1>1, Zenon DEF Terminal
  <1>4. /\ poll' \in Polls /\ poll'.phase = "complete" /\ Head1' = Head1
        /\ BatchDiffers' /\ BatchIsRun' /\ PhaseAgrees'
    <2>1. poll.messages # {} /\ cpBinding.status # "absent"
      BY <1>2, Zenon DEF HeadFacts
    <2> QED
      BY <1>1, <1>3, <2>1, SameBatch, Zenon
  <1>5. \A b : InboundAction(b)' = InboundAction(b)
    BY <1>1, ActionsAlike, Zenon
  <1>6. HeadReserved'
    BY <1>1, <1>4, Zenon DEF CpInv, BatchInv, HeadReserved
  <1>7. HeadAdmitted'
    BY <1>4, <1>5, Zenon DEF HeadAdmitted
  <1>8. CpTyped'
    BY <1>1, <1>4, Zenon DEF CpInv, CpTyped
  <1>9. FieldsAlike
    BY <1>1, Zenon DEF FieldsAlike
  <1>10. RowsInv' /\ AdminInv'
    BY <1>1, <1>9, MostRowsKept, AdminKept, Zenon DEF CpInv
  <1> QED
    BY <1>4, <1>6, <1>7, <1>8, <1>10, Zenon DEF CpInv, BatchInv

LEMMA IgnoreKeeps ==
  ASSUME CpInv, IgnoreMessage
  PROVE  CpInv'
  <1>1. /\ poll.phase = "act" /\ InboundAction(Head1.body) = "ignore"
        /\ poll' = [poll EXCEPT !.phase = "complete"] /\ cpApproval' = cpApproval
        /\ UNCHANGED <<kind, cpFeed, cpBinding, receipts, cpInbox, cpPending, admin,
                       cpCrashes>>
    BY Zenon DEF IgnoreMessage
  <1>2. InboundAction(Head1.body) # "input"
    BY <1>1
  <1>3. kind' = kind /\ receipts' = receipts
    BY <1>1, Zenon
  <1>4. \A b : InboundAction(b)' = InboundAction(b)
    BY <1>3, ActionsAlike, Zenon
  <1>5. ApprovalBy' /\ ApprovalTruthful'
    BY <1>1, <1>3, <1>4, Zenon
       DEF CpInv, RowsInv, ApprovalBy, ApprovalTruthful, Terminal
  <1>6. cpApproval' \in [state : {"pending", "approved", "denied"}, by : 0 .. MaxPosts]
    BY <1>1, Zenon DEF CpInv, CpTyped
  <1> QED
    BY <1>1, <1>2, <1>5, <1>6, AppliedKeeps, Zenon

LEMMA ResolveKeeps ==
  ASSUME CpInv, ResolveApproval
  PROVE  CpInv'
  <1>1. /\ poll.phase = "act" /\ InboundAction(Head1.body) = "approval"
        /\ poll' = [poll EXCEPT !.phase = "complete"]
        /\ cpApproval' = IF cpApproval.state = "pending"
                         THEN [state |-> "approved", by |-> Head1.id] ELSE cpApproval
        /\ UNCHANGED <<kind, cpFeed, cpBinding, receipts, cpInbox, cpPending, admin,
                       cpCrashes>>
    BY Zenon DEF ResolveApproval
  <1>2. InboundAction(Head1.body) # "input"
    BY <1>1
  <1>3. kind' = kind /\ receipts' = receipts
    BY <1>1, Zenon
  <1>4. \A b : InboundAction(b)' = InboundAction(b)
    BY <1>3, ActionsAlike, Zenon
  <1>5. /\ receipts[Head1.id].state = "reserved" /\ receipts[Head1.id].digest = Head1.body
        /\ Head1.id \in Ids
    BY <1>1, HeadHasFacts, Zenon DEF CpInv, BatchInv, HeadReserved, HeadFacts
  <1>6. CASE cpApproval.state # "pending"
    <2>1. cpApproval' = cpApproval
      BY <1>1, <1>6, Zenon
    <2>2. ApprovalBy' /\ ApprovalTruthful'
      BY <1>3, <1>4, <2>1, Zenon
         DEF CpInv, RowsInv, ApprovalBy, ApprovalTruthful, Terminal
    <2>3. cpApproval' \in [state : {"pending", "approved", "denied"}, by : 0 .. MaxPosts]
      BY <2>1, Zenon DEF CpInv, CpTyped
    <2> QED
      BY <1>1, <1>2, <2>2, <2>3, AppliedKeeps, Zenon
  <1>7. CASE cpApproval.state = "pending"
    <2>1. cpApproval' = [state |-> "approved", by |-> Head1.id]
      BY <1>1, <1>7, Zenon
    <2>2. cpApproval'.state = "approved" /\ cpApproval'.by = Head1.id
      BY <2>1, Zenon
    <2>3. cpApproval' \in [state : {"pending", "approved", "denied"}, by : 0 .. MaxPosts]
      <3>1. Head1.id \in 0 .. MaxPosts
        BY <1>5, Bounds DEF Ids
      <3> QED
        BY <2>1, <3>1, Zenon
    <2>4. ApprovalBy'
      <3>2. receipts[Head1.id].state # "none"
        BY <1>5
      <3>3. cpApproval'.state # "pending"
        BY <2>2
      <3> QED
        BY <1>1, <1>3, <1>4, <1>5, <2>2, <3>2, <3>3, Zenon DEF ApprovalBy
    <2>5. ApprovalTruthful'
      <3>1. ASSUME NEW i \in Ids, Terminal(i)
            PROVE  i # Head1.id /\ i # cpApproval.by
        <4>1. i # Head1.id
          BY <1>5, <3>1 DEF Terminal
        <4>2. cpApproval.by = 0 /\ i # 0
          BY <1>7, Bounds DEF CpInv, RowsInv, ApprovalBy, Ids
        <4> QED
          BY <4>1, <4>2, Zenon
      <3>2. ASSUME NEW i \in Ids, Terminal(i), receipts[i].digest.what = "approve"
            PROVE  receipts[i].reason # "approval_approved"
        BY <3>1, <3>2, Zenon DEF CpInv, RowsInv, ApprovalTruthful
      <3> QED
        BY <1>3, <2>2, <3>1, <3>2, Zenon DEF ApprovalTruthful, Terminal
    <2> QED
      BY <1>1, <1>2, <2>3, <2>4, <2>5, AppliedKeeps, Zenon
  <1> QED
    BY <1>6, <1>7, Zenon

(* The driver gives up the batch; the rows stay. *)
LEMMA GivesUpKeeps ==
  ASSUME CpInv, poll' = Idle,
         UNCHANGED <<kind, cpFeed, cpBinding, receipts, cpInbox, cpPending, cpApproval,
                     admin, cpCrashes>>
  PROVE  CpInv'
  <1>1. /\ kind' = kind /\ cpFeed' = cpFeed /\ cpBinding' = cpBinding
        /\ receipts' = receipts /\ cpInbox' = cpInbox /\ cpPending' = cpPending
        /\ cpApproval' = cpApproval /\ admin' = admin /\ cpCrashes' = cpCrashes
    BY Zenon
  <1>2. RowsAlike
    BY <1>1, Zenon DEF RowsAlike, FieldsAlike
  <1>3. CpTyped'
    BY <1>1, PollRests, Zenon DEF CpInv, CpTyped
  <1> QED
    BY <1>1, <1>2, <1>3, RowsKept, PollRests, AdminKept, Zenon DEF CpInv

(* The batch after an admission: its head has an input. *)
LEMMA AdmittedBatch ==
  ASSUME CpInv, poll.phase = "act", poll' = [poll EXCEPT !.phase = "complete"],
         UNCHANGED <<kind, cpFeed, cpBinding, receipts>>,
         \E k \in 1 .. Len(cpInbox') : cpInbox'[k].id = Head1.id
  PROVE  BatchInv' /\ poll' \in Polls
  <1>1. kind' = kind /\ cpFeed' = cpFeed /\ cpBinding' = cpBinding /\ receipts' = receipts
    BY Zenon
  <1>2. HeadFacts
    BY HeadHasFacts, Zenon
  <1>3. \A i \in Posted : Terminal(i) => Terminal(i)'
    BY <1>1, Zenon DEF Terminal
  <1>4. /\ poll' \in Polls /\ poll'.phase = "complete" /\ Head1' = Head1
        /\ BatchDiffers' /\ BatchIsRun' /\ PhaseAgrees'
    <2>1. poll.messages # {} /\ cpBinding.status # "absent"
      BY <1>2, Zenon DEF HeadFacts
    <2> QED
      BY <1>1, <1>3, <2>1, SameBatch, Zenon
  <1>5. HeadReserved'
    BY <1>1, <1>4, Zenon DEF CpInv, BatchInv, HeadReserved
  <1>6. HeadAdmitted'
    BY <1>4, Zenon DEF HeadAdmitted
  <1> QED
    BY <1>4, <1>5, <1>6, Zenon DEF BatchInv

(* A message is admitted after all that came before it. *)
LEMMA FreshMessageKeeps ==
  ASSUME CpInv, poll.phase = "act", InboundAction(Head1.body) = "input",
         \A k \in 1 .. Len(cpInbox) : cpInbox[k].id # Head1.id,
         cpPending < MaximumPending, cpInbox' = Append(cpInbox, Head1),
         cpPending' = cpPending + 1, poll' = [poll EXCEPT !.phase = "complete"],
         UNCHANGED <<kind, cpFeed, cpBinding, receipts, cpApproval, admin, cpCrashes>>
  PROVE  CpInv'
  <1> DEFINE m == Head1
             n == Len(cpInbox) + 1
  <1>1. /\ kind' = kind /\ cpFeed' = cpFeed /\ cpBinding' = cpBinding
        /\ receipts' = receipts /\ cpApproval' = cpApproval
        /\ admin' = admin /\ cpCrashes' = cpCrashes /\ Posted' = Posted
    BY Zenon DEF Posted
  <1>2. /\ m \in Messages /\ m.id \in Posted /\ m.id \in Ids /\ m.id \in Nat
        /\ cpBinding.first <= m.id /\ DoneBelow(m.id)
    BY HeadHasFacts, Zenon DEF HeadFacts
  <1>3. receipts[m.id].state = "reserved" /\ receipts[m.id].digest = m.body
    BY Zenon DEF CpInv, BatchInv, HeadReserved
  <1>4. cpInbox \in Seq(Messages)
    BY Zenon DEF CpInv, CpTyped
  <1>5. /\ cpInbox' \in Seq(Messages) /\ n \in 1 .. Len(cpInbox')
        /\ 1 .. Len(cpInbox') = 1 .. Len(cpInbox) \cup {n} /\ n \notin 1 .. Len(cpInbox)
        /\ cpInbox'[n] = m /\ \A k \in 1 .. Len(cpInbox) : cpInbox'[k] = cpInbox[k]
    <2> HIDE DEF m
    <2>1. ASSUME NEW q, q = Append(cpInbox, m)
          PROVE  /\ q \in Seq(Messages) /\ n \in 1 .. Len(q)
                 /\ 1 .. Len(q) = 1 .. Len(cpInbox) \cup {n} /\ n \notin 1 .. Len(cpInbox)
                 /\ q[n] = m /\ \A k \in 1 .. Len(cpInbox) : q[k] = cpInbox[k]
      BY <1>2, <1>4, <2>1, SMT
    <2>2. cpInbox' = Append(cpInbox, m)
      BY Zenon DEF m
    <2> HIDE DEF n
    <2> QED
      BY <2>1, <2>2, Zenon
  <1>6. \A k \in 1 .. Len(cpInbox) :
           k < n /\ ~(n < k) /\ cpInbox[k].id \in Nat /\ cpInbox[k].id \in Posted
    <2>1. ASSUME NEW k \in 1 .. Len(cpInbox)
          PROVE  k < n /\ ~(n < k)
      BY <1>4
    <2>2. \A k \in 1 .. Len(cpInbox) : cpInbox[k].id \in Posted
      BY Zenon DEF CpInv, RowsInv, InboxIsInput
    <2> QED
      BY <2>1, <2>2, PostedIds, Zenon DEF CpInv
  <1>7. ~(n < n)
    BY <1>4
  <1> HIDE DEF m, n
  (* What is in the inbox came earlier: else the message were dealt with. *)
  <1>8. ASSUME NEW k \in 1 .. Len(cpInbox) PROVE cpInbox[k].id < m.id
    <2>1. ~Terminal(m.id)
      BY <1>3 DEF Terminal
    <2>2. ~(m.id < cpInbox[k].id)
      BY <1>2, <2>1, Zenon DEF CpInv, RowsInv, InboxIsInput, DoneBelow
    <2>3. cpInbox[k].id # m.id /\ cpInbox[k].id \in Nat
      BY <1>6, Zenon DEF m
    <2> QED
      BY <1>2, <2>2, <2>3
  <1>9. CpTyped'
    <2>1. cpPending' \in 0 .. MaximumPending
      BY Bounds DEF CpInv, CpTyped
    <2>2. poll' \in Polls
      BY Zenon DEF CpInv, CpTyped, Polls
    <2> QED
      BY <1>1, <1>5, <2>1, <2>2, Zenon DEF CpInv, CpTyped
  <1>10. BatchInv'
    BY <1>5, AdmittedBatch, Zenon DEF m
  <1>11. AdminInv'
    BY <1>1, AdminKept, Zenon DEF CpInv
  <1>12. \A b : InboundAction(b)' = InboundAction(b)
    BY <1>1, ActionsAlike, Zenon
  <1>13. \A i : (DoneBelow(i)' <=> DoneBelow(i)) /\ (Terminal(i)' <=> Terminal(i))
    BY <1>1, DoneAlike, Zenon
  <1>14. CursorFrom' /\ CursorCovers'
    BY <1>1, <1>13, Zenon DEF CpInv, RowsInv, CursorFrom, CursorCovers, Behind
  <1>15. ApprovalBy' /\ ApprovalTruthful'
    BY <1>1, <1>12, <1>13, Zenon DEF CpInv, RowsInv, ApprovalBy, ApprovalTruthful
  <1>16. InboxIsInput'
    <2>1. ASSUME NEW k \in 1 .. Len(cpInbox')
          PROVE  /\ InboundAction(cpInbox'[k].body) = "input"
                 /\ cpInbox'[k].id \in Posted /\ DoneBelow(cpInbox'[k].id)
      <3>1. CASE k = n
        BY <1>2, <1>5, <3>1, Zenon DEF m
      <3>2. CASE k \in 1 .. Len(cpInbox)
        BY <1>5, <3>2, Zenon DEF CpInv, RowsInv, InboxIsInput
      <3> QED
        BY <1>5, <3>1, <3>2, Zenon
    <2> QED
      BY <1>1, <1>12, <1>13, <2>1, Zenon DEF InboxIsInput
  <1>17. AdmittedOnceInOrder'
    <2>1. \A k, l \in 1 .. Len(cpInbox') : k < l => cpInbox'[k].id < cpInbox'[l].id
      <3>1. ASSUME NEW k \in 1 .. Len(cpInbox'), NEW l \in 1 .. Len(cpInbox'), k < l
            PROVE  cpInbox'[k].id < cpInbox'[l].id
        <4>1. k \in 1 .. Len(cpInbox)
          BY <1>5, <1>6, <1>7, <3>1, Zenon
        <4>2. CASE l = n
          BY <1>5, <1>8, <4>1, <4>2, Zenon
        <4>3. CASE l \in 1 .. Len(cpInbox)
          <5>1. cpInbox[k].id < cpInbox[l].id
            BY <3>1, <4>1, <4>3, Zenon DEF CpInv, RowsInv, AdmittedOnceInOrder
          <5> QED
            BY <1>5, <4>1, <4>3, <5>1, Zenon
        <4> QED
          BY <1>5, <4>2, <4>3, Zenon
      <3> QED
        BY <3>1, Zenon
    <2>2. \A k \in 1 .. Len(cpInbox') :
             /\ receipts[cpInbox'[k].id].digest = cpInbox'[k].body
             /\ receipts[cpInbox'[k].id].state \in {"reserved", "admitted"}
      <3>1. ASSUME NEW k \in 1 .. Len(cpInbox')
            PROVE  /\ receipts[cpInbox'[k].id].digest = cpInbox'[k].body
                   /\ receipts[cpInbox'[k].id].state \in {"reserved", "admitted"}
        <4>1. CASE k = n
          BY <1>3, <1>5, <4>1, Zenon
        <4>2. CASE k \in 1 .. Len(cpInbox)
          <5>1. /\ receipts[cpInbox[k].id].digest = cpInbox[k].body
                /\ receipts[cpInbox[k].id].state \in {"reserved", "admitted"}
            BY <4>2, Zenon DEF CpInv, RowsInv, AdmittedOnceInOrder
          <5>2. cpInbox'[k] = cpInbox[k]
            BY <1>5, <4>2, Zenon
          <5> QED
            BY <5>1, <5>2, Zenon
        <4> QED
          BY <1>5, <4>1, <4>2, Zenon
      <3> QED
        BY <3>1, Zenon
    <2>3. ASSUME NEW i \in Ids, receipts[i].state = "admitted"
          PROVE  \E k \in 1 .. Len(cpInbox') : cpInbox'[k].id = i
      <3>1. PICK k \in 1 .. Len(cpInbox) : cpInbox[k].id = i
        BY <2>3, Zenon DEF CpInv, RowsInv, AdmittedOnceInOrder
      <3>2. k \in 1 .. Len(cpInbox') /\ cpInbox'[k].id = i
        BY <1>5, <3>1
      <3> QED
        BY <3>2, Zenon
    <2> QED
      BY <1>1, <2>1, <2>2, <2>3 DEF AdmittedOnceInOrder
  <1> QED
    BY <1>9, <1>10, <1>11, <1>14, <1>15, <1>16, <1>17, Zenon DEF CpInv, RowsInv

LEMMA AdmitMessageKeeps ==
  ASSUME CpInv, AdmitMessage
  PROVE  CpInv'
  <1>1. /\ poll.phase = "act" /\ InboundAction(Head1.body) = "input"
        /\ UNCHANGED <<kind, cpFeed, cpBinding, receipts, cpApproval, admin, cpCrashes>>
    BY Zenon DEF AdmitMessage
  <1>2. CASE poll' = Idle /\ UNCHANGED <<cpInbox, cpPending>>
    BY <1>1, <1>2, GivesUpKeeps, Zenon
  <1>3. CASE /\ \E k \in 1 .. Len(cpInbox) : cpInbox[k].id = Head1.id
             /\ poll' = [poll EXCEPT !.phase = "complete"]
             /\ UNCHANGED <<cpInbox, cpPending>>
    <2>1. BatchInv' /\ poll' \in Polls
      BY <1>1, <1>3, AdmittedBatch, Zenon
    <2>2. RowsAlike
      BY <1>1, <1>3, Zenon DEF RowsAlike, FieldsAlike
    <2>3. CpTyped'
      BY <1>1, <1>3, <2>1, Zenon DEF CpInv, CpTyped
    <2> QED
      BY <1>1, <2>1, <2>2, <2>3, RowsKept, AdminKept, Zenon DEF CpInv
  <1>4. CASE /\ \A k \in 1 .. Len(cpInbox) : cpInbox[k].id # Head1.id
             /\ cpPending < MaximumPending /\ cpInbox' = Append(cpInbox, Head1)
             /\ cpPending' = cpPending + 1 /\ poll' = [poll EXCEPT !.phase = "complete"]
    BY <1>1, <1>4, FreshMessageKeeps, Zenon
  <1> QED
    BY <1>2, <1>3, <1>4, Zenon DEF AdmitMessage

-----------------------------------------------------------------------------
(* The driver goes on to the next message of the batch, if there is one. *)
LEMMA NextBatch ==
  ASSUME CpInv, poll.phase \in {"reserve", "complete"}, NEW m, m = Head1,
         poll' = NextInBatch(m), Len(cpFeed') = Len(cpFeed),
         cpBinding'.first = cpBinding.first, cpBinding'.status # "absent",
         \A i \in Posted : Terminal(i) => Terminal(i)', Terminal(m.id)'
  PROVE  BatchInv' /\ poll' \in Polls
  <1>1. CASE poll.messages = {m}
    BY <1>1, PollRests, Zenon DEF NextInBatch
  <1>2. CASE poll.messages # {m}
    <2>1. poll' = [poll EXCEPT !.phase = "reserve", !.messages = poll.messages \ {m}]
      BY <1>2, Zenon DEF NextInBatch
    <2>2. poll \in Polls /\ CpTyped
      BY Zenon DEF CpInv, CpTyped
    <2>3. /\ poll' \in Polls /\ poll'.phase = "reserve"
          /\ poll'.messages = poll.messages \ {m}
      BY <2>1, <2>2, Zenon DEF Polls
    <2>4. /\ m \in poll.messages /\ m.id \in Posted /\ m.id \in Nat
          /\ cpBinding.first <= m.id /\ DoneBelow(m.id)
      BY HeadHasFacts, Zenon DEF HeadFacts
    <2>5. PICK hi \in Posted : Spans(m.id, hi)
      BY HeadHasFacts, Zenon DEF HeadFacts
    <2>6. \A n \in poll.messages : n # m => n.id # m.id
      BY <2>4, Zenon DEF CpInv, BatchInv, BatchDiffers
    <2>7. \A n \in poll.messages : m.id <= n.id /\ n.id <= hi /\ n.id \in Nat
      BY <2>2, <2>5, PollFields, Zenon DEF Spans
    <2>8. \A n \in poll.messages \ {m} : m.id + 1 <= n.id /\ n.id <= hi
      <3>1. ASSUME NEW n \in poll.messages \ {m} PROVE m.id + 1 <= n.id /\ n.id <= hi
        <4>1. n.id # m.id /\ m.id <= n.id /\ n.id <= hi /\ n.id \in Nat
          BY <2>6, <2>7, Zenon
        <4> QED
          BY <2>4, <4>1
      <3> QED
        BY <3>1, Zenon
    <2>9. hi \in Nat /\ hi <= Len(cpFeed) /\ Len(cpFeed) \in Nat
      BY <2>2, <2>5, PostedIds, Zenon
    <2>10. PICK n0 \in poll.messages \ {m} : TRUE
      BY <1>2, <2>4, Zenon
    <2>11. m.id + 1 \in Posted /\ cpBinding.first <= m.id + 1
      <3>1. m.id + 1 <= n0.id /\ n0.id <= hi /\ n0.id \in Nat /\ cpBinding.first \in Nat
        BY <2>2, <2>7, <2>8, <2>10, BindingFields, Zenon
      <3> QED
        BY <2>4, <2>9, <3>1 DEF Posted
    <2>12. \A i \in m.id + 1 .. hi : \E n \in poll.messages \ {m} : n.id = i
      <3>1. ASSUME NEW i \in m.id + 1 .. hi
            PROVE  \E n \in poll.messages \ {m} : n.id = i
        <4>1. i \in m.id .. hi /\ i # m.id
          BY <2>4, <2>9
        <4>2. PICK n \in poll.messages : n.id = i
          BY <2>5, <4>1, Zenon DEF Spans
        <4> QED
          BY <4>1, <4>2, Zenon
      <3> QED
        BY <3>1, Zenon
    <2>13. Posted' = Posted
      BY Zenon DEF Posted
    <2>14. Spans(m.id + 1, hi)'
      BY <2>3, <2>8, <2>12, Zenon DEF Spans
    <2>15. DoneBelow(m.id + 1)'
      <3>1. ASSUME NEW i \in Posted, cpBinding.first <= i, i < m.id + 1
            PROVE  Terminal(i)'
        <4>1. i < m.id \/ i = m.id
          <5>1. i \in Nat
            BY <2>2, PostedIds, Zenon
          <5> QED
            BY <2>4, <3>1, <5>1
        <4>2. CASE i < m.id
          BY <2>4, <3>1, <4>2, Zenon DEF DoneBelow
        <4>3. CASE i = m.id
          BY <4>3, Zenon
        <4> QED
          BY <4>1, <4>2, <4>3, Zenon
      <3> QED
        BY <2>13, <3>1, Zenon DEF DoneBelow
    <2>16. BatchDiffers'
      BY <2>3, Zenon DEF CpInv, BatchInv, BatchDiffers
    <2>17. BatchIsRun'
      <3>1. poll'.phase # "paging"
        BY <2>3
      <3> QED
        BY <2>5, <2>11, <2>13, <2>14, <2>15, <3>1, Zenon DEF BatchIsRun
    <2>18. PhaseAgrees'
      <3>1. poll'.messages # {}
        BY <2>3, <2>10, Zenon
      <3> QED
        BY <2>3, <3>1 DEF PhaseAgrees
    <2>19. HeadReserved' /\ HeadAdmitted'
      BY <2>3 DEF HeadReserved, HeadAdmitted
    <2> QED
      BY <2>3, <2>16, <2>17, <2>18, <2>19, Zenon DEF BatchInv
  <1> QED
    BY <1>1, <1>2, Zenon

(* What a reservation can say. *)
LEMMA Reservations ==
  ASSUME NEW m, NEW behind \in BOOLEAN
  PROVE  /\ Reservation(m, behind) \in {"revoked", "conflict", "new", "completed", "existing"}
         /\ Reservation(m, behind) = "new" => receipts[m.id].state = "none"
         /\ Reservation(m, behind) = "existing" =>
               receipts[m.id].state = "reserved" /\ receipts[m.id].digest = m.body
         /\ Reservation(m, behind) = "completed" =>
               receipts[m.id].state \notin {"none", "reserved"}
  BY DEF Reservation

LEMMA ReceiptStates ==
  ASSUME CpTyped, NEW i \in Ids
  PROVE  /\ receipts[i] \in {NoReceipt} \cup Receipts
         /\ receipts[i].state \in {"none", "reserved", "admitted", "ignored"}
         /\ receipts[i].state # "none" => receipts[i] \in Receipts
  <1>1. receipts[i] \in {NoReceipt} \cup Receipts
    BY Zenon DEF CpTyped
  <1>2. receipts[i] = NoReceipt => receipts[i].state = "none"
    <2>1. NoReceipt.state = "none"
      BY Zenon DEF NoReceipt
    <2> QED
      BY <2>1, Zenon
  <1>3. receipts[i] \in Receipts => receipts[i].state \in {"reserved", "admitted", "ignored"}
    BY Zenon DEF Receipts
  <1> QED
    BY <1>1, <1>2, <1>3

LEMMA ApproverPosted ==
  ASSUME CpTyped, cpApproval.by # 0
  PROVE  cpApproval.by \in Ids
  <1>1. cpApproval.by \in 0 .. MaxPosts
    BY Zenon DEF CpTyped
  <1> QED
    BY <1>1, Bounds DEF Ids

(* The receipt of one message changes. *)
ReceiptSet(i, state, digest, reason) ==
    /\ receipts' \in [Ids -> {NoReceipt} \cup Receipts]
    /\ \A j \in Ids : j # i => receipts'[j] = receipts[j]
    /\ receipts'[i].state = state /\ receipts'[i].digest = digest
    /\ receipts'[i].reason = reason

LEMMA ReceiptReserved ==
  ASSUME CpTyped, NEW i \in Ids, NEW digest \in CpBodies,
         receipts' = [receipts EXCEPT ![i] = [state |-> "reserved", digest |-> digest,
                                              reason |-> ""]]
  PROVE  ReceiptSet(i, "reserved", digest, "")
  <1> DEFINE row == [state |-> "reserved", digest |-> digest, reason |-> ""]
  <1>1. /\ row \in Receipts /\ row.state = "reserved" /\ row.digest = digest
        /\ row.reason = ""
    BY Zenon DEF Receipts
  <1>2. receipts \in [Ids -> {NoReceipt} \cup Receipts]
    BY Zenon DEF CpTyped
  <1>3. receipts' = [receipts EXCEPT ![i] = row]
    BY Zenon
  <1> HIDE DEF row
  <1> QED
    BY <1>1, <1>2, <1>3, Zenon DEF ReceiptSet

LEMMA ReceiptCompleted ==
  ASSUME CpTyped, NEW i \in Ids, receipts[i] \in Receipts,
         NEW state \in {"admitted", "ignored"},
         NEW reason \in {"", "approval_approved", "approval_resolution_rejected",
                         "unsupported"},
         receipts' = [receipts EXCEPT ![i] = [@ EXCEPT !.state = state, !.reason = reason]]
  PROVE  ReceiptSet(i, state, receipts[i].digest, reason)
  <1> DEFINE row == [receipts[i] EXCEPT !.state = state, !.reason = reason]
  <1>1. /\ row \in Receipts /\ row.state = state /\ row.digest = receipts[i].digest
        /\ row.reason = reason
    BY Zenon DEF Receipts
  <1>2. receipts \in [Ids -> {NoReceipt} \cup Receipts]
    BY Zenon DEF CpTyped
  <1>3. receipts' = [receipts EXCEPT ![i] = row]
    BY Zenon
  <1> HIDE DEF row
  <1> QED
    BY <1>1, <1>2, <1>3, Zenon DEF ReceiptSet

(* A reservation touches a row that was not there. *)
LEMMA ReservedKeepsRows ==
  ASSUME CpInv, NEW i \in Ids, NEW digest, receipts[i].state = "none",
         ReceiptSet(i, "reserved", digest, ""),
         UNCHANGED <<kind, cpFeed, cpBinding, cpInbox, cpApproval>>
  PROVE  RowsInv' /\ \A j \in Ids : Terminal(j)' <=> Terminal(j)
  <1>1. /\ kind' = kind /\ cpFeed' = cpFeed /\ cpBinding' = cpBinding
        /\ cpInbox' = cpInbox /\ cpApproval' = cpApproval /\ Posted' = Posted
    BY Zenon DEF Posted
  <1>2. /\ \A j \in Ids : j # i => receipts'[j] = receipts[j]
        /\ receipts'[i].state = "reserved"
    BY Zenon DEF ReceiptSet
  <1>3. \A j \in Ids : Terminal(j)' <=> Terminal(j)
    <2>1. ~Terminal(i) /\ ~Terminal(i)'
      BY <1>2, Zenon DEF Terminal
    <2>2. \A j \in Ids : j # i => (Terminal(j)' <=> Terminal(j))
      BY <1>2, Zenon DEF Terminal
    <2> QED
      BY <2>1, <2>2, Zenon
  <1>4. \A j \in Ids : receipts[j].state # "none" => receipts'[j] = receipts[j]
    BY <1>2, Zenon
  <1>5. Posted \subseteq Ids
    BY PostedIds, Zenon DEF CpInv
  <1>6. \A b : InboundAction(b)' = InboundAction(b)
    BY <1>1, ActionsAlike, Zenon
  <1>7. \A j : DoneBelow(j)' <=> DoneBelow(j)
    BY <1>1, <1>3, <1>5, Zenon DEF DoneBelow
  <1>8. CursorFrom' /\ InboxIsInput'
    BY <1>1, <1>6, <1>7, Zenon DEF CpInv, RowsInv, CursorFrom, InboxIsInput
  <1>9. CursorCovers'
    BY <1>1, <1>3, <1>5, Zenon DEF CpInv, RowsInv, CursorCovers, Behind
  <1>10. ApprovalBy'
    <2>1. cpApproval.by # 0 => cpApproval.by \in Ids
      BY ApproverPosted, Zenon DEF CpInv
    <2> QED
      BY <1>1, <1>4, <1>6, <2>1, Zenon DEF CpInv, RowsInv, ApprovalBy
  <1>11. ApprovalTruthful'
    <2>1. \A j \in Ids : Terminal(j) => receipts'[j] = receipts[j]
      BY <1>4, Zenon DEF Terminal
    <2> QED
      BY <1>1, <1>3, <2>1, Zenon DEF CpInv, RowsInv, ApprovalTruthful
  <1>12. AdmittedOnceInOrder'
    <2>1. \A k \in 1 .. Len(cpInbox) :
             /\ receipts'[cpInbox[k].id].digest = cpInbox[k].body
             /\ receipts'[cpInbox[k].id].state \in {"reserved", "admitted"}
      <3>1. ASSUME NEW k \in 1 .. Len(cpInbox)
            PROVE  receipts'[cpInbox[k].id] = receipts[cpInbox[k].id]
        <4>1. cpInbox[k].id \in Ids
          BY <1>5, Zenon DEF CpInv, RowsInv, InboxIsInput
        <4>2. receipts[cpInbox[k].id].state \in {"reserved", "admitted"}
          BY Zenon DEF CpInv, RowsInv, AdmittedOnceInOrder
        <4>3. receipts[cpInbox[k].id].state # "none"
          BY <4>2, Zenon
        <4> QED
          BY <1>4, <4>1, <4>3, Zenon
      <3>2. \A k \in 1 .. Len(cpInbox) :
               /\ receipts[cpInbox[k].id].digest = cpInbox[k].body
               /\ receipts[cpInbox[k].id].state \in {"reserved", "admitted"}
        BY Zenon DEF CpInv, RowsInv, AdmittedOnceInOrder
      <3> QED
        BY <3>1, <3>2, Zenon
    <2>2. ASSUME NEW j \in Ids, receipts'[j].state = "admitted"
          PROVE  \E k \in 1 .. Len(cpInbox) : cpInbox[k].id = j
      <3>1. j # i
        BY <1>2, <2>2, Zenon
      <3>2. receipts[j].state = "admitted"
        BY <1>2, <2>2, <3>1, Zenon
      <3> QED
        BY <3>2, Zenon DEF CpInv, RowsInv, AdmittedOnceInOrder
    <2>3. \A k, l \in 1 .. Len(cpInbox) : k < l => cpInbox[k].id < cpInbox[l].id
      BY Zenon DEF CpInv, RowsInv, AdmittedOnceInOrder
    <2> QED
      BY <1>1, <2>1, <2>2, <2>3, Zenon DEF AdmittedOnceInOrder
  <1> QED
    BY <1>3, <1>8, <1>9, <1>10, <1>11, <1>12, Zenon DEF RowsInv

LEMMA ReserveKeeps ==
  ASSUME CpInv, ReserveUpdate
  PROVE  CpInv'
  <1>4. PICK m : m = Head1
    BY Zenon
  <1> DEFINE outcome == IF kind = "telegram" THEN ReserveTelegramUpdate(m)
                                             ELSE ReserveDiscordMessage(m)
  <1>1. /\ poll.phase = "reserve"
        /\ receipts' = IF outcome = "new"
                       THEN [receipts EXCEPT ![m.id] = [state |-> "reserved",
                                digest |-> m.body, reason |-> ""]]
                       ELSE receipts
        /\ poll' = CASE outcome \in {"new", "existing"} -> [poll EXCEPT !.phase = "act"]
                     [] outcome = "completed" -> NextInBatch(m)
                     [] OTHER -> Idle
        /\ UNCHANGED <<kind, cpFeed, cpBinding, cpInbox, cpPending, cpApproval, admin,
                       cpCrashes>>
    BY <1>4, Zenon DEF ReserveUpdate
  <1>2. /\ m \in poll.messages /\ m.body \in CpBodies /\ m.id \in Ids /\ m.id \in Posted
        /\ cpBinding.status # "absent"
    BY <1>1, <1>4, HeadHasFacts, Zenon DEF HeadFacts
  <1>3. /\ outcome \in {"revoked", "conflict", "new", "completed", "existing"}
        /\ outcome = "new" => receipts[m.id].state = "none"
        /\ outcome = "existing" =>
              receipts[m.id].state = "reserved" /\ receipts[m.id].digest = m.body
        /\ outcome = "completed" => receipts[m.id].state \notin {"none", "reserved"}
    <2>1. PICK behind \in BOOLEAN : outcome = Reservation(m, behind)
      <3>1. (m.id < cpBinding.cursor) \in BOOLEAN /\ (m.id <= cpBinding.cursor) \in BOOLEAN
        OBVIOUS
      <3> QED
        BY <3>1, Zenon DEF ReserveTelegramUpdate, ReserveDiscordMessage
    <2> HIDE DEF outcome
    <2> QED
      BY <2>1, Reservations
  <1> HIDE DEF outcome
  <1>5. CpTyped
    BY Zenon DEF CpInv
  <1>6. AdminInv'
    BY <1>1, AdminKept, Zenon DEF CpInv
  <1>7. CASE outcome = "new"
    <2>1. /\ receipts' = [receipts EXCEPT ![m.id] = [state |-> "reserved",
                              digest |-> m.body, reason |-> ""]]
          /\ poll' = [poll EXCEPT !.phase = "act"]
      BY <1>1, <1>7, Zenon
    <2>2. ReceiptSet(m.id, "reserved", m.body, "")
      BY <1>2, <1>5, <2>1, ReceiptReserved, Zenon
    <2>3. RowsInv' /\ \A j \in Ids : Terminal(j)' <=> Terminal(j)
      BY <1>1, <1>2, <1>3, <1>7, <2>2, ReservedKeepsRows, Zenon
    <2>4. Posted \subseteq Ids
      BY <1>5, PostedIds, Zenon
    <2>5. /\ poll' \in Polls /\ poll'.phase = "act" /\ Head1' = Head1
          /\ BatchDiffers' /\ BatchIsRun' /\ PhaseAgrees'
      <3>1. \A i \in Posted : Terminal(i) => Terminal(i)'
        BY <2>3, <2>4, Zenon
      <3> QED
        BY <1>1, <1>2, <2>1, <3>1, SameBatch, Zenon
    <2>6. HeadReserved'
      BY <1>4, <2>2, <2>5, Zenon DEF HeadReserved, ReceiptSet
    <2>7. HeadAdmitted'
      BY <2>5 DEF HeadAdmitted
    <2>8. CpTyped'
      BY <1>1, <2>2, <2>5, Zenon DEF CpInv, CpTyped, ReceiptSet
    <2> QED
      BY <1>6, <2>3, <2>5, <2>6, <2>7, <2>8, Zenon DEF CpInv, BatchInv
  <1>8. CASE outcome # "new"
    <2>1. receipts' = receipts
      BY <1>1, <1>8, Zenon
    <2>2. RowsAlike
      BY <1>1, <2>1, Zenon DEF RowsAlike, FieldsAlike
    <2>3. \A i \in Posted : Terminal(i) => Terminal(i)'
      BY <2>1, Zenon DEF Terminal
    <2>4. BatchInv' /\ poll' \in Polls
      <3>1. CASE outcome = "existing"
        <4>1. poll' = [poll EXCEPT !.phase = "act"]
          BY <1>1, <3>1
        <4>2. /\ poll' \in Polls /\ poll'.phase = "act" /\ Head1' = Head1
              /\ BatchDiffers' /\ BatchIsRun' /\ PhaseAgrees'
          BY <1>1, <1>2, <2>3, <4>1, SameBatch, Zenon
        <4>3. HeadReserved'
          BY <1>3, <1>4, <2>1, <3>1, <4>2, Zenon DEF HeadReserved
        <4>4. HeadAdmitted'
          BY <4>2 DEF HeadAdmitted
        <4> QED
          BY <4>2, <4>3, <4>4, Zenon DEF BatchInv
      <3>2. CASE outcome = "completed"
        <4>1. poll' = NextInBatch(m)
          BY <1>1, <3>2
        <4>2. Terminal(m.id)'
          <5>1. receipts[m.id].state \in {"none", "reserved", "admitted", "ignored"}
            BY <1>2, <1>5, ReceiptStates, Zenon
          <5> QED
            BY <1>3, <2>1, <3>2, <5>1, Zenon DEF Terminal
        <4> QED
          BY <1>1, <1>2, <1>4, <2>3, <4>1, <4>2, NextBatch, Zenon
      <3>3. CASE outcome \in {"revoked", "conflict"}
        <4>1. poll' = Idle
          BY <1>1, <3>3, Zenon
        <4> QED
          BY <4>1, PollRests, Zenon
      <3> QED
        BY <1>3, <1>8, <3>1, <3>2, <3>3
    <2>5. CpTyped'
      BY <1>1, <2>1, <2>4, Zenon DEF CpInv, CpTyped
    <2> QED
      BY <1>6, <2>2, <2>4, <2>5, RowsKept, Zenon DEF CpInv
  <1> QED
    BY <1>7, <1>8, Zenon

-----------------------------------------------------------------------------
(* Completion: the receipt becomes terminal and the cursor moves. *)
LEMMA Dispositions ==
  ASSUME NEW m
  PROVE  /\ InboundAction(m.body) = "input" =>
               Disposition(m).state = "admitted" /\ Disposition(m).reason = ""
         /\ InboundAction(m.body) # "input" => Disposition(m).state = "ignored"
         /\ Disposition(m).reason = "approval_approved" <=>
               InboundAction(m.body) = "approval" /\ cpApproval.by = m.id
         /\ Disposition(m).state \in {"admitted", "ignored"}
         /\ Disposition(m).reason \in {"", "approval_approved",
                                       "approval_resolution_rejected", "unsupported"}
  BY DEF Disposition

NewCursor(m) == IF kind = "telegram" THEN CompleteTelegramUpdate(m)
                                     ELSE CompleteDiscordMessage(m)
(* The cursor moves forward, and only over the message. *)
LEMMA CursorMoves ==
  ASSUME CpTyped, NEW m, m.id \in Posted
  PROVE  /\ NewCursor(m) \in 0 .. MaxPosts + 1 /\ cpBinding.cursor <= NewCursor(m)
         /\ cpBinding.cursor <= Len(cpFeed) + 1 => NewCursor(m) <= Len(cpFeed) + 1
         /\ kind = "discord" /\ cpBinding.cursor <= Len(cpFeed) =>
               NewCursor(m) <= Len(cpFeed)
         /\ \A i \in Nat : IF kind = "telegram"
                           THEN i < NewCursor(m) => i < cpBinding.cursor \/ i <= m.id
                           ELSE i <= NewCursor(m) => i <= cpBinding.cursor \/ i <= m.id
  <1> DEFINE c == cpBinding.cursor
             i0 == m.id
             n == Len(cpFeed)
  <1>1. c \in Nat /\ c <= MaxPosts + 1 /\ n \in Nat /\ n <= MaxPosts /\ MaxPosts \in Nat
        /\ i0 \in Nat /\ 1 <= i0 /\ i0 <= n
    BY BindingFields, PostedIds, Bounds, Zenon DEF CpTyped
  <1>2. NewCursor(m) = IF kind = "telegram" THEN IF c <= i0 THEN i0 + 1 ELSE c
                                            ELSE IF c < i0 THEN i0 ELSE c
    BY Zenon DEF NewCursor, CompleteTelegramUpdate, CompleteDiscordMessage
  <1>3. kind \in {"telegram", "discord"}
    BY Zenon DEF CpTyped
  <1> HIDE DEF c, i0, n
  <1>4. /\ NewCursor(m) \in 0 .. MaxPosts + 1 /\ c <= NewCursor(m)
        /\ c <= n + 1 => NewCursor(m) <= n + 1
        /\ kind = "discord" /\ c <= n => NewCursor(m) <= n
        /\ \A i \in Nat : IF kind = "telegram"
                          THEN i < NewCursor(m) => i < c \/ i <= i0
                          ELSE i <= NewCursor(m) => i <= c \/ i <= i0
    BY <1>1, <1>2, <1>3, SMT
  <1> QED
    BY <1>4, Zenon DEF c, i0, n

LEMMA CompleteRows ==
  ASSUME CpInv, NEW m, m = Head1, poll.phase = "complete",
         ReceiptSet(m.id, Disposition(m).state, m.body, Disposition(m).reason),
         cpBinding'.cursor = NewCursor(m), cpBinding'.first = cpBinding.first,
         cpBinding'.status = cpBinding.status,
         UNCHANGED <<kind, cpFeed, cpInbox, cpApproval>>
  PROVE  /\ RowsInv' /\ Terminal(m.id)' /\ \A j \in Posted : Terminal(j) => Terminal(j)'
  <1>1. /\ kind' = kind /\ cpFeed' = cpFeed
        /\ cpInbox' = cpInbox /\ cpApproval' = cpApproval /\ Posted' = Posted
    BY Zenon DEF Posted
  <1>2. /\ m.id \in Posted /\ m.id \in Ids /\ m.id \in Nat /\ DoneBelow(m.id)
        /\ cpBinding.status # "absent" /\ CpTyped /\ cpBinding.first <= m.id
    BY HeadHasFacts, Zenon DEF HeadFacts, CpInv
  <1>3. /\ receipts[m.id].state = "reserved" /\ receipts[m.id].digest = m.body
        /\ InboundAction(m.body) = "input" =>
              \E k \in 1 .. Len(cpInbox) : cpInbox[k].id = m.id
    BY Zenon DEF CpInv, BatchInv, HeadReserved, HeadAdmitted
  <1> DEFINE state == Disposition(m).state
             reason == Disposition(m).reason
  <1>4. /\ InboundAction(m.body) = "input" => state = "admitted"
        /\ InboundAction(m.body) # "input" => state = "ignored"
        /\ reason = "approval_approved" <=>
              InboundAction(m.body) = "approval" /\ cpApproval.by = m.id
        /\ state \in {"admitted", "ignored"}
    BY Dispositions, Zenon
  <1>5. /\ \A j \in Ids : j # m.id => receipts'[j] = receipts[j]
        /\ receipts'[m.id].state = state /\ receipts'[m.id].digest = m.body
        /\ receipts'[m.id].reason = reason
    BY Zenon DEF ReceiptSet
  <1> HIDE DEF state, reason
  <1>6. Terminal(m.id)' /\ ~Terminal(m.id)
    <2>1. ~Terminal(m.id)
      <3>1. "reserved" \notin {"admitted", "ignored"}
        OBVIOUS
      <3> QED
        BY <1>3, <3>1, Zenon DEF Terminal
    <2> QED
      BY <1>4, <1>5, <2>1, Zenon DEF Terminal
  <1>7. \A j \in Ids : j # m.id => (Terminal(j)' <=> Terminal(j))
    BY <1>5, Zenon DEF Terminal
  <1>8. Posted \subseteq Ids /\ \A i \in Posted : i \in Nat
    BY <1>2, PostedIds, Zenon
  <1>9. \A j \in Posted : Terminal(j) => Terminal(j)'
    BY <1>6, <1>7, <1>8, Zenon
  <1>10. \A b : InboundAction(b)' = InboundAction(b)
    BY <1>1, ActionsAlike, Zenon
  <1>11. \A j : DoneBelow(j) => DoneBelow(j)'
    BY <1>1, <1>9, Zenon DEF DoneBelow
  <1>12. CursorFrom'
    <2>1. /\ cpBinding.first <= cpBinding.cursor + 1
          /\ cpBinding.cursor <= Len(cpFeed) + 1
          /\ kind = "telegram" => cpBinding.first <= cpBinding.cursor
          /\ kind = "discord" => cpBinding.cursor <= Len(cpFeed)
      BY <1>2, Zenon DEF CpInv, RowsInv, CursorFrom
    <2>2. /\ NewCursor(m) \in 0 .. MaxPosts + 1 /\ cpBinding.cursor <= NewCursor(m)
          /\ NewCursor(m) <= Len(cpFeed) + 1
          /\ kind = "discord" => NewCursor(m) <= Len(cpFeed)
      BY <1>2, <2>1, CursorMoves, Zenon
    <2>3. cpBinding.cursor \in Nat /\ cpBinding.first \in Nat /\ MaxPosts \in Nat
      BY <1>2, BindingFields, Bounds, Zenon
    <2>4. /\ cpBinding.first <= NewCursor(m) + 1
          /\ kind = "telegram" => cpBinding.first <= NewCursor(m)
      <3>1. \A f, c, d \in Nat : c <= d => (f <= c + 1 => f <= d + 1) /\ (f <= c => f <= d)
        OBVIOUS
      <3>2. NewCursor(m) \in Nat
        <4>1. \A d \in 0 .. MaxPosts + 1 : d \in Nat
          OBVIOUS
        <4> QED
          BY <2>2, <4>1, Zenon
      <3> QED
        BY <2>1, <2>2, <2>3, <3>1, <3>2, Zenon
    <2> QED
      BY <1>1, <2>2, <2>4, Zenon DEF CursorFrom
  <1>13. InboxIsInput'
    BY <1>1, <1>10, <1>11, Zenon DEF CpInv, RowsInv, InboxIsInput
  <1>14. ApprovalBy'
    <2>1. ASSUME NEW i \in Ids, receipts[i].state # "none"
          PROVE  receipts'[i].state # "none" /\ receipts'[i].digest = receipts[i].digest
      <3>1. CASE i = m.id
        <4>1. state # "none"
          BY <1>4
        <4> QED
          BY <1>3, <1>5, <3>1, <4>1, Zenon
      <3>2. CASE i # m.id
        BY <1>5, <2>1, <3>2, Zenon
      <3> QED
        BY <3>1, <3>2, Zenon
    <2>2. cpApproval.by # 0 => cpApproval.by \in Ids
      BY <1>2, ApproverPosted, Zenon
    <2> QED
      BY <1>1, <1>10, <2>1, <2>2, Zenon DEF CpInv, RowsInv, ApprovalBy
  <1>15. CursorCovers'
    <2>1. ASSUME NEW i \in Posted, cpBinding.first <= i, Behind(i)'
          PROVE  Terminal(i)'
      <3>1. Behind(i) \/ i <= m.id
        BY <1>1, <1>2, <1>8, <2>1, CursorMoves, Zenon DEF Behind
      <3>2. CASE Behind(i)
        BY <1>2, <1>9, <2>1, <3>2, Zenon DEF CpInv, RowsInv, CursorCovers
      <3>3. CASE i <= m.id
        <4>1. i < m.id \/ i = m.id
          BY <1>2, <1>8, <3>3
        <4> QED
          BY <1>2, <1>6, <1>9, <2>1, <4>1, Zenon DEF DoneBelow
      <3> QED
        BY <3>1, <3>2, <3>3, Zenon
    <2> QED
      BY <1>1, <2>1, Zenon DEF CursorCovers
  <1>16. ApprovalTruthful'
    <2>1. ASSUME NEW i \in Ids, Terminal(i)', receipts'[i].digest.what = "approve"
          PROVE  receipts'[i].reason = "approval_approved" <=> cpApproval.by = i
      <3>1. CASE i # m.id
        <4>1. receipts'[i] = receipts[i] /\ Terminal(i)
          BY <1>5, <1>7, <2>1, <3>1, Zenon
        <4>2. Terminal(i) /\ receipts[i].digest.what = "approve" =>
                 (receipts[i].reason = "approval_approved" <=> cpApproval.by = i)
          BY Zenon DEF CpInv, RowsInv, ApprovalTruthful
        <4> QED
          BY <2>1, <4>1, <4>2, Zenon
      <3>2. CASE i = m.id
        <4>1. cpApproval.by = m.id => InboundAction(m.body) = "approval"
          <5>1. m.id # 0
            BY <1>2 DEF Ids
          <5> QED
            BY <1>3, <5>1, Zenon DEF CpInv, RowsInv, ApprovalBy
        <4> QED
          BY <1>4, <1>5, <3>2, <4>1, Zenon
      <3> QED
        BY <3>1, <3>2, Zenon
    <2> QED
      BY <1>1, <2>1, Zenon DEF ApprovalTruthful
  <1>17. AdmittedOnceInOrder'
    <2>1. ASSUME NEW k \in 1 .. Len(cpInbox)
          PROVE  /\ receipts'[cpInbox[k].id].digest = cpInbox[k].body
                 /\ receipts'[cpInbox[k].id].state \in {"reserved", "admitted"}
      <3>1. /\ receipts[cpInbox[k].id].digest = cpInbox[k].body
            /\ receipts[cpInbox[k].id].state \in {"reserved", "admitted"}
        BY Zenon DEF CpInv, RowsInv, AdmittedOnceInOrder
      <3>2. cpInbox[k].id \in Ids /\ InboundAction(cpInbox[k].body) = "input"
        BY <1>8, Zenon DEF CpInv, RowsInv, InboxIsInput
      <3>3. CASE cpInbox[k].id = m.id
        <4>1. cpInbox[k].body = m.body
          BY <1>3, <3>1, <3>3, Zenon
        <4>2. state = "admitted"
          BY <1>4, <3>2, <4>1, Zenon
        <4> QED
          BY <1>5, <3>3, <4>1, <4>2, Zenon
      <3>4. CASE cpInbox[k].id # m.id
        BY <1>5, <3>1, <3>2, <3>4, Zenon
      <3> QED
        BY <3>3, <3>4, Zenon
    <2>2. ASSUME NEW j \in Ids, receipts'[j].state = "admitted"
          PROVE  \E k \in 1 .. Len(cpInbox) : cpInbox[k].id = j
      <3>1. CASE j = m.id
        <4>1. InboundAction(m.body) = "input"
          BY <1>4, <1>5, <2>2, <3>1
        <4> QED
          BY <1>3, <3>1, <4>1, Zenon
      <3>2. CASE j # m.id
        <4>1. receipts[j].state = "admitted"
          BY <1>5, <2>2, <3>2, Zenon
        <4> QED
          BY <4>1, Zenon DEF CpInv, RowsInv, AdmittedOnceInOrder
      <3> QED
        BY <3>1, <3>2, Zenon
    <2>3. \A k, l \in 1 .. Len(cpInbox) : k < l => cpInbox[k].id < cpInbox[l].id
      BY Zenon DEF CpInv, RowsInv, AdmittedOnceInOrder
    <2> QED
      BY <1>1, <2>1, <2>2, <2>3 DEF AdmittedOnceInOrder
  <1> QED
    BY <1>6, <1>9, <1>12, <1>13, <1>14, <1>15, <1>16, <1>17, Zenon DEF RowsInv

LEMMA CompleteKeeps ==
  ASSUME CpInv, CompleteUpdate
  PROVE  CpInv'
  <1>1. PICK m : m = Head1
    BY Zenon
  <1>2. /\ poll.phase = "complete" /\ poll' = NextInBatch(m)
        /\ receipts' = [receipts EXCEPT ![m.id] =
              [@ EXCEPT !.state = Disposition(m).state, !.reason = Disposition(m).reason]]
        /\ cpBinding' = [cpBinding EXCEPT !.cursor = NewCursor(m)]
        /\ kind' = kind /\ cpFeed' = cpFeed /\ cpInbox' = cpInbox
        /\ cpPending' = cpPending /\ cpApproval' = cpApproval /\ admin' = admin
        /\ cpCrashes' = cpCrashes
    BY <1>1, Zenon DEF CompleteUpdate, NewCursor
  <1>3. m.id \in Posted /\ m.id \in Ids /\ cpBinding.status # "absent" /\ CpTyped
    BY <1>1, <1>2, HeadHasFacts, Zenon DEF HeadFacts, CpInv
  <1>4. receipts[m.id].state = "reserved" /\ receipts[m.id].digest = m.body
    BY <1>1, <1>2, Zenon DEF CpInv, BatchInv, HeadReserved
  <1>5. receipts[m.id] \in Receipts
    <2>1. receipts[m.id].state # "none"
      <3>1. "reserved" # "none"
        OBVIOUS
      <3> QED
        BY <1>4, <3>1, Zenon
    <2> QED
      BY <1>3, <2>1, ReceiptStates, Zenon
  <1>6. ReceiptSet(m.id, Disposition(m).state, m.body, Disposition(m).reason)
    <2>1. ReceiptSet(m.id, Disposition(m).state, receipts[m.id].digest,
                     Disposition(m).reason)
      BY <1>2, <1>3, <1>5, Dispositions, ReceiptCompleted, Zenon
    <2> QED
      BY <1>4, <2>1, Zenon
  <1>7. /\ cpBinding' \in ChannelRows /\ cpBinding'.cursor = NewCursor(m)
        /\ cpBinding'.first = cpBinding.first /\ cpBinding'.status = cpBinding.status
        /\ cpBinding'.secret = cpBinding.secret
    <2>1. cpBinding \in ChannelRows /\ NewCursor(m) \in 0 .. MaxPosts + 1
      BY <1>3, CursorMoves, Zenon DEF CpTyped
    <2> QED
      BY <1>2, <2>1, Zenon DEF ChannelRows
  <1>8. RowsInv' /\ Terminal(m.id)' /\ \A j \in Posted : Terminal(j) => Terminal(j)'
    BY <1>1, <1>2, <1>6, <1>7, CompleteRows, Zenon
  <1>9. BatchInv' /\ poll' \in Polls
    BY <1>1, <1>2, <1>3, <1>7, <1>8, NextBatch, Zenon
  <1>10. CpTyped'
    BY <1>2, <1>6, <1>7, <1>9, Zenon DEF CpInv, CpTyped, ReceiptSet
  <1>11. AdminInv'
    BY <1>2, <1>7, AdminKept, Zenon DEF CpInv
  <1> QED
    BY <1>8, <1>9, <1>10, <1>11, Zenon DEF CpInv

-----------------------------------------------------------------------------
(* Fetching: a page is a run of consecutive ids. *)
LEMMA FetchedTyped ==
  ASSUME CpTyped, NEW i \in Posted, NEW g \in {"none", "text", "ignored"}
  PROVE  Fetched(i, g) \in Messages /\ Fetched(i, g).id = i
  <1>1. cpFeed \in Seq(Posts) /\ i \in 1 .. Len(cpFeed) /\ i \in Ids
    BY PostedIds, Zenon DEF CpTyped, Posted
  <1>2. cpFeed[i] \in Posts
    BY <1>1
  <1>3. Body(i, g) \in CpBodies
    BY <1>2 DEF Body, Posts, CpBodies
  <1> QED
    BY <1>1, <1>3 DEF Fetched, Messages


(* The messages msgs have the ids of page, each once. *)
Holds(msgs, page) ==
    /\ msgs \subseteq Messages
    /\ \A m, n \in msgs : m.id = n.id => m = n
    /\ \A m \in msgs : m.id \in page
    /\ \A i \in page : \E m \in msgs : m.id = i

LEMMA PageHeld ==
  ASSUME CpTyped, NEW page, page \subseteq Posted,
         NEW got, \A i \in page : got[i] \in {"none", "text", "ignored"}
  PROVE  Holds({Fetched(i, got[i]) : i \in page}, page)
  <1>1. \A i \in page : Fetched(i, got[i]) \in Messages /\ Fetched(i, got[i]).id = i
    BY FetchedTyped, Zenon
  <1> DEFINE f(i) == Fetched(i, got[i])
  <1>2. \A i \in page : f(i) \in Messages /\ f(i).id = i
    BY <1>1, Zenon
  <1> HIDE DEF f
  <1>3. \A m \in {f(i) : i \in page} : m \in Messages /\ m.id \in page /\ m = f(m.id)
    BY <1>2, Zenon
  <1>4. \A i \in page : f(i) \in {f(j) : j \in page}
    BY Zenon
  <1>5. Holds({f(i) : i \in page}, page)
    BY <1>2, <1>3, <1>4, Zenon DEF Holds
  <1> QED
    BY <1>5, Zenon DEF f

LEMMA DiscordPageHeld ==
  ASSUME CpTyped, NEW page, page \subseteq Posted
  PROVE  Holds({Fetched(i, "none") : i \in page}, page)
  <1>1. "none" \in {"none", "text", "ignored"}
    OBVIOUS
  <1>2. \A i \in page : Fetched(i, "none") \in Messages /\ Fetched(i, "none").id = i
    BY <1>1, FetchedTyped, Zenon
  <1> QED
    BY <1>2, Zenon DEF Holds

LEMMA OldestOfRun ==
  ASSUME NEW lo \in Int, NEW hi \in Int, lo <= hi
  PROVE  OldestOf(lo .. hi) = lo
  <1>1. lo \in lo .. hi /\ \A j \in lo .. hi : lo <= j
    OBVIOUS
  <1>2. PICK i \in lo .. hi : i = OldestOf(lo .. hi) /\ \A j \in lo .. hi : i <= j
    BY <1>1, Zenon DEF OldestOf
  <1>3. i <= lo /\ lo <= i
    BY <1>1, <1>2, Zenon
  <1>4. i = lo
    BY <1>3
  <1> QED
    BY <1>2, <1>4, Zenon

LEMMA FetchKeeps ==
  ASSUME CpInv, NEW p \in {"paging", "fetched"}, NEW msgs, NEW b \in Nat,
         NEW lo \in Int, NEW hi \in Int,
         poll' = [phase |-> p, messages |-> msgs, before |-> b],
         Holds(msgs, lo .. hi), lo .. hi \subseteq Posted,
         lo <= hi => cpBinding.first <= lo,
         p = "paging" => /\ lo <= hi /\ b = lo /\ cpBinding.cursor < lo
                         /\ kind = "discord",
         p = "fetched" /\ lo <= hi => DoneBelow(lo),
         cpBinding.status # "absent",
         UNCHANGED <<kind, cpFeed, cpBinding, receipts, cpInbox, cpPending, cpApproval,
                     admin, cpCrashes>>
  PROVE  CpInv'
  <1>1. /\ kind' = kind /\ cpFeed' = cpFeed /\ cpBinding' = cpBinding
        /\ receipts' = receipts /\ cpInbox' = cpInbox /\ cpPending' = cpPending
        /\ cpApproval' = cpApproval /\ admin' = admin /\ cpCrashes' = cpCrashes
        /\ Posted' = Posted
    BY Zenon DEF Posted
  <1>2. poll'.phase = p /\ poll'.messages = msgs /\ poll'.before = b
    BY Zenon
  <1>3. poll' \in Polls
    <2>1. msgs \subseteq Messages
      BY Zenon DEF Holds
    <2> QED
      BY <2>1 DEF Polls
  <1>4. RowsInv'
    <2>1. RowsAlike
      BY <1>1, Zenon DEF RowsAlike, FieldsAlike
    <2> QED
      BY <2>1, RowsKept, Zenon DEF CpInv
  <1>5. AdminInv'
    BY <1>1, AdminKept, Zenon DEF CpInv
  <1>6. CpTyped'
    BY <1>1, <1>3, Zenon DEF CpInv, CpTyped
  <1>7. BatchDiffers'
    BY <1>2, Zenon DEF Holds, BatchDiffers
  <1>8. /\ p # "idle" /\ p \notin {"reserve", "act", "complete"}
        /\ p \notin {"act", "complete"} /\ p # "complete"
        /\ p \in {"paging", "reserve", "act", "complete"} => p = "paging"
        /\ p = "paging" \/ p = "fetched"
    OBVIOUS
  <1>9. HeadReserved' /\ HeadAdmitted'
    BY <1>2, <1>8, Zenon DEF HeadReserved, HeadAdmitted
  <1>10. lo <= hi => lo \in lo .. hi /\ hi \in lo .. hi
    OBVIOUS
  <1>11. PhaseAgrees'
    <2>1. p = "paging" => msgs # {}
      BY <1>10, Zenon DEF Holds
    <2> QED
      BY <1>1, <1>2, <1>8, <2>1, Zenon DEF PhaseAgrees
  <1>12. BatchIsRun'
    <2>1. SUFFICES ASSUME msgs # {}
                   PROVE  \E l \in Posted', h \in Posted' :
                             /\ Spans(l, h)' /\ cpBinding'.first <= l
                             /\ IF p = "paging" THEN l = b /\ cpBinding'.cursor < l
                                                ELSE DoneBelow(l)'
      BY <1>2, Zenon DEF BatchIsRun
    <2>2. lo <= hi
      <3>1. PICK m \in msgs : m.id \in lo .. hi
        BY <2>1, Zenon DEF Holds
      <3> QED
        BY <3>1
    <2>3. lo \in Posted /\ hi \in Posted
      BY <1>10, <2>2, Zenon
    <2>4. Spans(lo, hi)'
      <3>1. \A m \in msgs : lo <= m.id /\ m.id <= hi
        <4>1. \A i \in lo .. hi : lo <= i /\ i <= hi
          OBVIOUS
        <4> QED
          BY <4>1, Zenon DEF Holds
      <3> QED
        BY <1>2, <3>1, Zenon DEF Spans, Holds
    <2>5. DoneBelow(lo) => DoneBelow(lo)'
      BY <1>1, DoneAlike, Zenon
    <2> QED
      BY <1>1, <1>8, <2>2, <2>3, <2>4, <2>5, Zenon
  <1> QED
    BY <1>4, <1>5, <1>6, <1>7, <1>9, <1>11, <1>12, Zenon DEF CpInv, BatchInv

(* What is not behind the cursor starts where everything before is dealt with. *)
LEMMA DoneUpTo ==
  ASSUME CpInv, cpBinding.status # "absent", NEW lo \in Int,
         \A i \in Nat : 1 <= i /\ i < lo =>
             IF kind = "telegram" THEN i < cpBinding.cursor ELSE i <= cpBinding.cursor
  PROVE  DoneBelow(lo)
  <1>1. \A i \in Posted : i \in Nat /\ 1 <= i
    BY PostedIds, Zenon DEF CpInv
  <1>2. \A i \in Posted : i < lo => Behind(i)
    BY <1>1, Zenon DEF Behind
  <1>3. \A i \in Posted : cpBinding.first <= i <=> i >= cpBinding.first
    BY <1>1, BindingFields DEF CpInv
  <1> QED
    BY <1>2, <1>3, Zenon DEF DoneBelow, CpInv, RowsInv, CursorCovers

LEMMA FetchTelegramKeeps ==
  ASSUME CpInv, FetchTelegramUpdates
  PROVE  CpInv'
  <1> DEFINE n == Len(cpFeed)
             c == cpBinding.cursor
             f == cpBinding.first
             page == OldestAfter(c - 1)
             lo == IF c = 0 THEN 1 ELSE c
             hi == IF n <= c - 1 + PageSize THEN n ELSE c - 1 + PageSize
  <1>1. CpTyped /\ kind = "telegram" /\ cpBinding.status = "active"
    BY Zenon DEF CpInv, FetchTelegramUpdates, TelegramPollTarget
  <1>2. cpBinding.status # "absent"
    BY <1>1
  <1>3. c \in Nat /\ f \in Nat /\ n \in Nat /\ PageSize \in Nat /\ 1 <= PageSize /\ f <= c
    BY <1>1, <1>2, BindingFields, PostedIds, Bounds, Zenon DEF CpInv, RowsInv, CursorFrom
  <1>4. PICK got \in [page -> {"none", "text", "ignored"}] :
           poll' = [phase |-> "fetched", messages |-> {Fetched(i, got[i]) : i \in page},
                    before |-> 0]
    BY Zenon DEF FetchTelegramUpdates
  <1>5. \A i \in page : got[i] \in {"none", "text", "ignored"}
    OBVIOUS
  <1>6. page \subseteq Posted
    BY Zenon DEF OldestAfter
  <1>7. page = {i \in 1 .. n : c - 1 < i /\ i - (c - 1) <= PageSize}
    BY Zenon DEF OldestAfter, Posted
  <1>8. Holds({Fetched(i, got[i]) : i \in page}, page)
    BY <1>1, <1>5, <1>6, PageHeld, Zenon
  <1>9. UNCHANGED <<kind, cpFeed, cpBinding, receipts, cpInbox, cpPending, cpApproval,
                    admin, cpCrashes>>
    BY Zenon DEF FetchTelegramUpdates
  <1> HIDE DEF n, c, f, page
  <1>10. page = lo .. hi
    BY <1>3, <1>7
  <1>11. /\ lo \in Int /\ hi \in Int /\ f <= lo
         /\ \A i \in Nat : 1 <= i /\ i < lo => i < c
    BY <1>3
  <1> HIDE DEF lo, hi
  <1>12. DoneBelow(lo)
    BY <1>1, <1>2, <1>11, DoneUpTo, Zenon DEF c
  <1>13. "fetched" \in {"paging", "fetched"} /\ "fetched" # "paging" /\ 0 \in Nat
    OBVIOUS
  <1>14. Holds({Fetched(i, got[i]) : i \in page}, lo .. hi) /\ lo .. hi \subseteq Posted
    BY <1>6, <1>8, <1>10, Zenon
  <1> DEFINE msgs == {Fetched(i, got[i]) : i \in page}
  <1>15. /\ Holds(msgs, lo .. hi)
         /\ poll' = [phase |-> "fetched", messages |-> msgs, before |-> 0]
    BY <1>4, <1>14, Zenon
  <1> HIDE DEF msgs
  <1> QED
    BY <1>2, <1>9, <1>11, <1>12, <1>13, <1>14, <1>15, FetchKeeps, Zenon DEF f

LEMMA FirstDiscordPage ==
  ASSUME CpInv, kind = "discord", cpBinding.status # "absent", NEW page,
         page \in {OldestAfter(cpBinding.cursor), NewestAfter(cpBinding.cursor)}
  PROVE  /\ page \subseteq Posted
         /\ \E lo \in Int, hi \in Int :
               /\ page = lo .. hi /\ cpBinding.first <= lo /\ cpBinding.cursor < lo
               /\ FullAfter(cpBinding.cursor) => lo <= hi
               /\ ~FullAfter(cpBinding.cursor) => lo = cpBinding.cursor + 1
  <1> DEFINE n == Len(cpFeed)
             c == cpBinding.cursor
             f == cpBinding.first
  <1>1. /\ c \in Nat /\ f \in Nat /\ n \in Nat /\ PageSize \in Nat /\ 1 <= PageSize
        /\ f <= c + 1 /\ c <= n
    BY BindingFields, PostedIds, Bounds, Zenon DEF CpInv, RowsInv, CursorFrom
  <1>2. /\ OldestAfter(c) = {i \in 1 .. n : c < i /\ i - c <= PageSize}
        /\ NewestAfter(c) = {i \in 1 .. n : c < i /\ n - i < PageSize}
        /\ FullAfter(c) <=> n - c >= PageSize
    BY Zenon DEF OldestAfter, NewestAfter, FullAfter, Posted
  <1>3. page \subseteq Posted
    BY Zenon DEF OldestAfter, NewestAfter
  <1>4. page = OldestAfter(c) \/ page = NewestAfter(c)
    BY Zenon
  <1> HIDE DEF n, c, f
  <1> DEFINE hi1 == IF n <= c + PageSize THEN n ELSE c + PageSize
             lo2 == IF c < n - PageSize THEN n - PageSize + 1 ELSE c + 1
  <1>5. /\ OldestAfter(c) = (c + 1) .. hi1 /\ c + 1 \in Int /\ hi1 \in Int
        /\ f <= c + 1 /\ c < c + 1
        /\ FullAfter(c) => c + 1 <= hi1
    BY <1>1, <1>2
  <1>6. /\ NewestAfter(c) = lo2 .. n /\ lo2 \in Int /\ n \in Int
        /\ f <= lo2 /\ c < lo2
    BY <1>1, <1>2
  <1>7. FullAfter(c) => lo2 <= n
    BY <1>1, <1>2
  <1>8. ~FullAfter(c) => lo2 = c + 1
    BY <1>1, <1>2
  <1> HIDE DEF hi1, lo2
  <1>9. \E lo \in Int, hi \in Int :
               /\ page = lo .. hi /\ f <= lo /\ c < lo
               /\ FullAfter(c) => lo <= hi
               /\ ~FullAfter(c) => lo = c + 1
    <2>1. CASE page = OldestAfter(c)
      BY <1>5, <2>1, Zenon
    <2>2. CASE page = NewestAfter(c)
      BY <1>6, <1>7, <1>8, <2>2, Zenon
    <2> QED
      BY <1>4, <2>1, <2>2, Zenon
  <1> QED
    BY <1>3, <1>9, Zenon DEF c, f

LEMMA FetchDiscordKeeps ==
  ASSUME CpInv, FetchDiscordMessages
  PROVE  CpInv'
  <1>1. CpTyped /\ kind = "discord" /\ cpBinding.status = "active"
    BY Zenon DEF CpInv, FetchDiscordMessages, DiscordPollTarget
  <1>2. cpBinding.status # "absent"
    BY <1>1
  <1>3. PICK page \in {OldestAfter(cpBinding.cursor), NewestAfter(cpBinding.cursor)} :
          poll' = [phase |-> IF FullAfter(cpBinding.cursor) THEN "paging" ELSE "fetched",
                   messages |-> {Fetched(i, "none") : i \in page},
                   before |-> IF page = {} THEN 0 ELSE OldestOf(page)]
    BY Zenon DEF FetchDiscordMessages
  <1>4. UNCHANGED <<kind, cpFeed, cpBinding, receipts, cpInbox, cpPending, cpApproval,
                    admin, cpCrashes>>
    BY Zenon DEF FetchDiscordMessages
  <1>5. page \subseteq Posted
    BY <1>1, <1>2, FirstDiscordPage, Zenon
  <1>6. PICK lo \in Int, hi \in Int :
               /\ page = lo .. hi /\ cpBinding.first <= lo /\ cpBinding.cursor < lo
               /\ FullAfter(cpBinding.cursor) => lo <= hi
               /\ ~FullAfter(cpBinding.cursor) => lo = cpBinding.cursor + 1
    BY <1>1, <1>2, FirstDiscordPage, Zenon
  <1> DEFINE msgs == {Fetched(i, "none") : i \in page}
             b == IF page = {} THEN 0 ELSE OldestOf(page)
             p == IF FullAfter(cpBinding.cursor) THEN "paging" ELSE "fetched"
  <1>7. Holds(msgs, lo .. hi) /\ lo .. hi \subseteq Posted
    BY <1>1, <1>5, <1>6, DiscordPageHeld, Zenon
  <1>8. b \in Nat /\ (lo <= hi => b = lo)
    <2>1. CASE lo <= hi
      <3>1. OldestOf(lo .. hi) = lo
        BY <2>1, OldestOfRun, Zenon
      <3>2. lo \in lo .. hi
        BY <2>1
      <3>3. lo \in Nat /\ page # {}
        BY <1>1, <1>5, <1>6, <3>2, PostedIds, Zenon
      <3> QED
        BY <1>6, <3>1, <3>3, Zenon
    <2>2. CASE ~(lo <= hi)
      <3>1. lo .. hi = {}
        BY <2>2
      <3>2. 0 \in Nat
        OBVIOUS
      <3> QED
        BY <1>6, <2>2, <3>1, <3>2, Zenon
    <2> QED
      BY <2>1, <2>2, Zenon
  <1>9. p = "paging" => FullAfter(cpBinding.cursor)
    OBVIOUS
  <1>10. p = "fetched" => DoneBelow(lo)
    <2>1. p = "fetched" => ~FullAfter(cpBinding.cursor)
      OBVIOUS
    <2>2. cpBinding.cursor \in Nat
      BY <1>1, BindingFields, Zenon
    <2>3. lo = cpBinding.cursor + 1 =>
             \A i \in Nat : 1 <= i /\ i < lo => i <= cpBinding.cursor
      BY <2>2
    <2>4. kind # "telegram"
      BY <1>1
    <2> QED
      BY <1>2, <1>6, <2>1, <2>3, <2>4, DoneUpTo, Zenon
  <1>11. p \in {"paging", "fetched"}
    OBVIOUS
  <1>12. poll' = [phase |-> p, messages |-> msgs, before |-> b]
    BY <1>3, Zenon
  <1> HIDE DEF msgs, b, p
  <1> QED
    BY <1>1, <1>2, <1>4, <1>6, <1>7, <1>8, <1>9, <1>10, <1>11, <1>12, FetchKeeps, Zenon

(* An older page extends the run downwards, to the cursor when it is the last. *)
Older(n, c, f, b, hi, size, page, relevant) ==
    /\ {n, c, f, b, hi, size} \subseteq Nat
    /\ 1 <= size /\ f <= c + 1 /\ c < b /\ b <= hi /\ hi <= n
    /\ page = {i \in 1 .. n : i < b /\ b - i <= size}
    /\ relevant = {i \in page : i > c}
Reaches(lo, n, c, f, b, hi, size, page, relevant) ==
    /\ relevant = lo .. b - 1 /\ lo .. hi \subseteq 1 .. n
    /\ relevant \cup (b .. hi) = lo .. hi
    /\ f <= lo /\ c < lo /\ lo <= b /\ lo <= hi
    /\ relevant # {} => lo <= b - 1
    /\ relevant = {} \/ relevant # page \/ ~(b > size) => lo = c + 1
LEMMA OlderPage ==
  ASSUME NEW n, NEW c, NEW f, NEW b, NEW hi, NEW size, NEW page, NEW relevant,
         Older(n, c, f, b, hi, size, page, relevant)
  PROVE  \E lo \in Int : Reaches(lo, n, c, f, b, hi, size, page, relevant)
  <1> DEFINE lo == IF c + 1 <= b - size THEN b - size ELSE c + 1
  <1>1. /\ n \in Nat /\ c \in Nat /\ f \in Nat /\ b \in Nat /\ hi \in Nat /\ size \in Nat
        /\ 1 <= size /\ f <= c + 1 /\ c < b /\ b <= hi /\ hi <= n
    BY Zenon DEF Older
  <1>2. /\ \A i : i \in page <=> i \in 1 .. n /\ i < b /\ b - i <= size
        /\ \A i : i \in relevant <=> i \in page /\ i > c
    BY Zenon DEF Older
  <1>3. lo \in Int /\ f <= lo /\ c < lo /\ lo <= b /\ lo <= hi
    BY <1>1
  <1>4. \A i : i \in relevant <=> i \in lo .. b - 1
    BY <1>1, <1>2
  <1>5. relevant = lo .. b - 1
    BY <1>4, Zenon
  <1>6. lo .. hi \subseteq 1 .. n
    BY <1>1, <1>3
  <1>7. relevant \cup (b .. hi) = lo .. hi
    <2>1. \A i : (i \in relevant \/ i \in b .. hi) <=> i \in lo .. hi
      BY <1>1, <1>3, <1>4
    <2> QED
      BY <2>1, Zenon
  <1>8. lo <= b - 1 => lo \in relevant
    BY <1>1, <1>3, <1>4
  <1>9. relevant # {} => lo <= b - 1
    BY <1>1, <1>3, <1>4
  <1>10. relevant = {} => lo = c + 1
    <2>1. ~(lo <= b - 1) => lo = c + 1
      BY <1>1
    <2> QED
      BY <1>8, <2>1, Zenon
  <1>11. relevant # page => lo = c + 1
    <2>1. relevant # page => \E i \in page : ~(i > c)
      BY <1>2, Zenon
    <2>2. (\E i \in page : ~(i > c)) => lo = c + 1
      BY <1>1, <1>2
    <2> QED
      BY <2>1, <2>2, Zenon
  <1>12. ~(b > size) => lo = c + 1
    BY <1>1
  <1> HIDE DEF lo
  <1> QED
    BY <1>3, <1>5, <1>6, <1>7, <1>9, <1>10, <1>11, <1>12, Zenon DEF Reaches

LEMMA HoldsTogether ==
  ASSUME NEW ms, NEW mt, NEW s, NEW t, Holds(ms, s), Holds(mt, t),
         \A i \in s : i \notin t
  PROVE  Holds(ms \cup mt, s \cup t)
  <1>1. \A m \in ms, k \in mt : m.id # k.id
    BY Zenon DEF Holds
  <1>2. ms \cup mt \subseteq Messages
    BY Zenon DEF Holds
  <1>3. \A m, k \in ms \cup mt : m.id = k.id => m = k
    <2>1. SUFFICES ASSUME NEW m \in ms \cup mt, NEW k \in ms \cup mt, m.id = k.id
                   PROVE  m = k
      BY Zenon
    <2>2. CASE m \in ms /\ k \in ms
      BY <2>1, <2>2, Zenon DEF Holds
    <2>3. CASE m \in mt /\ k \in mt
      BY <2>1, <2>3, Zenon DEF Holds
    <2> QED
      BY <1>1, <2>1, <2>2, <2>3, Zenon
  <1>4. \A m \in ms \cup mt : m.id \in s \cup t
    BY Zenon DEF Holds
  <1>5. \A i \in s \cup t : \E m \in ms \cup mt : m.id = i
    BY Zenon DEF Holds
  <1> QED
    BY <1>2, <1>3, <1>4, <1>5, Zenon DEF Holds

LEMMA FetchOlderKeeps ==
  ASSUME CpInv, FetchOlderDiscordPage
  PROVE  CpInv'
  <1> DEFINE n == Len(cpFeed)
             c == cpBinding.cursor
             f == cpBinding.first
             b == poll.before
             page == NewestBefore(b)
             relevant == {i \in page : i > c}
             more == {Fetched(i, "none") : i \in relevant}
             msgs == poll.messages \cup more
             last == \/ relevant = {} \/ relevant /= page
                     \/ ~FullBefore(b)
             p == IF last THEN "fetched" ELSE "paging"
             nb == IF relevant = {} THEN 0 ELSE OldestOf(relevant)
  <1>1. /\ poll.phase = "paging"
        /\ poll' = [phase |-> p, messages |-> msgs, before |-> nb]
        /\ UNCHANGED <<kind, cpFeed, cpBinding, receipts, cpInbox, cpPending, cpApproval,
                       admin, cpCrashes>>
    BY Zenon DEF FetchOlderDiscordPage
  <1>2. /\ poll.messages # {} /\ kind = "discord" /\ cpBinding.status # "absent"
        /\ CpTyped
    <2>1. /\ "paging" \in {"paging", "reserve", "act", "complete"}
          /\ "paging" # "idle"
      OBVIOUS
    <2> QED
      BY <1>1, <2>1, Zenon DEF CpInv, BatchInv, PhaseAgrees
  <1>3. PICK hi \in Posted : b \in Posted /\ Spans(b, hi) /\ c < b
    BY <1>1, <1>2, Zenon DEF CpInv, BatchInv, BatchIsRun
  <1>4. /\ c \in Nat /\ f \in Nat /\ n \in Nat /\ PageSize \in Nat /\ 1 <= PageSize
        /\ f <= c + 1 /\ c <= n /\ b \in Nat /\ 1 <= b /\ hi \in Nat /\ hi <= n
    BY <1>2, <1>3, BindingFields, PostedIds, Bounds, Zenon DEF CpInv, RowsInv, CursorFrom
  <1>5. b <= hi
    <2>1. PICK m : m \in poll.messages
      BY <1>2, Zenon
    <2>2. b <= m.id /\ m.id <= hi
      BY <1>3, <2>1, Zenon DEF Spans
    <2>3. m.id \in Nat
      BY <1>2, <2>1, PollFields, PostedIds DEF Messages
    <2> QED
      BY <1>4, <2>2, <2>3
  <1>6. Holds(poll.messages, b .. hi)
    <2>1. \A m \in poll.messages : m \in Messages /\ m.id \in Ids
      <3>1. poll.messages \subseteq Messages
        BY <1>2, PollFields, Zenon
      <3> QED
        BY <3>1 DEF Messages
    <2>2. \A m \in poll.messages : m.id \in b .. hi
      <3>1. \A m \in poll.messages : m.id \in Nat /\ b <= m.id /\ m.id <= hi
        BY <1>2, <1>3, <2>1, PostedIds, Zenon DEF Spans
      <3> QED
        BY <1>4, <3>1
    <2> QED
      BY <1>3, <2>1, <2>2, Zenon DEF Holds, Spans, CpInv, BatchInv, BatchDiffers
  <1>7. page = {i \in 1 .. n : i < b /\ b - i <= PageSize} /\ (FullBefore(b) <=> b > PageSize)
    BY Zenon DEF NewestBefore, Posted, FullBefore
  <1>8. Posted = 1 .. n
    BY Zenon DEF Posted
  <1>9. relevant \subseteq Posted
    BY <1>7, <1>8, Zenon
  <1>10. PICK lo \in Int :
           /\ relevant = lo .. b - 1 /\ lo .. hi \subseteq 1 .. n
           /\ relevant \cup (b .. hi) = lo .. hi
           /\ f <= lo /\ c < lo /\ lo <= b /\ lo <= hi
           /\ relevant # {} => lo <= b - 1
           /\ relevant = {} \/ relevant # page \/ ~(b > PageSize) => lo = c + 1
    <2>1. c < b /\ relevant = {i \in page : i > c}
      BY <1>3, Zenon
    <2> HIDE DEF n, c, f, b, page, relevant
    <2>2. Older(n, c, f, b, hi, PageSize, page, relevant)
      <3>1. {n, c, f, b, hi, PageSize} \subseteq Nat
        BY <1>4, Zenon
      <3>2. hi <= n /\ f <= c + 1 /\ 1 <= PageSize
        BY <1>4, Zenon
      <3> QED
        BY <1>5, <1>7, <2>1, <3>1, <3>2, Zenon DEF Older
    <2>3. PICK lo \in Int : Reaches(lo, n, c, f, b, hi, PageSize, page, relevant)
      BY <2>2, OlderPage, Zenon
    <2> QED
      BY <2>3, Zenon DEF Reaches
  <1>11. Holds(msgs, lo .. hi)
    <2>1. Holds(more, relevant)
      BY <1>2, <1>9, DiscordPageHeld, Zenon
    <2>2. \A i \in b .. hi : i \notin relevant
      <3>1. \A i \in b .. hi : i \notin lo .. b - 1
        BY <1>4
      <3> QED
        BY <1>10, <3>1, Zenon
    <2>3. Holds(msgs, (b .. hi) \cup relevant)
      BY <1>6, <2>1, <2>2, HoldsTogether, Zenon
    <2>4. (b .. hi) \cup relevant = lo .. hi
      BY <1>10, Zenon
    <2> QED
      BY <2>3, <2>4, Zenon
  <1>12. nb \in Nat /\ (relevant # {} => nb = lo)
    <2>1. CASE relevant # {}
      <3>1. b - 1 \in Int /\ lo <= b - 1
        BY <1>4, <1>10, <2>1
      <3>2. OldestOf(relevant) = lo
        BY <1>10, <3>1, OldestOfRun, Zenon
      <3>3. lo \in Nat
        BY <1>4, <1>10
      <3> QED
        BY <2>1, <3>2, <3>3, Zenon
    <2>2. CASE relevant = {}
      <3>1. 0 \in Nat
        OBVIOUS
      <3> QED
        BY <2>2, <3>1, Zenon
    <2> QED
      BY <2>1, <2>2, Zenon
  <1>13. last => lo = c + 1
    BY <1>7, <1>10, Zenon
  <1>14. ~last => relevant # {}
    BY Zenon
  <1>15. p \in {"paging", "fetched"} /\ (p = "paging" => ~last) /\ (p = "fetched" => last)
    <2>1. "paging" # "fetched"
      OBVIOUS
    <2> HIDE DEF last
    <2> QED
      BY <2>1, Zenon
  <1>16. last => DoneBelow(lo)
    <2>1. lo = c + 1 => \A i \in Nat : 1 <= i /\ i < lo => i <= c
      BY <1>4
    <2>2. kind # "telegram"
      BY <1>2
    <2> HIDE DEF last
    <2> QED
      BY <1>2, <1>13, <2>1, <2>2, DoneUpTo, Zenon
  <1>17. p = "paging" => nb = lo
    BY <1>12, <1>14, <1>15, Zenon
  <1>18. /\ lo .. hi \subseteq Posted /\ cpBinding.first <= lo /\ cpBinding.cursor < lo
         /\ lo <= hi /\ hi \in Int
    BY <1>4, <1>8, <1>10
  <1>19. p = "fetched" => DoneBelow(lo)
    BY <1>15, <1>16, Zenon
  <1> HIDE DEF last, p, nb, msgs, more, relevant, page, n, b, c, f
  <1> QED
    BY <1>1, <1>2, <1>11, <1>12, <1>15, <1>17, <1>18, <1>19, FetchKeeps, Zenon

-----------------------------------------------------------------------------
LEMMA CpInvInitially ==
  ASSUME CpInit
  PROVE  CpInv
  <1>1. /\ kind \in Kinds /\ cpFeed = <<>> /\ cpInbox = <<>> /\ cpPending = 0
        /\ cpBinding = [status |-> "absent", secret |-> FALSE, cursor |-> 0,
                        first |-> 0, failures |-> 0]
        /\ receipts = [i \in Ids |-> NoReceipt]
        /\ cpApproval = [state |-> "pending", by |-> 0]
        /\ poll = Idle /\ admin = "none" /\ cpCrashes = 0
    BY Zenon DEF CpInit
  <1>2. /\ poll.phase = "idle" /\ poll.messages = {} /\ poll.before = 0
        /\ cpBinding.status = "absent" /\ cpBinding.secret = FALSE
        /\ cpApproval.state = "pending" /\ cpApproval.by = 0
    BY <1>1 DEF Idle
  <1>3. Len(cpFeed) = 0 /\ Len(cpInbox) = 0 /\ Posted = {}
    BY <1>1 DEF Posted
  <1>4. \A i \in Ids : receipts[i] = NoReceipt
    BY <1>1, Zenon
  <1>5. NoReceipt.state = "none" /\ "none" \notin {"admitted", "ignored"}
    BY Zenon DEF NoReceipt
  <1>6. \A i \in Ids : receipts[i].state = "none" /\ ~Terminal(i)
    BY <1>4, <1>5, Zenon DEF Terminal
  <1>7. CpTyped
    <2>1. kind \in {"telegram", "discord"}
      BY <1>1, Zenon DEF PollAssumption
    <2>2. cpFeed \in Seq(Posts) /\ cpInbox \in Seq(Messages) /\ Len(cpFeed) <= MaxPosts
      BY <1>1, Bounds
    <2>3. cpBinding \in ChannelRows
      BY <1>1, Bounds DEF ChannelRows
    <2>4. receipts \in [Ids -> {NoReceipt} \cup Receipts]
      BY <1>1, Zenon
    <2>5. cpPending \in 0 .. MaximumPending /\ cpCrashes \in Nat
      BY <1>1, Bounds
    <2>6. cpApproval \in [state : {"pending", "approved", "denied"}, by : 0 .. MaxPosts]
      BY <1>1, Bounds
    <2>7. poll \in Polls
      BY <1>1 DEF Idle, Polls
    <2>8. admin \in {"none", "registering", "revoking"}
      BY <1>1
    <2> QED
      BY <1>1, <2>1, <2>2, <2>3, <2>4, <2>5, <2>6, <2>7, <2>8, Zenon DEF CpTyped
  <1>8. BatchInv
    <2>1. BatchDiffers /\ BatchIsRun
      BY <1>2, Zenon DEF BatchDiffers, BatchIsRun
    <2>2. PhaseAgrees /\ HeadReserved /\ HeadAdmitted
      BY <1>2 DEF PhaseAgrees, HeadReserved, HeadAdmitted
    <2> QED
      BY <2>1, <2>2, Zenon DEF BatchInv
  <1>9. RowsInv
    <2>1. \A k : k \notin 1 .. Len(cpInbox)
      BY <1>3
    <2>2. \A i \in Ids : receipts[i].state # "admitted"
      BY <1>6
    <2> QED
      BY <1>2, <1>6, <2>1, <2>2, Zenon
      DEF RowsInv, CursorFrom, InboxIsInput, ApprovalBy, CursorCovers,
          AdmittedOnceInOrder, ApprovalTruthful
  <1>10. AdminInv
    BY <1>1, <1>2 DEF AdminInv, AdminAgrees, CredentialFollowsBinding
  <1> QED
    BY <1>7, <1>8, <1>9, <1>10, Zenon DEF CpInv

LEMMA CpInvStutters ==
  ASSUME CpInv, UNCHANGED cpVars
  PROVE  CpInv'
  <1>1. /\ kind' = kind /\ cpFeed' = cpFeed /\ cpBinding' = cpBinding
        /\ receipts' = receipts /\ cpInbox' = cpInbox /\ cpPending' = cpPending
        /\ cpApproval' = cpApproval /\ poll' = poll /\ admin' = admin
        /\ cpCrashes' = cpCrashes
    BY Zenon DEF cpVars
  <1>2. RowsAlike /\ FieldsAlike
    BY <1>1, Zenon DEF RowsAlike, FieldsAlike
  <1>3. CpTyped'
    BY <1>1, Zenon DEF CpInv, CpTyped
  <1> QED
    BY <1>1, <1>2, <1>3, RowsKept, BatchKept, AdminKept, Zenon DEF CpInv

LEMMA CpInvKept ==
  ASSUME CpInv, [CpNext]_cpVars
  PROVE  CpInv'
  <1>1. ASSUME NEW what \in Contents, Post(what) PROVE CpInv'
    BY <1>1, PostKeeps, Zenon
  <1>2. ASSUME NEW i \in Posted, EditMessage(i) PROVE CpInv'
    BY <1>2, EditKeeps, Zenon
  <1>3. ASSUME \/ PromoteOne \/ StoreCredential \/ Register \/ RegisterConflict
               \/ RemoveCredential \/ RevokeChannel
        PROVE  CpInv'
    BY <1>3, PromoteKeeps, CredentialStepKeeps, RegisterKeeps, RevokeKeeps, Zenon
  <1>4. ASSUME \/ FetchTelegramUpdates \/ FetchDiscordMessages \/ FetchOlderDiscordPage
               \/ PollFails \/ RecordPoll \/ ReserveUpdate
        PROVE  CpInv'
    BY <1>4, FetchTelegramKeeps, FetchDiscordKeeps, FetchOlderKeeps, PollFailsKeeps,
       RecordPollKeeps, ReserveKeeps, Zenon
  <1>5. ASSUME \/ AdmitMessage \/ ResolveApproval \/ IgnoreMessage \/ DecideElsewhere
               \/ CompleteUpdate \/ CpCrash
        PROVE  CpInv'
    BY <1>5, AdmitMessageKeeps, ResolveKeeps, IgnoreKeeps, DecideKeeps, CompleteKeeps,
       CrashKeeps, Zenon
  <1>6. ASSUME UNCHANGED cpVars PROVE CpInv'
    BY <1>6, CpInvStutters, Zenon
  <1> QED
    BY <1>1, <1>2, <1>3, <1>4, <1>5, <1>6, Zenon DEF CpNext

LEMMA CpInvIsSafe ==
  ASSUME CpInv
  PROVE  ChannelSafety
  <1>1. CpTyped /\ BatchIsRun /\ RowsInv /\ CredentialFollowsBinding
    BY Zenon DEF CpInv, BatchInv, AdminInv
  <1>2. \A i \in Posted : cpFeed[i].what \in PostKinds /\ cpFeed[i].edits \in 0 .. MaxEdits
    <2>1. \A i \in Posted : cpFeed[i] \in Posts
      BY <1>1 DEF CpTyped, Posted
    <2> QED
      BY <2>1, Zenon DEF Posts
  <1>3. \A i \in Ids : receipts[i].state \in {"none", "reserved", "admitted", "ignored"}
    <2>1. SUFFICES ASSUME NEW i \in Ids
                   PROVE  receipts[i].state \in {"none", "reserved", "admitted", "ignored"}
      BY Zenon
    <2>2. receipts[i] \in {NoReceipt} \cup Receipts
      BY <1>1, Zenon DEF CpTyped
    <2>3. NoReceipt.state = "none"
      BY Zenon DEF NoReceipt
    <2>4. CASE receipts[i] = NoReceipt
      <3>1. receipts[i].state = "none"
        BY <2>3, <2>4, Zenon
      <3> QED
        BY <3>1, Zenon
    <2>5. CASE receipts[i] \in Receipts
      <3>1. receipts[i].state \in {"reserved", "admitted", "ignored"}
        BY <2>5, Zenon DEF Receipts
      <3> QED
        BY <3>1, Zenon
    <2> QED
      BY <2>2, <2>4, <2>5, Zenon
  <1>4. \A m \in poll.messages : m.id \in Posted
    <2>1. SUFFICES ASSUME NEW m \in poll.messages PROVE m.id \in Posted
      BY Zenon
    <2>2. PICK lo \in Posted, hi \in Posted : Spans(lo, hi)
      BY <1>1, <2>1, Zenon DEF BatchIsRun
    <2>3. lo <= m.id /\ m.id <= hi
      BY <2>1, <2>2, Zenon DEF Spans
    <2>4. m.id \in Ids
      <3>1. m \in Messages
        BY <1>1, <2>1, PollFields, Zenon
      <3> QED
        BY <3>1, Zenon DEF Messages
    <2>5. m.id \in Nat /\ 1 <= m.id /\ hi \in Nat /\ hi <= Len(cpFeed) /\ Len(cpFeed) \in Nat
      BY <1>1, <2>2, <2>4, PostedIds, Zenon
    <2>6. m.id <= Len(cpFeed)
      BY <2>3, <2>5
    <2> QED
      BY <1>1, <2>5, <2>6, PostedIds, Zenon
  <1>5. CpTypeOK
    <2>1. /\ cpApproval.state \in {"pending", "approved", "denied"}
          /\ cpApproval.by \in 0 .. MaxPosts
      BY <1>1, Zenon DEF CpTyped
    <2>2. poll.phase \in {"idle", "paging", "fetched", "reserve", "act", "complete"}
      BY <1>1, PollFields, Zenon
    <2> QED
      BY <1>1, <1>2, <1>3, <1>4, <2>1, <2>2, Zenon DEF CpTyped, CpTypeOK
  <1> QED
    BY <1>1, <1>5, Zenon DEF RowsInv, ChannelSafety

(* Whatever pages the platform answers with, whatever is posted or edited   *)
(* meanwhile and wherever the daemon stops: the cursor of a channel passes  *)
(* only messages with a terminal receipt, every message is admitted at most *)
(* once and in order with the body its receipt was reserved for, the receipt*)
(* of an approval tells whether this message decided it, and a credential   *)
(* is kept exactly as long as its binding.                                  *)
THEOREM ChannelSafe == CpSpec => []ChannelSafety
  <1>1. CpInit => CpInv
    BY CpInvInitially, Zenon
  <1>2. CpInv /\ [CpNext]_cpVars => CpInv'
    BY CpInvKept, Zenon
  <1>3. CpInv => ChannelSafety
    BY CpInvIsSafe, Zenon
  <1> QED
    BY <1>1, <1>2, <1>3, PTL DEF CpSpec

-----------------------------------------------------------------------------
(* A message that has its terminal receipt keeps it: no repeat of the fetch,*)
(* edit of the message or restart reopens or rewrites the row.              *)
ReceiptKept == \A i \in Ids : Terminal(i) => receipts'[i] = receipts[i]

LEMMA ReceiptStepKept ==
  ASSUME CpInv, [CpNext]_cpVars
  PROVE  ReceiptKept
  <1>1. ASSUME receipts' = receipts PROVE ReceiptKept
    BY <1>1, Zenon DEF ReceiptKept
  <1>2. ASSUME NEW j, NEW r, receipts' = [receipts EXCEPT ![j] = r],
               receipts[j].state \in {"none", "reserved"}
        PROVE  ReceiptKept
    <2>1. ~Terminal(j)
      BY <1>2 DEF Terminal
    <2> QED
      BY <1>2, <2>1, Zenon DEF ReceiptKept, CpInv, CpTyped
  <1>3. CASE ReserveUpdate
    <2>1. PICK m : m = Head1
      BY Zenon
    <2>2. \/ receipts' = receipts
          \/ /\ receipts' = [receipts EXCEPT ![m.id] = [state |-> "reserved",
                                digest |-> m.body, reason |-> ""]]
             /\ \/ ReserveTelegramUpdate(m) = "new"
                \/ ReserveDiscordMessage(m) = "new"
      BY <1>3, <2>1, Zenon DEF ReserveUpdate
    <2>3. ASSUME ReserveTelegramUpdate(m) = "new" \/ ReserveDiscordMessage(m) = "new"
          PROVE  receipts[m.id].state \in {"none", "reserved"}
      <3>1. (m.id < cpBinding.cursor) \in BOOLEAN /\ (m.id <= cpBinding.cursor) \in BOOLEAN
        OBVIOUS
      <3>2. receipts[m.id].state = "none"
        BY <2>3, <3>1, Reservations, Zenon DEF ReserveTelegramUpdate, ReserveDiscordMessage
      <3> QED
        BY <3>2, Zenon
    <2> QED
      BY <1>1, <1>2, <2>2, <2>3, Zenon
  <1>4. CASE CompleteUpdate
    <2>1. PICK m : m = Head1
      BY Zenon
    <2>2. PICK r : receipts' = [receipts EXCEPT ![m.id] = r]
      BY <1>4, <2>1, Zenon DEF CompleteUpdate
    <2>3. receipts[m.id].state = "reserved"
      BY <1>4, <2>1, Zenon DEF CompleteUpdate, CpInv, BatchInv, HeadReserved
    <2>4. receipts[m.id].state \in {"none", "reserved"}
      BY <2>3, Zenon
    <2> QED
      BY <1>2, <2>2, <2>4, Zenon
  <1>5. ASSUME \/ \E what \in Contents : Post(what)
               \/ \E i \in Posted : EditMessage(i)
               \/ PromoteOne \/ StoreCredential \/ Register \/ RegisterConflict
               \/ RemoveCredential \/ RevokeChannel
        PROVE  receipts' = receipts
    BY <1>5, Zenon DEF Post, EditMessage, PromoteOne, StoreCredential, Register,
       RegisterConflict, RemoveCredential, RevokeChannel
  <1>6. ASSUME \/ FetchTelegramUpdates \/ FetchDiscordMessages \/ FetchOlderDiscordPage
               \/ PollFails \/ RecordPoll
        PROVE  receipts' = receipts
    BY <1>6, Zenon DEF FetchTelegramUpdates, FetchDiscordMessages, FetchOlderDiscordPage,
       PollFails, RecordPoll
  <1>7. ASSUME \/ AdmitMessage \/ ResolveApproval \/ IgnoreMessage \/ DecideElsewhere
               \/ CpCrash \/ UNCHANGED cpVars
        PROVE  receipts' = receipts
    BY <1>7, Zenon DEF AdmitMessage, ResolveApproval, IgnoreMessage, DecideElsewhere,
       CpCrash, cpVars
  <1> QED
    BY <1>1, <1>3, <1>4, <1>5, <1>6, <1>7, Zenon DEF CpNext

(* Terminal receipts of a channel are final, in every step of the daemon,   *)
(* the platform and the owner.                                              *)
THEOREM ReceiptsAreFinal == CpSpec => [][ReceiptKept]_cpVars
  <1>1. CpInit => CpInv
    BY CpInvInitially, Zenon
  <1>2. CpInv /\ [CpNext]_cpVars => CpInv'
    BY CpInvKept, Zenon
  <1>3. CpInv /\ [CpNext]_cpVars => [ReceiptKept]_cpVars
    BY ReceiptStepKept, Zenon
  <1> QED
    BY <1>1, <1>2, <1>3, PTL DEF CpSpec
=============================================================================
