----------------------------- MODULE ChannelPoll -----------------------------
(***************************************************************************)
(* The two polled chat channels of mealyd, Telegram and Discord: the store  *)
(* of sqlite/telegram.rs and sqlite/discord.rs (binding, poll cursor,       *)
(* per-update receipts), the drivers of mealyd's main.rs that fetch, reserve,*)
(* apply and complete what the platform delivers, and the two administrative *)
(* commands of backend.rs that store or remove the bot credential around a  *)
(* binding's registration and revocation.                                   *)
(*                                                                         *)
(* One channel is modelled; `kind' says which platform it is.  The platform *)
(* numbers what the owner posts 1, 2, ...; `cpFeed' is what it would return *)
(* now.  Every store call is one transaction; the driver keeps the store's  *)
(* write guard from the poll record to the end of the batch, and a crash can *)
(* come between any two calls.                                              *)
(***************************************************************************)
EXTENDS Integers, Sequences, FiniteSets

CONSTANTS
    Kinds,              \* the platforms: a subset of {"telegram", "discord"}
    Contents,           \* what is posted: a subset of PostKinds
    MaxPosts,           \* bound: messages posted
    PageSize,           \* 100 in the code: one page of a platform's answer
    MaximumBacklog,     \* 10 000 in the code: Discord messages of one fetch
    MaximumPending,     \* maximum_pending_inputs_per_session
    FailureCap,         \* 1 000 000 000 in the code
    MaxCrashes,         \* bound: restarts of the daemon
    MaxEdits            \* bound: edits of a Discord message, one message being edited

PostKinds == {"text", "command", "approve", "file", "malformed"}

ASSUME PollAssumption ==
    /\ Kinds \subseteq {"telegram", "discord"} /\ Contents \subseteq PostKinds
    /\ {MaxPosts, PageSize, MaximumBacklog, MaximumPending, FailureCap} \subseteq Nat \ {0}
    /\ {MaxCrashes, MaxEdits} \subseteq Nat

VARIABLES
    kind,       \* the platform of the channel
    cpFeed,     \* what the platform holds: a sequence of [what, edits]
    cpBinding,  \* the channel row: status, secret (credential on disk), cursor, failures
    receipts,   \* the update rows by id
    cpInbox,    \* the inputs admitted, in order: [id, body]
    cpPending,  \* how many of them are not promoted yet
    cpApproval, \* the one approval a message can decide: [state, by]
    poll,       \* the driver's memory: [phase, messages, before]
    admin,      \* the administrative command in progress
    cpCrashes   \* restarts so far

cpVars == <<kind, cpFeed, cpBinding, receipts, cpInbox, cpPending, cpApproval,
            poll, admin, cpCrashes>>

Ids == 1 .. MaxPosts
Posted == 1 .. Len(cpFeed)

(* A channel row with its cursor and health rows.                           *)
ChannelRows ==
    [status : {"absent", "active", "revoked"}, secret : BOOLEAN,
     cursor : 0 .. MaxPosts + 1, first : 0 .. MaxPosts + 1, failures : 0 .. FailureCap]

NoReceipt == [state |-> "none", digest |-> <<>>, reason |-> ""]
Idle == [phase |-> "idle", messages |-> {}, before |-> 0]
Locked == poll.phase \in {"reserve", "act", "complete"}

(* A message that was there before the channel was registered is never      *)
(* delivered: the first cursor is past it.                                  *)
TelegramFirstCursor(old) == old + 1
DiscordFirstCursor(old) == old

CpInit ==
    /\ kind \in Kinds
    /\ cpFeed = <<>>
    /\ cpBinding = [status |-> "absent", secret |-> FALSE, cursor |-> 0,
                    first |-> 0, failures |-> 0]
    /\ receipts = [i \in Ids |-> NoReceipt]
    /\ cpInbox = <<>>
    /\ cpPending = 0
    /\ cpApproval = [state |-> "pending", by |-> 0]
    /\ poll = Idle
    /\ admin = "none"
    /\ cpCrashes = 0

-----------------------------------------------------------------------------
(* The platform and the rest of the daemon.                                 *)

Post(what) ==
    /\ Len(cpFeed) < MaxPosts
    /\ what = "malformed" => kind = "telegram"
    /\ cpFeed' = Append(cpFeed, [what |-> what, edits |-> 0])
    /\ UNCHANGED <<kind, cpBinding, receipts, cpInbox, cpPending, cpApproval, poll,
                   admin, cpCrashes>>

(* Discord returns a message as it is now, so an edit (or a link preview    *)
(* added later) changes what the next fetch sees.  A Telegram update of a   *)
(* new message never changes; an edit is another update.                    *)
EditMessage(i) ==
    /\ kind = "discord"
    /\ cpFeed[i].edits < MaxEdits /\ \A j \in Posted \ {i} : cpFeed[j].edits = 0
    /\ cpFeed' = [cpFeed EXCEPT ![i].edits = @ + 1]
    /\ UNCHANGED <<kind, cpBinding, receipts, cpInbox, cpPending, cpApproval, poll,
                   admin, cpCrashes>>

(* The promotion driver takes one pending input; it needs the write guard.  *)
PromoteOne ==
    /\ cpPending > 0 /\ ~Locked
    /\ cpPending' = cpPending - 1
    /\ UNCHANGED <<kind, cpFeed, cpBinding, receipts, cpInbox, cpApproval, poll,
                   admin, cpCrashes>>

-----------------------------------------------------------------------------
(* Administration.  The credential is written before the binding is         *)
(* registered and removed again when the registration is refused; it is     *)
(* removed before the binding is revoked.                                   *)

(* create_telegram_channel verifies the bot before anything is stored,      *)
(* create_discord_channel the bot, the DM and its latest message.           *)
CreateTelegramChannel == kind = "telegram" /\ cpBinding' = [cpBinding EXCEPT !.secret = TRUE]
CreateDiscordChannel == kind = "discord" /\ cpBinding' = [cpBinding EXCEPT !.secret = TRUE]

StoreCredential ==
    /\ admin = "none" /\ cpBinding.status = "absent"
    /\ CreateTelegramChannel \/ CreateDiscordChannel
    /\ admin' = "registering"
    /\ UNCHANGED <<kind, cpFeed, receipts, cpInbox, cpPending, cpApproval, poll, cpCrashes>>

RegisterTelegramChannel ==
    /\ kind = "telegram"
    /\ cpBinding' = [cpBinding EXCEPT !.status = "active",
                                      !.cursor = TelegramFirstCursor(Len(cpFeed)),
                                      !.first = Len(cpFeed) + 1]

RegisterDiscordChannel ==
    /\ kind = "discord"
    /\ cpBinding' = [cpBinding EXCEPT !.status = "active",
                                      !.cursor = DiscordFirstCursor(Len(cpFeed)),
                                      !.first = Len(cpFeed) + 1]

Register ==
    /\ admin = "registering"
    /\ \/ RegisterTelegramChannel
       \/ RegisterDiscordChannel
    /\ admin' = "none"
    /\ UNCHANGED <<kind, cpFeed, receipts, cpInbox, cpPending, cpApproval, poll, cpCrashes>>

(* The token or the platform identity already belongs to another binding.   *)
RegisterConflict ==
    /\ admin = "registering"
    /\ cpBinding' = [cpBinding EXCEPT !.secret = FALSE]
    /\ admin' = "none"
    /\ UNCHANGED <<kind, cpFeed, receipts, cpInbox, cpPending, cpApproval, poll, cpCrashes>>

RemoveTelegramCredential == kind = "telegram" /\ cpBinding' = [cpBinding EXCEPT !.secret = FALSE]
RemoveDiscordCredential == kind = "discord" /\ cpBinding' = [cpBinding EXCEPT !.secret = FALSE]

RemoveCredential ==
    /\ admin = "none" /\ cpBinding.status = "active"
    /\ RemoveTelegramCredential \/ RemoveDiscordCredential
    /\ admin' = "revoking"
    /\ UNCHANGED <<kind, cpFeed, receipts, cpInbox, cpPending, cpApproval, poll, cpCrashes>>

RevokeTelegramChannel == kind = "telegram" /\ cpBinding' = [cpBinding EXCEPT !.status = "revoked"]
RevokeDiscordChannel == kind = "discord" /\ cpBinding' = [cpBinding EXCEPT !.status = "revoked"]

RevokeChannel ==
    /\ admin = "revoking" /\ ~Locked
    /\ RevokeTelegramChannel \/ RevokeDiscordChannel
    /\ admin' = "none"
    /\ UNCHANGED <<kind, cpFeed, receipts, cpInbox, cpPending, cpApproval, poll, cpCrashes>>

-----------------------------------------------------------------------------
(* Fetching.  A fetched message is [id, body]; the body is what the receipt *)
(* digest covers: the message, its edit count, and for a Telegram document  *)
(* what fetching it gave ("text" or "ignored").                             *)

Body(i, got) == [what |-> cpFeed[i].what, edits |-> cpFeed[i].edits, got |-> got]
Fetched(i, got) == [id |-> i, body |-> Body(i, got)]

(* What downloading a document can give when no transport error fails the   *)
(* whole poll: an HTTP rejection makes the message one to ignore, a document*)
(* that is not valid UTF-8 fails the poll (no result).                      *)
DownloadTelegramText(i) == IF cpFeed[i].what = "malformed" THEN {} ELSE {"text", "ignored"}

(* A message of the owner with a document in bounds has it downloaded.      *)
FetchTelegramAttachment(i) ==
    CASE cpFeed[i].what \in {"file", "malformed"} -> DownloadTelegramText(i)
      [] OTHER -> {"none"}

(* A page of the platform: up to PageSize of the messages after c, the      *)
(* oldest or the newest of them, or the newest before b.  It is full when   *)
(* there are that many.                                                     *)
OldestAfter(c) == {i \in Posted : c < i /\ i - c <= PageSize}
NewestAfter(c) == {i \in Posted : c < i /\ Len(cpFeed) - i < PageSize}
NewestBefore(b) == {i \in Posted : i < b /\ b - i <= PageSize}
FullAfter(c) == Len(cpFeed) - c >= PageSize
FullBefore(b) == b > PageSize

OldestOf(page) == CHOOSE i \in page : \A j \in page : i <= j

(* active_telegram_poll_targets and active_discord_poll_targets.            *)
TelegramPollTarget == kind = "telegram" /\ cpBinding.status = "active" /\ poll.phase = "idle"
DiscordPollTarget == kind = "discord" /\ cpBinding.status = "active" /\ poll.phase = "idle"

FetchTelegramUpdates ==
    /\ TelegramPollTarget /\ cpBinding.secret
    /\ LET page == OldestAfter(cpBinding.cursor - 1) IN
       \E got \in [page -> {"none", "text", "ignored"}] :
          /\ \A i \in page : got[i] \in FetchTelegramAttachment(i)
          /\ poll' = [phase |-> "fetched", messages |-> {Fetched(i, got[i]) : i \in page},
                      before |-> 0]
    /\ UNCHANGED <<kind, cpFeed, cpBinding, receipts, cpInbox, cpPending, cpApproval,
                   admin, cpCrashes>>

(* The first Discord page asks for what comes after the cursor; when it is  *)
(* full the driver pages backwards from its oldest message.  The platform   *)
(* may answer with the oldest or with the newest page after the cursor.     *)
FetchDiscordMessages ==
    /\ DiscordPollTarget /\ cpBinding.secret
    /\ \E page \in {OldestAfter(cpBinding.cursor), NewestAfter(cpBinding.cursor)} :
          poll' = [phase |-> IF FullAfter(cpBinding.cursor) THEN "paging" ELSE "fetched",
                   messages |-> {Fetched(i, "none") : i \in page},
                   before |-> IF page = {} THEN 0 ELSE OldestOf(page)]
    /\ UNCHANGED <<kind, cpFeed, cpBinding, receipts, cpInbox, cpPending, cpApproval,
                   admin, cpCrashes>>

(* An older page, cut at the cursor (the floor).  Paging ends when it has   *)
(* nothing new, crosses the floor or is not full; a backlog over the limit  *)
(* fails the poll.                                                          *)
FetchOlderDiscordPage ==
    /\ poll.phase = "paging" /\ cpBinding.secret
    /\ LET page == NewestBefore(poll.before)
           relevant == {i \in page : i > cpBinding.cursor}
           messages == poll.messages \cup {Fetched(i, "none") : i \in relevant}
           last == \/ relevant = {} \/ relevant /= page
                   \/ ~FullBefore(poll.before)
       IN /\ Cardinality(messages) <= MaximumBacklog
          /\ poll' = [phase |-> IF last THEN "fetched" ELSE "paging",
                      messages |-> messages,
                      before |-> IF relevant = {} THEN 0 ELSE OldestOf(relevant)]
    /\ UNCHANGED <<kind, cpFeed, cpBinding, receipts, cpInbox, cpPending, cpApproval,
                   admin, cpCrashes>>

(* The health row: consecutive failures, capped.                            *)
PollRecorded(ok) ==
    [cpBinding EXCEPT !.failures =
        IF ok THEN 0 ELSE IF @ < FailureCap THEN @ + 1 ELSE FailureCap]

(* record_telegram_poll / record_discord_poll of a failed fetch: transport, *)
(* rate limit, rejected or missing credential, malformed or oversized       *)
(* answer, unreadable attachment, too long a backlog.  A binding revoked    *)
(* meanwhile refuses the record.                                            *)
PollFails ==
    /\ poll.phase \in {"idle", "paging"} /\ cpBinding.status \in {"active", "revoked"}
    /\ poll.phase = "idle" => cpBinding.status = "active"
    /\ poll' = Idle
    /\ cpBinding' = IF cpBinding.status = "active" THEN PollRecorded(FALSE) ELSE cpBinding
    /\ UNCHANGED <<kind, cpFeed, receipts, cpInbox, cpPending, cpApproval, admin, cpCrashes>>

(* The successful poll is recorded first; a binding revoked during the fetch*)
(* drops the batch.                                                         *)
RecordPoll ==
    /\ poll.phase = "fetched"
    /\ IF cpBinding.status = "active"
       THEN /\ cpBinding' = PollRecorded(TRUE)
            /\ poll' = IF poll.messages = {} THEN Idle ELSE [poll EXCEPT !.phase = "reserve"]
       ELSE UNCHANGED cpBinding /\ poll' = Idle
    /\ UNCHANGED <<kind, cpFeed, receipts, cpInbox, cpPending, cpApproval, admin, cpCrashes>>

-----------------------------------------------------------------------------
(* Applying the batch, oldest first.                                        *)

(* Both drivers sort the batch by id before they apply it.                  *)
Head1 == CHOOSE m \in poll.messages : \A n \in poll.messages : m.id <= n.id

(* Mutated form: a row left reserved is not recovered.                      *)
ReservationNotRecovered(m, behind) ==
    LET r == receipts[m.id] IN
    IF cpBinding.status /= "active" THEN "revoked"
    ELSE IF r.state = "none" THEN IF behind THEN "conflict" ELSE "new"
    ELSE IF r.state = "reserved" \/ r.digest /= m.body THEN "conflict"
    ELSE "completed"

(* The receipt row of a message is inserted once; a repeat must carry the   *)
(* digest it was inserted with.                                             *)
Reservation(m, behind) ==
    LET r == receipts[m.id] IN
    IF cpBinding.status /= "active" THEN "revoked"
    ELSE IF r.state = "none" THEN IF behind THEN "conflict" ELSE "new"
    ELSE IF r.digest /= m.body THEN "conflict"
    ELSE IF r.state = "reserved" THEN "existing" ELSE "completed"

ReserveTelegramUpdate(m) == Reservation(m, m.id < cpBinding.cursor)
ReserveDiscordMessage(m) == Reservation(m, m.id <= cpBinding.cursor)

NextInBatch(m) ==
    IF poll.messages = {m} THEN Idle
    ELSE [poll EXCEPT !.phase = "reserve", !.messages = @ \ {m}]

ReserveUpdate ==
    /\ poll.phase = "reserve"
    /\ LET m == Head1
           outcome == IF kind = "telegram" THEN ReserveTelegramUpdate(m)
                                           ELSE ReserveDiscordMessage(m)
       IN /\ receipts' = IF outcome = "new"
                         THEN [receipts EXCEPT ![m.id] = [state |-> "reserved",
                                  digest |-> m.body, reason |-> ""]]
                         ELSE receipts
          /\ poll' = CASE outcome \in {"new", "existing"} -> [poll EXCEPT !.phase = "act"]
                       [] outcome = "completed" -> NextInBatch(m)
                       [] OTHER -> Idle
    /\ UNCHANGED <<kind, cpFeed, cpBinding, cpInbox, cpPending, cpApproval, admin, cpCrashes>>

(* What a message asks for.  Documents are admitted with their text on      *)
(* Telegram and ignored on Discord.                                         *)
TelegramUpdateAction(body) ==
    CASE body.what = "text" \/ body.got = "text" -> "input"
      [] body.what = "approve" -> "approval"
      [] OTHER -> "ignore"

DiscordMessageAction(body) ==
    CASE body.what = "text" -> "input"
      [] body.what = "approve" -> "approval"
      [] OTHER -> "ignore"

InboundAction(body) ==
    IF kind = "telegram" THEN TelegramUpdateAction(body) ELSE DiscordMessageAction(body)

(* Mutated form: the dedupe key is not looked up.                           *)
AdmitAgain ==
    /\ poll.phase = "act" /\ InboundAction(Head1.body) = "input"
    /\ IF cpPending < MaximumPending
       THEN /\ cpInbox' = Append(cpInbox, Head1)
            /\ cpPending' = cpPending + 1
            /\ poll' = [poll EXCEPT !.phase = "complete"]
       ELSE poll' = Idle /\ UNCHANGED <<cpInbox, cpPending>>
    /\ UNCHANGED <<kind, cpFeed, cpBinding, receipts, cpApproval, admin, cpCrashes>>

(* admit_input under the dedupe key of the message: a repeat returns the    *)
(* first receipt, a full session refuses (backpressure), which ends the     *)
(* batch with the row still reserved.                                       *)
AdmitMessage ==
    /\ poll.phase = "act" /\ InboundAction(Head1.body) = "input"
    /\ LET m == Head1
           known == \E k \in 1 .. Len(cpInbox) : cpInbox[k].id = m.id
           same == \E k \in 1 .. Len(cpInbox) : cpInbox[k] = m
       IN IF known
          THEN /\ poll' = IF same THEN [poll EXCEPT !.phase = "complete"] ELSE Idle
               /\ UNCHANGED <<cpInbox, cpPending>>
          ELSE IF cpPending < MaximumPending
               THEN /\ cpInbox' = Append(cpInbox, m)
                    /\ cpPending' = cpPending + 1
                    /\ poll' = [poll EXCEPT !.phase = "complete"]
               ELSE poll' = Idle /\ UNCHANGED <<cpInbox, cpPending>>
    /\ UNCHANGED <<kind, cpFeed, cpBinding, receipts, cpApproval, admin, cpCrashes>>

(* resolve_approval under the idempotency key of the message.               *)
ResolveApproval ==
    /\ poll.phase = "act" /\ InboundAction(Head1.body) = "approval"
    /\ cpApproval' = IF cpApproval.state = "pending"
                     THEN [state |-> "approved", by |-> Head1.id] ELSE cpApproval
    /\ poll' = [poll EXCEPT !.phase = "complete"]
    /\ UNCHANGED <<kind, cpFeed, cpBinding, receipts, cpInbox, cpPending, admin, cpCrashes>>

IgnoreMessage ==
    /\ poll.phase = "act" /\ InboundAction(Head1.body) = "ignore"
    /\ poll' = [poll EXCEPT !.phase = "complete"]
    /\ UNCHANGED <<kind, cpFeed, cpBinding, receipts, cpInbox, cpPending, cpApproval,
                   admin, cpCrashes>>

(* The same approval decided by someone else first.                         *)
DecideElsewhere ==
    /\ cpApproval.state = "pending" /\ ~Locked
    /\ cpApproval' = [state |-> "denied", by |-> 0]
    /\ UNCHANGED <<kind, cpFeed, cpBinding, receipts, cpInbox, cpPending, poll, admin,
                   cpCrashes>>

(* How the receipt ends: the admission, or the reason nothing was admitted. *)
Disposition(m) ==
    CASE InboundAction(m.body) = "input" -> [state |-> "admitted", reason |-> ""]
      [] InboundAction(m.body) = "approval" /\ cpApproval.by = m.id ->
            [state |-> "ignored", reason |-> "approval_approved"]
      [] InboundAction(m.body) = "approval" /\ cpApproval.by /= m.id ->
            [state |-> "ignored", reason |-> "approval_resolution_rejected"]
      [] OTHER -> [state |-> "ignored", reason |-> "unsupported"]

CompleteTelegramUpdate(m) == IF cpBinding.cursor <= m.id THEN m.id + 1 ELSE cpBinding.cursor
CompleteDiscordMessage(m) == IF cpBinding.cursor < m.id THEN m.id ELSE cpBinding.cursor

(* The terminal receipt and the cursor move in one transaction.             *)
CompleteUpdate ==
    /\ poll.phase = "complete"
    /\ LET m == Head1
           d == Disposition(m)
       IN /\ receipts' = [receipts EXCEPT ![m.id] =
                [@ EXCEPT !.state = d.state, !.reason = d.reason]]
          /\ cpBinding' = [cpBinding EXCEPT !.cursor =
                IF kind = "telegram" THEN CompleteTelegramUpdate(m)
                                     ELSE CompleteDiscordMessage(m)]
          /\ poll' = NextInBatch(m)
    /\ UNCHANGED <<kind, cpFeed, cpInbox, cpPending, cpApproval, admin, cpCrashes>>

(* The daemon stops anywhere: the driver's batch and a command in progress  *)
(* are gone, the rows and the credential file stay.                         *)
CpCrash ==
    /\ cpCrashes < MaxCrashes
    /\ poll /= Idle \/ admin /= "none"
    /\ cpCrashes' = cpCrashes + 1
    /\ poll' = Idle
    /\ admin' = "none"
    /\ UNCHANGED <<kind, cpFeed, cpBinding, receipts, cpInbox, cpPending, cpApproval>>

CpNext ==
    \/ \E what \in Contents : Post(what)
    \/ \E i \in Posted : EditMessage(i)
    \/ PromoteOne \/ StoreCredential \/ Register \/ RegisterConflict
    \/ RemoveCredential \/ RevokeChannel
    \/ FetchTelegramUpdates \/ FetchDiscordMessages \/ FetchOlderDiscordPage
    \/ PollFails \/ RecordPoll \/ ReserveUpdate
    \/ AdmitMessage \/ ResolveApproval \/ IgnoreMessage \/ DecideElsewhere
    \/ CompleteUpdate \/ CpCrash

CpFairness ==
    /\ WF_cpVars(FetchTelegramUpdates) /\ WF_cpVars(FetchDiscordMessages)
    /\ SF_cpVars(FetchOlderDiscordPage)
    /\ WF_cpVars(RecordPoll) /\ WF_cpVars(ReserveUpdate) /\ WF_cpVars(AdmitMessage)
    /\ WF_cpVars(ResolveApproval) /\ WF_cpVars(IgnoreMessage) /\ WF_cpVars(CompleteUpdate)
    /\ SF_cpVars(PromoteOne)

CpSpec == CpInit /\ [][CpNext]_cpVars /\ CpFairness

-----------------------------------------------------------------------------
(* Properties.                                                              *)

(* The state of the channel, its rows and the drivers has its shape.        *)
CpTypeOK ==
    /\ kind \in Kinds
    /\ \A i \in Posted : cpFeed[i].what \in PostKinds /\ cpFeed[i].edits \in 0 .. MaxEdits
    /\ cpBinding \in ChannelRows
    /\ \A i \in Ids : receipts[i].state \in {"none", "reserved", "admitted", "ignored"}
    /\ cpPending \in 0 .. MaximumPending
    /\ cpApproval.state \in {"pending", "approved", "denied"} /\ cpApproval.by \in 0 .. MaxPosts
    /\ poll.phase \in {"idle", "paging", "fetched", "reserve", "act", "complete"}
    /\ \A m \in poll.messages : m.id \in Posted
    /\ admin \in {"none", "registering", "revoking"}

Terminal(i) == receipts[i].state \in {"admitted", "ignored"}
Behind(i) == IF kind = "telegram" THEN i < cpBinding.cursor ELSE i <= cpBinding.cursor

(* The cursor never passes a message without a terminal receipt, whatever   *)
(* page the platform answered with, whatever was posted between two pages   *)
(* and wherever the daemon stopped: nothing the owner posted after the      *)
(* registration is skipped.                                                 *)
CursorCovers ==
    cpBinding.status /= "absent" =>
        \A i \in Posted : i >= cpBinding.first /\ Behind(i) => Terminal(i)

(* Every message is admitted at most once and in the order it was posted,   *)
(* with the body its receipt was reserved for, and a receipt says admitted  *)
(* only when the input is there, although the reservation, the admission    *)
(* and the completion are three transactions and may be repeated.           *)
AdmittedOnceInOrder ==
    /\ \A k, l \in 1 .. Len(cpInbox) : k < l => cpInbox[k].id < cpInbox[l].id
    /\ \A k \in 1 .. Len(cpInbox) :
          /\ receipts[cpInbox[k].id].digest = cpInbox[k].body
          /\ receipts[cpInbox[k].id].state \in {"reserved", "admitted"}
    /\ \A i \in Ids : receipts[i].state = "admitted" =>
          \E k \in 1 .. Len(cpInbox) : cpInbox[k].id = i

(* The receipt of an approval message says "approved" exactly when this     *)
(* message made the decision, also when the decision was taken before a     *)
(* crash and the message was applied again afterwards.                      *)
ApprovalTruthful ==
    \A i \in Ids : Terminal(i) /\ receipts[i].digest.what = "approve" =>
        (receipts[i].reason = "approval_approved" <=> cpApproval.by = i)

(* No credential outlives its binding, and outside a command in progress an *)
(* undisturbed daemon holds a credential exactly for an active binding.     *)
CredentialFollowsBinding ==
    /\ cpBinding.status = "revoked" => ~cpBinding.secret
    /\ admin = "none" /\ cpCrashes = 0 => (cpBinding.secret <=> cpBinding.status = "active")

(* What can stop a channel for good: a Telegram document that is not UTF-8, *)
(* a row reserved for a body the platform no longer returns (an edited      *)
(* Discord message, a Telegram document fetched with another result), a     *)
(* Discord backlog over the limit.                                          *)
Undeliverable(i) ==
    \/ cpFeed[i].what = "malformed"
    \/ receipts[i].state = "reserved" /\ receipts[i].digest.edits /= cpFeed[i].edits
    \/ receipts[i].state = "reserved" /\ kind = "telegram" /\ cpFeed[i].what = "file"

Blocked ==
    \/ \E i \in Posted : ~Behind(i) /\ Undeliverable(i)
    \/ kind = "discord" /\ Cardinality({i \in Posted : ~Behind(i)}) > MaximumBacklog

(* A registered channel catches up again and again: everything posted has   *)
(* its terminal receipt, through crashes, backpressure and failed polls,    *)
(* unless one of the conditions above blocks it or it is being revoked.     *)
EventuallyReceipted ==
    []<>(\/ \A i \in Posted : i >= cpBinding.first => Terminal(i)
         \/ Blocked
         \/ cpBinding.status /= "active" \/ ~cpBinding.secret)

(* What a polled channel promises its owner across repeats, pages and crashes:*)
(* no message below the cursor is unread, each is admitted once and in order, an*)
(* approval answered in the chat is what the ledger holds, and a credential is*)
(* kept exactly as long as its binding.                                     *)
ChannelSafety ==
  /\ CpTypeOK
  /\ CursorCovers
  /\ AdmittedOnceInOrder
  /\ ApprovalTruthful
  /\ CredentialFollowsBinding
=============================================================================
