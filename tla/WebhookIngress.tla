---------------------------- MODULE WebhookIngress ----------------------------
(***************************************************************************)
(* Signed webhook deliveries (backend.rs receive_signed_webhook over        *)
(* sqlite/channel.rs).  A request is verified without the store's write     *)
(* guard, then reserved, admitted and completed under three separate        *)
(* acquisitions of it, so concurrent requests for one delivery, a           *)
(* revocation and a crash interleave with it at every step.  The sender     *)
(* repeats a delivery, with the same or with another nonce or body.         *)
(***************************************************************************)
EXTENDS Integers, Sequences, FiniteSets

CONSTANTS
    Requests,           \* requests the daemon may be serving at once
    Deliveries, Nonces, Bodies,
    WhMaximumPending,   \* maximum_pending_inputs_per_session
    WhMaxCrashes        \* bound: restarts

ASSUME WebhookAssumption == WhMaximumPending \in Nat \ {0} /\ WhMaxCrashes \in Nat

VARIABLES
    whBinding,      \* status of the binding and its signing secret on disk
    whRows,         \* webhook_delivery_receipt by delivery
    whInbox,        \* inputs admitted: [delivery, body]
    whPending,      \* of which not promoted
    whRequests,     \* the requests being served
    whAcknowledged, \* deliveries the sender was told are admitted
    whCrashes

whVars == <<whBinding, whRows, whInbox, whPending, whRequests, whAcknowledged, whCrashes>>

NoRequest == [phase |-> "none"]
NoRow == [state |-> "none"]

WhInit ==
    /\ whBinding = [status |-> "absent", secret |-> FALSE]
    /\ whRows = [d \in Deliveries |-> NoRow]
    /\ whInbox = <<>>
    /\ whPending = 0
    /\ whRequests = [r \in Requests |-> NoRequest]
    /\ whAcknowledged = {}
    /\ whCrashes = 0

(* create_webhook_channel: the secret is stored, then the binding, its      *)
(* session and its registry entry are committed together; a refused         *)
(* registration removes the secret again.                                   *)
PutWebhookSecret ==
    /\ whBinding.status = "absent" /\ ~whBinding.secret
    /\ whBinding' = [whBinding EXCEPT !.secret = TRUE]
    /\ UNCHANGED <<whRows, whInbox, whPending, whRequests, whAcknowledged, whCrashes>>

RegisterWebhookChannel ==
    /\ whBinding.status = "absent" /\ whBinding.secret
    /\ whBinding' \in {[whBinding EXCEPT !.status = "active"], [whBinding EXCEPT !.secret = FALSE]}
    /\ UNCHANGED <<whRows, whInbox, whPending, whRequests, whAcknowledged, whCrashes>>

(* revoke_webhook_channel of backend.rs removes the secret first.           *)
RemoveWebhookSecret ==
    /\ whBinding.status = "active" /\ whBinding.secret
    /\ whBinding' = [whBinding EXCEPT !.secret = FALSE]
    /\ UNCHANGED <<whRows, whInbox, whPending, whRequests, whAcknowledged, whCrashes>>

RevokeWebhookBinding ==
    /\ whBinding.status = "active" /\ ~whBinding.secret
    /\ whBinding' = [whBinding EXCEPT !.status = "revoked"]
    /\ UNCHANGED <<whRows, whInbox, whPending, whRequests, whAcknowledged, whCrashes>>

(* A request arrives whose timestamp is in the window; the binding is       *)
(* active, its secret is read and verifies the signature.  Anything else is *)
(* refused before any state changes.                                        *)
VerifyWebhook(r, d, n, b) ==
    /\ whRequests[r] = NoRequest
    /\ whBinding.status = "active" /\ whBinding.secret
    /\ whRequests' = [whRequests EXCEPT ![r] =
          [phase |-> "verified", delivery |-> d, nonce |-> n, body |-> b]]
    /\ UNCHANGED <<whBinding, whRows, whInbox, whPending, whAcknowledged, whCrashes>>

(* Mutated form: the nonce is not compared with the nonces already used.    *)
ReservationIgnoringNonce(q) ==
    LET row == whRows[q.delivery] IN
    IF whBinding.status /= "active" THEN "revoked"
    ELSE IF row /= NoRow THEN (IF row.body = q.body THEN "existing" ELSE "conflict")
    ELSE "reserved"

(* The delivery is looked up first: the same body resumes it whatever the   *)
(* nonce.  Only a new delivery consumes its nonce.                          *)
WebhookReservation(q) ==
    LET row == whRows[q.delivery] IN
    IF whBinding.status /= "active" THEN "revoked"
    ELSE IF row /= NoRow THEN (IF row.body = q.body THEN "existing" ELSE "conflict")
    ELSE IF \E e \in Deliveries : whRows[e] /= NoRow /\ whRows[e].nonce = q.nonce
    THEN "replay" ELSE "reserved"

ReserveWebhookDelivery(r) ==
    /\ whRequests[r].phase = "verified"
    /\ LET q == whRequests[r]
           outcome == WebhookReservation(q)
       IN /\ whRows' = IF outcome = "reserved"
                       THEN [whRows EXCEPT ![q.delivery] =
                              [state |-> "reserved", nonce |-> q.nonce, body |-> q.body]]
                       ELSE whRows
          /\ whRequests' = [whRequests EXCEPT ![r] =
                IF outcome \in {"reserved", "existing"} THEN [q EXCEPT !.phase = "reserved"]
                                                        ELSE NoRequest]
    /\ UNCHANGED <<whBinding, whInbox, whPending, whAcknowledged, whCrashes>>

Admitted(d) == {k \in 1 .. Len(whInbox) : whInbox[k].delivery = d}

(* admit_input under the delivery's dedupe key.                             *)
AdmitWebhookInput(r) ==
    /\ whRequests[r].phase = "reserved"
    /\ LET q == whRequests[r]
           entry == [delivery |-> q.delivery, body |-> q.body]
           live == whBinding.status = "active"
           known == live /\ \E k \in Admitted(q.delivery) : whInbox[k] = entry
           fresh == live /\ Admitted(q.delivery) = {} /\ whPending < WhMaximumPending
       IN /\ whInbox' = IF fresh THEN Append(whInbox, entry) ELSE whInbox
          /\ whPending' = IF fresh THEN whPending + 1 ELSE whPending
          /\ whRequests' = [whRequests EXCEPT ![r] =
                IF known \/ fresh THEN [q EXCEPT !.phase = "admitted"] ELSE NoRequest]
    /\ UNCHANGED <<whBinding, whRows, whAcknowledged, whCrashes>>

(* complete_webhook_delivery does not ask whether the binding is still      *)
(* active; a row another request completed is accepted again.               *)
CompleteWebhookDelivery(r) ==
    /\ whRequests[r].phase = "admitted"
    /\ LET q == whRequests[r] IN
       /\ whRows' = [whRows EXCEPT ![q.delivery].state = "completed"]
       /\ whAcknowledged' = whAcknowledged \cup {q.delivery}
    /\ whRequests' = [whRequests EXCEPT ![r] = NoRequest]
    /\ UNCHANGED <<whBinding, whInbox, whPending, whCrashes>>

(* The clock stepped back since the reservation: the completion is refused  *)
(* and the row stays reserved although the input is in.                     *)
CompletionRefused(r) ==
    /\ whRequests[r].phase = "admitted"
    /\ whRows[whRequests[r].delivery].state = "reserved"
    /\ whRequests' = [whRequests EXCEPT ![r] = NoRequest]
    /\ UNCHANGED <<whBinding, whRows, whInbox, whPending, whAcknowledged, whCrashes>>

WhPromote ==
    /\ whPending > 0
    /\ whPending' = whPending - 1
    /\ UNCHANGED <<whBinding, whRows, whInbox, whRequests, whAcknowledged, whCrashes>>

WhCrash ==
    /\ whCrashes < WhMaxCrashes
    /\ \E r \in Requests : whRequests[r] /= NoRequest
    /\ whRequests' = [r \in Requests |-> NoRequest]
    /\ whCrashes' = whCrashes + 1
    /\ UNCHANGED <<whBinding, whRows, whInbox, whPending, whAcknowledged>>

WhNext ==
    \/ PutWebhookSecret \/ RegisterWebhookChannel
    \/ RemoveWebhookSecret \/ RevokeWebhookBinding
    \/ \E r \in Requests, d \in Deliveries, n \in Nonces, b \in Bodies : VerifyWebhook(r, d, n, b)
    \/ \E r \in Requests : \/ ReserveWebhookDelivery(r) \/ AdmitWebhookInput(r)
                           \/ CompleteWebhookDelivery(r) \/ CompletionRefused(r)
    \/ WhPromote \/ WhCrash

WhSpec == WhInit /\ [][WhNext]_whVars

-----------------------------------------------------------------------------
(* Properties.                                                              *)

(* One delivery gives at most one input, with the body its row was reserved *)
(* for; a delivery acknowledged to the sender is in the inbox and its row   *)
(* says so: concurrent repeats, lost answers and crashes included.          *)
OneInputPerDelivery ==
    /\ \A d \in Deliveries : Cardinality(Admitted(d)) <= 1
    /\ \A k \in 1 .. Len(whInbox) :
          /\ whRows[whInbox[k].delivery] /= NoRow
          /\ whRows[whInbox[k].delivery].body = whInbox[k].body
    /\ \A d \in Deliveries :
          /\ d \in whAcknowledged <=> whRows[d].state = "completed"
          /\ d \in whAcknowledged => Admitted(d) /= {}

(* A nonce stands for one delivery: no two inputs were admitted under the   *)
(* same nonce.                                                              *)
NonceConsumedOnce ==
    \A k, l \in 1 .. Len(whInbox) :
        k /= l => whRows[whInbox[k].delivery].nonce /= whRows[whInbox[l].delivery].nonce

(* Revocation is final for requests in flight too: from the step that       *)
(* revokes the binding on, no input is admitted and no row is reserved.     *)
RevokedAdmitsNothing ==
    [][whBinding.status = "revoked" =>
         whInbox' = whInbox /\ \A d \in Deliveries : whRows[d] = NoRow => whRows'[d] = NoRow]_whVars

\* What a signed route promises under concurrent repeats and crashes: one input
\* per delivery and one delivery per nonce.
WebhookSafety ==
  /\ OneInputPerDelivery
  /\ NonceConsumedOnce
=============================================================================
