---------------------------- MODULE IngressProofs ----------------------------
(***************************************************************************)
(* Proofs about two ways into a session: signed webhook deliveries and     *)
(* schedules, for any number of requests, deliveries, occurrences,         *)
(* restarts and failed runs.                                               *)
(***************************************************************************)
EXTENDS WebhookIngress, Schedules, TLAPS

-----------------------------------------------------------------------------
(* The cardinality of the empty set and of a singleton, from the definition. *)
LEMMA CardNone == Cardinality({}) = 0
  <1> DEFINE Def(f, S) == f = [T \in SUBSET S |-> IF T = {} THEN 0
                               ELSE 1 + f[T \ {CHOOSE x : x \in T}]]
  <1>1. Cardinality({}) = (CHOOSE f : Def(f, {}))[{}]
    BY DEF Cardinality
  <1>2. Def([T \in SUBSET {} |-> 0], {})
    OBVIOUS
  <1>3. Def(CHOOSE f : Def(f, {}), {})
    <2> HIDE DEF Def
    <2> QED BY <1>2, Zenon
  <1> QED
    BY <1>1, <1>3, Zenon

LEMMA CardOne ==
  ASSUME NEW a
  PROVE  Cardinality({a}) = 1
  <1> DEFINE Def(f, S) == f = [T \in SUBSET S |-> IF T = {} THEN 0
                               ELSE 1 + f[T \ {CHOOSE x : x \in T}]]
             g == [T \in SUBSET {a} |-> IF T = {} THEN 0 ELSE 1]
             h == CHOOSE f : Def(f, {a})
  <1>1. (CHOOSE x : x \in {a}) = a
    BY Zenon
  <1>2. SUBSET {a} = {{}, {a}}
    OBVIOUS
  <1>3. {a} \ {a} = {}
    OBVIOUS
  <1>4. Cardinality({a}) = h[{a}]
    BY DEF Cardinality
  <1>5. Def(g, {a})
    <2>1. \A T \in SUBSET {a} :
             g[T] = IF T = {} THEN 0 ELSE 1 + g[T \ {CHOOSE x : x \in T}]
      BY <1>1, <1>2, <1>3
    <2> QED
      BY <2>1
  <1>6. Def(h, {a})
    <2> HIDE DEF Def, g
    <2> QED
      BY <1>5, Zenon
  <1>7. h[{}] = 0
    BY <1>6, Zenon
  <1>8. h[{a}] = 1 + h[{a} \ {CHOOSE x : x \in {a}}]
    <2> HIDE DEF h
    <2>1. {a} # {} /\ {a} \in SUBSET {a}
      OBVIOUS
    <2> QED
      BY <1>6, <2>1, Zenon
  <1> HIDE DEF h
  <1>9. h[{a}] = 1 + h[{}]
    BY <1>1, <1>8, <1>3, Zenon
  <1> QED
    BY <1>4, <1>7, <1>9

-----------------------------------------------------------------------------
(* Signed webhook deliveries.                                              *)

WhRequest == [phase : {"verified", "reserved", "admitted"}, delivery : Deliveries,
              nonce : Nonces, body : Bodies]

WhRow == [state : {"reserved", "completed"}, nonce : Nonces, body : Bodies]

WhTyped ==
  /\ whBinding \in [status : {"absent", "active", "revoked"}, secret : BOOLEAN]
  /\ whRows \in [Deliveries -> {NoRow} \cup WhRow]
  /\ whInbox \in Seq([delivery : Deliveries, body : Bodies])
  /\ whPending \in Nat
  /\ whRequests \in [Requests -> {NoRequest} \cup WhRequest]
  /\ whAcknowledged \subseteq Deliveries
  /\ whCrashes \in Nat

(* A request past its reservation has a row with the body it carries.      *)
ReservedHasRow ==
  \A r \in Requests : whRequests[r].phase \in {"reserved", "admitted"} =>
    /\ whRows[whRequests[r].delivery] # NoRow
    /\ whRows[whRequests[r].delivery].body = whRequests[r].body

(* A request past its admission has its delivery in the inbox.             *)
AdmittedIsIn ==
  \A r \in Requests : whRequests[r].phase = "admitted" =>
    \E k \in 1 .. Len(whInbox) : whInbox[k].delivery = whRequests[r].delivery

(* An input has the row it was reserved under, and no delivery has two.    *)
InputHasRow ==
  \A k \in 1 .. Len(whInbox) :
    /\ whRows[whInbox[k].delivery] # NoRow
    /\ whRows[whInbox[k].delivery].body = whInbox[k].body

InputsDiffer ==
  \A k, l \in 1 .. Len(whInbox) : whInbox[k].delivery = whInbox[l].delivery => k = l

AcknowledgedIsIn ==
  \A d \in Deliveries :
    /\ d \in whAcknowledged <=> whRows[d].state = "completed"
    /\ d \in whAcknowledged => \E k \in 1 .. Len(whInbox) : whInbox[k].delivery = d

(* A nonce is in one row.                                                  *)
NoncesDiffer ==
  \A d, e \in Deliveries :
    (whRows[d] # NoRow /\ whRows[e] # NoRow /\ whRows[d].nonce = whRows[e].nonce) => d = e

WhInv ==
  /\ WhTyped /\ ReservedHasRow /\ AdmittedIsIn /\ InputHasRow
  /\ InputsDiffer /\ AcknowledgedIsIn /\ NoncesDiffer

LEMMA WhInitInv == WhInit => WhInv
  BY DEF WhInit, WhInv, WhTyped, WhRow, WhRequest, ReservedHasRow, AdmittedIsIn,
         InputHasRow, InputsDiffer, AcknowledgedIsIn, NoncesDiffer, NoRow, NoRequest

(* Steps that leave rows, inbox and acknowledgements alone and move no      *)
(* request forward.                                                         *)
LEMMA WhQuiet ==
  ASSUME WhInv, WhTyped', UNCHANGED <<whRows, whInbox, whAcknowledged>>,
         \A r \in Requests : \/ whRequests'[r] = whRequests[r]
                             \/ whRequests'[r].phase \in {"none", "verified"}
  PROVE  WhInv'
  BY DEF WhInv, ReservedHasRow, AdmittedIsIn, InputHasRow, InputsDiffer,
         AcknowledgedIsIn, NoncesDiffer

LEMMA WhReserve ==
  ASSUME WhInv, NEW r \in Requests, ReserveWebhookDelivery(r)
  PROVE  WhInv'
  <1> DEFINE q == whRequests[r]
             outcome == WebhookReservation(q)
  <1> USE DEF WhInv
  <1>1. q \in WhRequest /\ q.phase = "verified"
    BY DEF ReserveWebhookDelivery, WhTyped, NoRequest, WhRequest
  <1>2. CASE outcome = "reserved"
    <2>1. /\ whRows[q.delivery] = NoRow
          /\ \A e \in Deliveries : whRows[e] # NoRow => whRows[e].nonce # q.nonce
      BY <1>2, Zenon DEF WebhookReservation
    <2>2. /\ whRows' = [whRows EXCEPT ![q.delivery] =
                          [state |-> "reserved", nonce |-> q.nonce, body |-> q.body]]
          /\ whRequests' = [whRequests EXCEPT ![r] = [q EXCEPT !.phase = "reserved"]]
          /\ UNCHANGED <<whBinding, whInbox, whPending, whAcknowledged, whCrashes>>
      BY <1>2, Zenon DEF ReserveWebhookDelivery
    <2> HIDE DEF q, outcome
    <2>3. WhTyped'
      BY <1>1, <2>2, Zenon DEF WhTyped, WhRow, WhRequest
    <2>4. /\ whRows'[q.delivery] # NoRow /\ whRows'[q.delivery].body = q.body
          /\ whRows'[q.delivery].nonce = q.nonce /\ whRows'[q.delivery].state = "reserved"
          /\ \A d \in Deliveries : d # q.delivery => whRows'[d] = whRows[d]
          /\ \A d \in Deliveries : whRows[d] # NoRow => whRows'[d] = whRows[d]
          /\ q.delivery \in Deliveries /\ whRows[q.delivery].state = "none"
      BY <1>1, <2>1, <2>2 DEF WhTyped, WhRequest, NoRow
    <2>5. ReservedHasRow'
      <3> SUFFICES ASSUME NEW s \in Requests, whRequests'[s].phase \in {"reserved", "admitted"}
                   PROVE  /\ whRows'[whRequests'[s].delivery] # NoRow
                          /\ whRows'[whRequests'[s].delivery].body = whRequests'[s].body
        BY Zenon DEF ReservedHasRow
      <3>1. CASE s = r
        <4>1. whRequests'[s].delivery = q.delivery /\ whRequests'[s].body = q.body
          BY <1>1, <2>2, <3>1, Zenon DEF WhTyped, WhRequest
        <4> QED
          BY <2>4, <4>1, Zenon
      <3>2. CASE s # r
        <4>1. whRequests'[s] = whRequests[s] /\ whRequests[s].delivery \in Deliveries
          BY <2>2, <3>2 DEF WhTyped, WhRequest, NoRequest
        <4> QED
          BY <2>4, <4>1 DEF ReservedHasRow
      <3> QED
        BY <3>1, <3>2, Zenon
    <2>6. AdmittedIsIn'
      BY <1>1, <2>2, Zenon DEF AdmittedIsIn, WhTyped, WhRequest
    <2>7. InputHasRow' /\ InputsDiffer'
      BY <2>2, <2>4 DEF InputHasRow, InputsDiffer, WhTyped
    <2>8. AcknowledgedIsIn'
      BY <2>2, <2>4 DEF AcknowledgedIsIn
    <2>9. NoncesDiffer'
      BY <2>1, <2>4 DEF NoncesDiffer
    <2> QED
      BY <2>3, <2>5, <2>6, <2>7, <2>8, <2>9, Zenon
  <1>3. CASE outcome = "existing"
    <2>1. whRows[q.delivery] # NoRow /\ whRows[q.delivery].body = q.body
      BY <1>3, Zenon DEF WebhookReservation
    <2>2. /\ UNCHANGED <<whBinding, whRows, whInbox, whPending, whAcknowledged, whCrashes>>
          /\ whRequests' = [whRequests EXCEPT ![r] = [q EXCEPT !.phase = "reserved"]]
      BY <1>3, Zenon DEF ReserveWebhookDelivery
    <2> HIDE DEF q, outcome
    <2>3. WhTyped'
      BY <1>1, <2>2, Zenon DEF WhTyped, WhRequest
    <2>4. ReservedHasRow'
      BY <1>1, <2>1, <2>2, Zenon DEF ReservedHasRow, WhTyped, WhRequest
    <2>5. AdmittedIsIn'
      BY <1>1, <2>2, Zenon DEF AdmittedIsIn, WhTyped, WhRequest
    <2>6. InputHasRow' /\ InputsDiffer' /\ AcknowledgedIsIn' /\ NoncesDiffer'
      BY <2>2, Zenon
         DEF InputHasRow, InputsDiffer, AcknowledgedIsIn, NoncesDiffer
    <2> QED
      BY <2>3, <2>4, <2>5, <2>6, Zenon
  <1>4. CASE outcome \notin {"reserved", "existing"}
    <2>1. /\ UNCHANGED <<whBinding, whRows, whInbox, whPending, whAcknowledged, whCrashes>>
          /\ whRequests' = [whRequests EXCEPT ![r] = NoRequest]
      BY <1>4, Zenon DEF ReserveWebhookDelivery
    <2>2. WhTyped'
      BY <2>1, Zenon DEF WhTyped
    <2>3. \A s \in Requests : whRequests'[s] = whRequests[s] \/ whRequests'[s].phase = "none"
      BY <2>1, Zenon DEF WhTyped, NoRequest
    <2> QED
      BY <2>1, <2>2, <2>3, WhQuiet, Zenon
  <1> QED
    BY <1>2, <1>3, <1>4, Zenon

LEMMA WhAdmit ==
  ASSUME WhInv, NEW r \in Requests, AdmitWebhookInput(r)
  PROVE  WhInv'
  <1> DEFINE q == whRequests[r]
             entry == [delivery |-> q.delivery, body |-> q.body]
             live == whBinding.status = "active"
             known == live /\ \E k \in Admitted(q.delivery) : whInbox[k] = entry
             fresh == live /\ Admitted(q.delivery) = {} /\ whPending < WhMaximumPending
  <1> USE DEF WhInv
  <1>1. q \in WhRequest /\ q.phase = "reserved"
    BY DEF AdmitWebhookInput, WhTyped, NoRequest, WhRequest
  <1>2. UNCHANGED <<whBinding, whRows, whAcknowledged, whCrashes>>
    BY Zenon DEF AdmitWebhookInput
  <1>3. /\ whRows[q.delivery] # NoRow /\ whRows[q.delivery].body = q.body
    BY <1>1, Zenon DEF ReservedHasRow
  <1>4. CASE fresh
    <2>1. /\ whInbox' = Append(whInbox, entry) /\ whPending' = whPending + 1
          /\ whRequests' = [whRequests EXCEPT ![r] = [q EXCEPT !.phase = "admitted"]]
      BY <1>4, Zenon DEF AdmitWebhookInput
    <2>2. \A k \in 1 .. Len(whInbox) : whInbox[k].delivery # q.delivery
      BY <1>4, Zenon DEF Admitted
    <2> HIDE DEF q, known, fresh, live
    <2>3. WhTyped'
      <3>1. whRequests' \in [Requests -> {NoRequest} \cup WhRequest]
        BY <1>1, <2>1, Zenon DEF WhTyped, WhRequest
      <3>2. entry \in [delivery : Deliveries, body : Bodies]
        BY <1>1, Zenon DEF WhRequest
      <3> HIDE DEF entry
      <3> QED
        BY <1>2, <2>1, <3>1, <3>2 DEF WhTyped
    <2>4. /\ Len(whInbox') = Len(whInbox) + 1 /\ Len(whInbox) \in Nat
          /\ whInbox'[Len(whInbox) + 1].delivery = q.delivery
          /\ whInbox'[Len(whInbox) + 1].body = q.body
          /\ \A k \in 1 .. Len(whInbox) : whInbox'[k] = whInbox[k]
      BY <1>1, <2>1 DEF WhTyped, WhRequest
    <2>5. ReservedHasRow'
      <3>1. \A s \in Requests : s # r => whRequests'[s] = whRequests[s]
        BY <2>1, Zenon DEF WhTyped
      <3>2. whRequests'[r].delivery = q.delivery /\ whRequests'[r].body = q.body
        BY <1>1, <2>1, Zenon DEF WhTyped, WhRequest
      <3> QED
        BY <1>2, <1>3, <3>1, <3>2, Zenon DEF ReservedHasRow
    <2>6. AdmittedIsIn'
      <3> SUFFICES ASSUME NEW s \in Requests, whRequests'[s].phase = "admitted"
                   PROVE  \E k \in 1 .. Len(whInbox') : whInbox'[k].delivery = whRequests'[s].delivery
        BY Zenon DEF AdmittedIsIn
      <3>1. CASE s = r
        <4>1. whRequests'[s].delivery = q.delivery
          BY <1>1, <2>1, <3>1, Zenon DEF WhTyped, WhRequest
        <4> QED
          BY <2>4, <4>1
      <3>2. CASE s # r
        <4>1. whRequests'[s] = whRequests[s]
          BY <2>1, <3>2, Zenon DEF WhTyped
        <4> QED
          BY <2>4, <4>1 DEF AdmittedIsIn
      <3> QED
        BY <3>1, <3>2, Zenon
    <2>7. InputHasRow'
      BY <1>2, <1>3, <2>4 DEF InputHasRow
    <2>8. InputsDiffer'
      BY <2>2, <2>4 DEF InputsDiffer
    <2>9. AcknowledgedIsIn' /\ NoncesDiffer'
      BY <1>2, <2>4 DEF AcknowledgedIsIn, NoncesDiffer
    <2> QED
      BY <2>3, <2>5, <2>6, <2>7, <2>8, <2>9, Zenon
  <1>5. CASE known /\ ~fresh
    <2>1. /\ UNCHANGED <<whInbox, whPending>>
          /\ whRequests' = [whRequests EXCEPT ![r] = [q EXCEPT !.phase = "admitted"]]
      BY <1>5, Zenon DEF AdmitWebhookInput
    <2>2. \E k \in 1 .. Len(whInbox) : whInbox[k].delivery = q.delivery
      BY <1>5, Zenon DEF Admitted
    <2> HIDE DEF q, known, fresh, live
    <2>3. WhTyped'
      BY <1>1, <1>2, <2>1, Zenon DEF WhTyped, WhRequest
    <2>4. ReservedHasRow'
      BY <1>1, <1>2, <1>3, <2>1, Zenon DEF ReservedHasRow, WhTyped, WhRequest
    <2>5. AdmittedIsIn'
      BY <1>1, <2>1, <2>2, Zenon DEF AdmittedIsIn, WhTyped, WhRequest
    <2>6. InputHasRow' /\ InputsDiffer' /\ AcknowledgedIsIn' /\ NoncesDiffer'
      BY <1>2, <2>1, Zenon
         DEF InputHasRow, InputsDiffer, AcknowledgedIsIn, NoncesDiffer
    <2> QED
      BY <2>3, <2>4, <2>5, <2>6, Zenon
  <1>6. CASE ~known /\ ~fresh
    <2>1. /\ UNCHANGED <<whInbox, whPending>>
          /\ whRequests' = [whRequests EXCEPT ![r] = NoRequest]
      BY <1>6, Zenon DEF AdmitWebhookInput
    <2>2. WhTyped'
      BY <1>2, <2>1, Zenon DEF WhTyped
    <2>3. \A s \in Requests : whRequests'[s] = whRequests[s] \/ whRequests'[s].phase = "none"
      BY <2>1, Zenon DEF WhTyped, NoRequest
    <2> QED
      BY <1>2, <2>1, <2>2, <2>3, WhQuiet, Zenon
  <1> QED
    BY <1>4, <1>5, <1>6, Zenon

LEMMA WhComplete ==
  ASSUME WhInv, NEW r \in Requests, CompleteWebhookDelivery(r)
  PROVE  WhInv'
  <1> DEFINE q == whRequests[r]
  <1> USE DEF WhInv
  <1>1. q \in WhRequest /\ q.phase = "admitted"
    BY DEF CompleteWebhookDelivery, WhTyped, NoRequest, WhRequest
  <1>2. /\ whRows' = [whRows EXCEPT ![q.delivery].state = "completed"]
        /\ whAcknowledged' = whAcknowledged \cup {q.delivery}
        /\ whRequests' = [whRequests EXCEPT ![r] = NoRequest]
        /\ UNCHANGED <<whBinding, whInbox, whPending, whCrashes>>
    BY Zenon DEF CompleteWebhookDelivery
  <1>3. /\ whRows[q.delivery] \in WhRow
        /\ \E k \in 1 .. Len(whInbox) : whInbox[k].delivery = q.delivery
    BY <1>1, Zenon DEF ReservedHasRow, AdmittedIsIn, WhTyped, WhRequest
  <1> HIDE DEF q
  <1>4. WhTyped'
    BY <1>1, <1>2, <1>3, Zenon DEF WhTyped, WhRow, WhRequest
  <1>5. /\ \A d \in Deliveries : whRows'[d] # NoRow <=> whRows[d] # NoRow
        /\ \A d \in Deliveries : whRows[d] # NoRow =>
              whRows'[d].body = whRows[d].body /\ whRows'[d].nonce = whRows[d].nonce
        /\ \A d \in Deliveries : d # q.delivery => whRows'[d] = whRows[d]
        /\ whRows'[q.delivery].state = "completed"
    BY <1>1, <1>2, <1>3 DEF WhTyped, WhRow, WhRequest, NoRow
  <1>6. \A s \in Requests : whRequests'[s] = whRequests[s] \/ whRequests'[s].phase = "none"
    BY <1>2, Zenon DEF WhTyped, NoRequest
  <1>7. ReservedHasRow' /\ AdmittedIsIn'
    <2>1. \A s \in Requests : whRequests[s].phase \in {"reserved", "admitted"}
                               => whRequests[s].delivery \in Deliveries
      BY DEF WhTyped, NoRequest, WhRequest
    <2> QED
      BY <1>2, <1>5, <1>6, <2>1 DEF ReservedHasRow, AdmittedIsIn
  <1>8. InputHasRow' /\ InputsDiffer'
    BY <1>2, <1>5 DEF InputHasRow, InputsDiffer, WhTyped
  <1>9. AcknowledgedIsIn'
    BY <1>1, <1>2, <1>3, <1>5 DEF AcknowledgedIsIn, WhRequest
  <1>10. NoncesDiffer'
    BY <1>5, Zenon DEF NoncesDiffer
  <1> QED
    BY <1>4, <1>7, <1>8, <1>9, <1>10, Zenon

LEMMA WhInvStep == WhInv /\ [WhNext]_whVars => WhInv'
  <1> SUFFICES ASSUME WhInv, [WhNext]_whVars PROVE WhInv'
    BY Zenon
  <1>1. CASE PutWebhookSecret \/ RegisterWebhookChannel \/ RemoveWebhookSecret
             \/ RevokeWebhookBinding \/ WhPromote \/ UNCHANGED whVars
    <2>1. UNCHANGED <<whRows, whInbox, whAcknowledged, whRequests, whCrashes>>
      BY <1>1, Zenon
         DEF PutWebhookSecret, RegisterWebhookChannel, RemoveWebhookSecret,
         RevokeWebhookBinding, WhPromote, whVars
    <2>2. whBinding' \in [status : {"absent", "active", "revoked"}, secret : BOOLEAN]
      BY <1>1, Zenon
         DEF WhInv, WhTyped, PutWebhookSecret, RegisterWebhookChannel,
         RemoveWebhookSecret, RevokeWebhookBinding, WhPromote, whVars
    <2>3. whPending' \in Nat
      BY <1>1 DEF WhInv, WhTyped, PutWebhookSecret, RegisterWebhookChannel,
         RemoveWebhookSecret, RevokeWebhookBinding, WhPromote, whVars
    <2>4. WhTyped'
      BY <2>1, <2>2, <2>3, Zenon DEF WhInv, WhTyped
    <2> QED
      BY <2>1, <2>4, WhQuiet, Zenon
  <1>2. ASSUME NEW r \in Requests, NEW d \in Deliveries, NEW n \in Nonces, NEW b \in Bodies,
               VerifyWebhook(r, d, n, b)
        PROVE  WhInv'
    <2>1. WhTyped'
      BY <1>2, Zenon DEF WhInv, WhTyped, VerifyWebhook, WhRequest
    <2>2. \A s \in Requests : \/ whRequests'[s] = whRequests[s]
                               \/ whRequests'[s].phase = "verified"
      BY <1>2, Zenon DEF WhInv, WhTyped, VerifyWebhook
    <2>3. UNCHANGED <<whRows, whInbox, whAcknowledged>>
      BY <1>2, Zenon DEF VerifyWebhook
    <2> QED
      BY <2>1, <2>2, <2>3, WhQuiet, Zenon
  <1>3. ASSUME NEW r \in Requests, CompletionRefused(r) PROVE WhInv'
    <2>1. WhTyped' /\ UNCHANGED <<whRows, whInbox, whAcknowledged>>
      BY <1>3, Zenon DEF WhInv, WhTyped, CompletionRefused
    <2>2. \A s \in Requests : whRequests'[s] = whRequests[s] \/ whRequests'[s].phase = "none"
      BY <1>3, Zenon DEF WhInv, WhTyped, CompletionRefused, NoRequest
    <2> QED
      BY <2>1, <2>2, WhQuiet, Zenon
  <1>4. CASE WhCrash
    <2>1. WhTyped' /\ UNCHANGED <<whRows, whInbox, whAcknowledged>>
      BY <1>4, WebhookAssumption DEF WhInv, WhTyped, WhCrash
    <2>2. \A s \in Requests : whRequests'[s].phase = "none"
      BY <1>4, Zenon DEF WhCrash, NoRequest
    <2> QED
      BY <2>1, <2>2, WhQuiet, Zenon
  <1> QED
    BY <1>1, <1>2, <1>3, <1>4, WhReserve, WhAdmit, WhComplete, Zenon DEF WhNext

LEMMA WhInvariant == WhSpec => []WhInv
  BY WhInitInv, WhInvStep, PTL DEF WhSpec

(* However many requests repeat a delivery at once, and whatever crashes   *)
(* and revocations fall between reserve, admit and complete, a delivery    *)
(* gives one input with the body of its row, an acknowledged one is in the *)
(* inbox, and a nonce stands for one delivery (receive_signed_webhook).    *)
THEOREM WebhookSafe == WhSpec => []WebhookSafety
  <1>1. WhInv => WebhookSafety
    <2> SUFFICES ASSUME WhInv PROVE WebhookSafety
      BY Zenon
    <2> USE DEF WhInv
    <2>1. ASSUME NEW d \in Deliveries PROVE Cardinality(Admitted(d)) <= 1
      <3>1. CASE Admitted(d) = {}
        BY <3>1, CardNone
      <3>2. CASE Admitted(d) # {}
        <4>1. PICK k \in Admitted(d) : TRUE
          BY <3>2, Zenon
        <4>2. Admitted(d) = {k}
          BY <4>1, Zenon DEF Admitted, InputsDiffer
        <4>3. Cardinality({k}) = 1
          BY CardOne, Zenon
        <4> QED
          BY <4>2, <4>3
      <3> QED
        BY <3>1, <3>2, Zenon
    <2>2. \A d \in Deliveries : d \in whAcknowledged => Admitted(d) # {}
      BY Zenon DEF AcknowledgedIsIn, Admitted
    <2>3. OneInputPerDelivery
      BY <2>1, <2>2, Zenon
         DEF OneInputPerDelivery, InputHasRow, AcknowledgedIsIn
    <2>4. NonceConsumedOnce
      <3> SUFFICES ASSUME NEW k \in 1 .. Len(whInbox), NEW l \in 1 .. Len(whInbox), k # l
                   PROVE  whRows[whInbox[k].delivery].nonce # whRows[whInbox[l].delivery].nonce
        BY Zenon DEF NonceConsumedOnce
      <3>1. whInbox[k].delivery \in Deliveries /\ whInbox[l].delivery \in Deliveries
        <4> DEFINE Row == [delivery : Deliveries, body : Bodies]
        <4>1. whInbox \in Seq(Row)
          BY Zenon DEF WhTyped
        <4> HIDE DEF Row
        <4>2. \A i \in 1 .. Len(whInbox) : whInbox[i] \in Row
          BY <4>1
        <4> USE DEF Row
        <4> QED
          BY <4>2, Zenon
      <3>2. whInbox[k].delivery # whInbox[l].delivery
        BY Zenon DEF InputsDiffer
      <3> QED
        BY <3>1, <3>2, Zenon DEF NoncesDiffer, InputHasRow
    <2> QED
      BY <2>3, <2>4, Zenon DEF WebhookSafety
  <1> QED
    BY WhInvariant, <1>1, PTL

(* Once a binding is revoked, requests that were verified before it admit   *)
(* nothing and reserve nothing (reserve_webhook_delivery and admit_input    *)
(* ask again).                                                              *)
THEOREM RevocationIsFinal == WhSpec => RevokedAdmitsNothing
  <1> DEFINE Quiet == whBinding.status = "revoked" =>
         whInbox' = whInbox /\ \A d \in Deliveries : whRows[d] = NoRow => whRows'[d] = NoRow
  <1>1. WhInv /\ [WhNext]_whVars => [Quiet]_whVars
    <2> SUFFICES ASSUME WhInv, WhNext, whBinding.status = "revoked"
                 PROVE  Quiet
      BY Zenon
    <2>1. ASSUME NEW r \in Requests, ReserveWebhookDelivery(r) PROVE Quiet
      <3>1. WebhookReservation(whRequests[r]) = "revoked"
        BY Zenon DEF WebhookReservation
      <3> QED
        BY <2>1, <3>1, Zenon DEF ReserveWebhookDelivery
    <2>2. ASSUME NEW r \in Requests, AdmitWebhookInput(r) PROVE Quiet
      BY <2>2, Zenon DEF AdmitWebhookInput
    <2>3. ASSUME NEW r \in Requests, CompleteWebhookDelivery(r) PROVE Quiet
      <3>1. /\ whRows[whRequests[r].delivery] # NoRow
            /\ whInbox' = whInbox
            /\ whRows' = [whRows EXCEPT ![whRequests[r].delivery].state = "completed"]
        BY <2>3, Zenon DEF CompleteWebhookDelivery, WhInv, ReservedHasRow
      <3> QED
        BY <3>1, Zenon DEF WhInv, WhTyped
    <2>4. CASE UNCHANGED <<whInbox, whRows>>
      BY <2>4, Zenon
    <2> QED
      BY <2>1, <2>2, <2>3, <2>4, Zenon
      DEF WhNext, PutWebhookSecret, RegisterWebhookChannel, RemoveWebhookSecret,
          RevokeWebhookBinding, VerifyWebhook, CompletionRefused, WhPromote, WhCrash
  <1> QED
    BY WhInvariant, <1>1, PTL DEF WhSpec, RevokedAdmitsNothing

-----------------------------------------------------------------------------
USE ScheduleAssumption

(***************************************************************************)
(* The rows of a schedule.                                                 *)
(***************************************************************************)
ScheduleRows ==
    [status : {"active", "paused", "cancelled"}, due : Nat, revision : Nat,
     updated : Nat, missed : {"fire", "skip"}, overlap : {"allow", "skip_if_running"}]
RunRows ==
    [for : Nat, coalesced : BOOLEAN,
     intent : {"fire", "skip_misfire", "skip_overlap"},
     status : {"claimed", "admitted", "failed", "skipped"},
     expires : Nat, created : Nat]
InputRows == [for : Nat, state : {"pending", "active", "done"}]
Plans ==
    [for : Nat, next : Nat, coalesced : BOOLEAN, intent : {"fire", "skip_misfire"}]
Planned == [phase : {"planned"}, revision : Nat, due : Nat, at : Nat, plan : Plans]
Working ==
    [phase : {"fire", "complete"}, run : Nat, next : Nat,
     status : {"skipped", "admitted", "failed"}]

SchTyped ==
    /\ schedule \in ScheduleRows
    /\ runs \in Seq(RunRows)
    /\ schInbox \in Seq(InputRows)
    /\ authority \in BOOLEAN
    /\ driver \in {SchIdle} \cup Planned \cup Working
    /\ now \in Nat

(* Due times are occurrences. *)
Occurrence(t) == \E n \in Nat : t = Period * n

DueIsOccurrence == Occurrence(schedule.due)

(* One claim at a time, and only on an active schedule. *)
OneClaim ==
    /\ \A j, k \in 1 .. Len(runs) :
          runs[j].status = "claimed" /\ runs[k].status = "claimed" => j = k
    /\ \A k \in 1 .. Len(runs) :
          runs[k].status = "claimed" => schedule.status = "active"

(* A run is for an occurrence that had come when it was claimed, and its   *)
(* claim expires later; no two runs are for the same occurrence.           *)
RunTimes ==
    \A k \in 1 .. Len(runs) :
        runs[k].for <= runs[k].created /\ runs[k].created < runs[k].expires
RunsDiffer ==
    \A j, k \in 1 .. Len(runs) : runs[j].for = runs[k].for => j = k

(* What is settled is over at the schedule's last change, and before the   *)
(* time the schedule is due next.                                          *)
SettledIsPast ==
    \A k \in 1 .. Len(runs) :
        runs[k].status # "claimed" =>
            /\ runs[k].for <= schedule.updated
            /\ schedule.status = "active" => runs[k].for < schedule.due

(* What the driver remembers. *)
PlanIsDue ==
    driver.phase = "planned" =>
        /\ driver.due <= driver.plan.for /\ driver.plan.for <= driver.at
        /\ driver.at < driver.plan.next /\ Occurrence(driver.plan.next)
WorksOnClaim ==
    driver.phase \in {"fire", "complete"} =>
        /\ driver.run \in 1 .. Len(runs) /\ runs[driver.run].status = "claimed"
        /\ runs[driver.run].for < driver.next /\ schedule.due < driver.next
        /\ Occurrence(driver.next)
FiresWhatIsToFire == driver.phase = "fire" => runs[driver.run].intent = "fire"

(* How a run with this status relates to the inbox. *)
Has(t) == \E l \in 1 .. Len(schInbox) : schInbox[l].for = t
Agrees(status, t) ==
    /\ status = "admitted" => Has(t)
    /\ status = "skipped" => ~Has(t)
    /\ status = "failed" => ~Has(t) \/ ~authority

HistoryAgrees == \A k \in 1 .. Len(runs) : Agrees(runs[k].status, runs[k].for)
OutcomeAgrees ==
    driver.phase = "complete" => Agrees(driver.status, runs[driver.run].for)
SkippedHasNone ==
    \A k \in 1 .. Len(runs) :
        runs[k].status = "claimed" /\ runs[k].intent # "fire" => ~Has(runs[k].for)

InputsKeyed ==
    \A l, m \in 1 .. Len(schInbox) : schInbox[l].for = schInbox[m].for => l = m
InputsHaveRuns ==
    \A l \in 1 .. Len(schInbox) :
        \E k \in 1 .. Len(runs) : runs[k].for = schInbox[l].for

(* With skip_if_running one input is open at a time, and a claim to fire   *)
(* finds the inputs of the other occurrences done.                         *)
OneOpen ==
    schedule.overlap = "skip_if_running" =>
        \A l, m \in 1 .. Len(schInbox) :
            schInbox[l].state # "done" /\ schInbox[m].state # "done" => l = m
OthersDone ==
    schedule.overlap = "skip_if_running" /\ authority =>
        \A k \in 1 .. Len(runs), l \in 1 .. Len(schInbox) :
            /\ runs[k].status = "claimed" /\ runs[k].intent = "fire"
            /\ schInbox[l].for # runs[k].for
            => schInbox[l].state = "done"

SchInv ==
    /\ SchTyped /\ DueIsOccurrence /\ OneClaim /\ RunTimes /\ RunsDiffer
    /\ SettledIsPast /\ PlanIsDue /\ WorksOnClaim /\ FiresWhatIsToFire
    /\ HistoryAgrees /\ OutcomeAgrees /\ SkippedHasNone /\ InputsKeyed
    /\ InputsHaveRuns /\ OneOpen /\ OthersDone

-----------------------------------------------------------------------------
(* The arithmetic of occurrences. *)
LEMMA Quotient ==
  ASSUME NEW t \in Nat
  PROVE  /\ t \div Period \in Nat
         /\ Period * (t \div Period) <= t
         /\ t < Period * (t \div Period) + Period
  BY SMT DEF ScheduleAssumption

LEMMA Times ==
  ASSUME NEW p \in Nat, NEW m \in Nat, NEW n \in Nat
  PROVE  /\ p * n \in Nat /\ p * (n + 1) = p * n + p
         /\ m <= n => p * m <= p * n
  <1>1. p * n \in Nat /\ p * (n + 1) = p * n + p
    OBVIOUS
  <1>2. ASSUME m <= n PROVE p * m <= p * n
    <2>1. n - m \in Nat /\ n = m + (n - m)
      BY <1>2
    <2>2. p * (n - m) \in Nat /\ p * n = p * m + p * (n - m)
      BY <2>1
    <2> QED
      BY <2>2
  <1> QED
    BY <1>1, <1>2

LEMMA Occurrences ==
  ASSUME NEW t \in Nat
  PROVE  /\ LatestOccurrence(t) \in Nat /\ NextOccurrence(t) \in Nat
         /\ LatestOccurrence(t) <= t /\ t < NextOccurrence(t)
         /\ Occurrence(NextOccurrence(t))
         /\ \A d \in Nat : Occurrence(d) /\ d <= t => d <= LatestOccurrence(t)
  <1> DEFINE q == t \div Period
  <1>1. /\ q \in Nat /\ q + 1 \in Nat /\ Period * q <= t
        /\ t < Period * q + Period /\ Period \in Nat
    <2>1. Period \in Nat
      BY Zenon
    <2>2. q \in Nat /\ Period * q <= t /\ t < Period * q + Period
      BY Quotient, Zenon
    <2> HIDE DEF q
    <2> QED
      BY <2>1, <2>2
  <1> HIDE DEF q
  <1>2. /\ Period * q \in Nat /\ Period * (q + 1) \in Nat
        /\ Period * (q + 1) = Period * q + Period
    BY <1>1, Times
  <1>3. LatestOccurrence(t) = Period * q /\ NextOccurrence(t) = Period * (q + 1)
    BY DEF q, LatestOccurrence, NextOccurrence
  <1>4. ASSUME NEW d \in Nat, Occurrence(d), d <= t
        PROVE  d <= LatestOccurrence(t)
    <2>1. PICK n \in Nat : d = Period * n
      BY <1>4 DEF Occurrence
    <2>2. n <= q
      <3> SUFFICES ASSUME ~(n <= q) PROVE FALSE
        OBVIOUS
      <3>1. q + 1 <= n
        BY <1>1
      <3>2. Period * (q + 1) <= Period * n
        BY <1>1, <3>1, Times
      <3> QED
        BY <1>1, <1>2, <1>4, <2>1, <3>2
    <2>3. Period * n <= Period * q
      BY <1>1, <2>2, Times
    <2> QED
      BY <1>3, <2>1, <2>3
  <1>5. Occurrence(NextOccurrence(t))
    BY <1>1, <1>3, Zenon DEF Occurrence
  <1> QED
    BY <1>1, <1>2, <1>3, <1>4, <1>5

-----------------------------------------------------------------------------
(* Sequences of rows. *)

(* Writing one row leaves the others, and the number of rows, alone. *)
LEMMA RowChanged ==
  ASSUME NEW S, NEW q \in Seq(S), NEW k \in 1 .. Len(q), NEW row \in S,
         NEW p, p = [q EXCEPT ![k] = row]
  PROVE  /\ p \in Seq(S) /\ Len(p) = Len(q)
         /\ p[k] = row /\ \A j \in 1 .. Len(q) : j # k => p[j] = q[j]
  OBVIOUS

(* Inserting a row leaves the earlier rows alone. *)
LEMMA RowAppended ==
  ASSUME NEW S, NEW q \in Seq(S), NEW row \in S, NEW p, p = Append(q, row)
  PROVE  /\ p \in Seq(S) /\ Len(q) + 1 \in 1 .. Len(p) /\ Len(p) = Len(q) + 1
         /\ 1 .. Len(p) = 1 .. Len(q) \cup {Len(q) + 1} /\ Len(q) + 1 \notin 1 .. Len(q)
         /\ p[Len(q) + 1] = row /\ \A j \in 1 .. Len(q) : p[j] = q[j]
  <1>1. Len(q) \in Nat /\ Len(p) = Len(q) + 1 /\ p \in Seq(S)
    OBVIOUS
  <1>2. p[Len(q) + 1] = row /\ \A j \in 1 .. Len(q) : p[j] = q[j]
    OBVIOUS
  <1> QED
    BY <1>1, <1>2

LEMMA RowIn ==
  ASSUME NEW S, NEW q \in Seq(S), NEW k \in 1 .. Len(q)
  PROVE  q[k] \in S
  OBVIOUS

(* The rows have the types of their columns. *)
LEMMA RunFields ==
  ASSUME SchTyped, NEW k \in 1 .. Len(runs)
  PROVE  /\ runs[k] \in RunRows /\ runs[k].for \in Nat /\ runs[k].created \in Nat
         /\ runs[k].expires \in Nat /\ k \in Nat
  <1>1. runs[k] \in RunRows
    BY RowIn, Zenon DEF SchTyped
  <1> QED
    BY <1>1 DEF RunRows

LEMMA DriverFields ==
  ASSUME SchTyped
  PROVE  /\ driver.phase = "planned" => driver \in Planned
         /\ driver.phase \in {"fire", "complete"} => driver \in Working
         /\ driver.phase \in {"idle", "planned", "fire", "complete"}
  BY DEF SchTyped, SchIdle, Planned, Working

-----------------------------------------------------------------------------
(* Steps that leave the rows alone. *)

(* The driver forgets what it was doing. *)
LEMMA DriverRests ==
  ASSUME SchInv, driver' = SchIdle,
         UNCHANGED <<schedule, runs, schInbox, authority, now>>
  PROVE  SchInv'
  <1>1. /\ schedule' = schedule /\ runs' = runs /\ schInbox' = schInbox
        /\ authority' = authority /\ now' = now
    BY Zenon
  <1>0. authority' <=> authority
    BY <1>1
  <1>2. SchTyped'
    BY <1>0, <1>1, Zenon DEF SchInv, SchTyped
  <1>3. driver'.phase = "idle"
    BY DEF SchIdle
  <1>4. PlanIsDue' /\ WorksOnClaim' /\ FiresWhatIsToFire' /\ OutcomeAgrees'
    BY <1>3, Zenon DEF PlanIsDue, WorksOnClaim, FiresWhatIsToFire, OutcomeAgrees
  <1>5. DueIsOccurrence' /\ OneClaim' /\ RunTimes' /\ RunsDiffer' /\ SettledIsPast'
    BY <1>1, Zenon DEF SchInv, DueIsOccurrence, Occurrence, OneClaim, RunTimes,
                       RunsDiffer, SettledIsPast
  <1>6. HistoryAgrees' /\ SkippedHasNone'
    BY <1>0, <1>1, Zenon DEF SchInv, HistoryAgrees, Agrees, Has, SkippedHasNone
  <1>7. InputsKeyed' /\ InputsHaveRuns' /\ OneOpen'
    BY <1>1, Zenon DEF SchInv, InputsKeyed, InputsHaveRuns, OneOpen
  <1>8. OthersDone'
    BY <1>0, <1>1, Zenon DEF SchInv, OthersDone
  <1> QED
    BY <1>2, <1>4, <1>5, <1>6, <1>7, <1>8, Zenon DEF SchInv

(* The clock moves. *)
LEMMA ClockMoves ==
  ASSUME SchInv, now' \in Nat,
         UNCHANGED <<schedule, runs, schInbox, authority, driver>>
  PROVE  SchInv'
  <1>1. /\ schedule' = schedule /\ runs' = runs /\ schInbox' = schInbox
        /\ authority' = authority /\ driver' = driver
    BY Zenon
  <1>0. authority' <=> authority
    BY <1>1
  <1>2. SchTyped'
    BY <1>0, <1>1, Zenon DEF SchInv, SchTyped
  <1>3. PlanIsDue' /\ WorksOnClaim' /\ FiresWhatIsToFire' /\ OutcomeAgrees'
    BY <1>0, <1>1, Zenon DEF SchInv, PlanIsDue, Occurrence, WorksOnClaim, FiresWhatIsToFire,
                       OutcomeAgrees, Agrees, Has
  <1>4. DueIsOccurrence' /\ OneClaim' /\ RunTimes' /\ RunsDiffer' /\ SettledIsPast'
    BY <1>1, Zenon DEF SchInv, DueIsOccurrence, Occurrence, OneClaim, RunTimes,
                       RunsDiffer, SettledIsPast
  <1>5. HistoryAgrees' /\ SkippedHasNone'
    BY <1>0, <1>1, Zenon DEF SchInv, HistoryAgrees, Agrees, Has, SkippedHasNone
  <1>6. InputsKeyed' /\ InputsHaveRuns' /\ OneOpen'
    BY <1>1, Zenon DEF SchInv, InputsKeyed, InputsHaveRuns, OneOpen
  <1>7. OthersDone'
    BY <1>0, <1>1, Zenon DEF SchInv, OthersDone
  <1> QED
    BY <1>2, <1>3, <1>4, <1>5, <1>6, <1>7, Zenon DEF SchInv

(* An input moves towards done. *)
LEMMA InputMoves ==
  ASSUME SchInv, NEW k \in 1 .. Len(schInbox), NEW state \in {"active", "done"},
         schInbox[k].state # "done",
         schInbox' = [schInbox EXCEPT ![k].state = state],
         UNCHANGED <<schedule, runs, authority, driver, now>>
  PROVE  SchInv'
  <1>1. /\ schedule' = schedule /\ runs' = runs /\ authority' = authority
        /\ driver' = driver /\ now' = now
    BY Zenon
  <1>0. authority' <=> authority
    BY <1>1
  <1> DEFINE row == [schInbox[k] EXCEPT !.state = state]
  <1>2. schInbox \in Seq(InputRows) /\ schInbox[k] \in InputRows
    BY RowIn, Zenon DEF SchInv, SchTyped
  <1>3. row \in InputRows /\ row.for = schInbox[k].for /\ row.state = state
    BY <1>2, Zenon DEF InputRows
  <1>4. schInbox' = [schInbox EXCEPT ![k] = row]
    BY <1>2
  <1> HIDE DEF row
  <1>5. /\ schInbox' \in Seq(InputRows) /\ Len(schInbox') = Len(schInbox)
        /\ schInbox'[k] = row
        /\ \A j \in 1 .. Len(schInbox) : j # k => schInbox'[j] = schInbox[j]
    BY <1>2, <1>3, <1>4, RowChanged
  <1>6. /\ 1 .. Len(schInbox') = 1 .. Len(schInbox)
        /\ \A l \in 1 .. Len(schInbox) :
              /\ schInbox'[l].for = schInbox[l].for
              /\ schInbox'[l].state # "done" => schInbox[l].state # "done"
    BY <1>3, <1>5, Zenon
  <1>7. \A t : Has(t)' <=> Has(t)
    BY <1>6, Zenon DEF Has
  <1>8. SchTyped'
    BY <1>0, <1>1, <1>5, Zenon DEF SchInv, SchTyped
  <1>9. /\ PlanIsDue' /\ WorksOnClaim' /\ FiresWhatIsToFire' /\ OutcomeAgrees'
        /\ HistoryAgrees' /\ SkippedHasNone'
    BY <1>0, <1>1, <1>7, Zenon DEF SchInv, PlanIsDue, Occurrence, WorksOnClaim, FiresWhatIsToFire,
                       OutcomeAgrees, Agrees, HistoryAgrees, SkippedHasNone
  <1>10. DueIsOccurrence' /\ OneClaim' /\ RunTimes' /\ RunsDiffer' /\ SettledIsPast'
    BY <1>0, <1>1, Zenon
       DEF SchInv, DueIsOccurrence, Occurrence, OneClaim, RunTimes, RunsDiffer, SettledIsPast
  <1>11. InputsKeyed' /\ InputsHaveRuns'
    <2>1. InputsKeyed'
      BY <1>6, Zenon DEF SchInv, InputsKeyed
    <2>2. InputsHaveRuns'
      BY <1>1, <1>6, Zenon DEF SchInv, InputsHaveRuns
    <2> QED
      BY <2>1, <2>2, Zenon
  <1>12. OneOpen'
    BY <1>1, <1>6, Zenon DEF SchInv, OneOpen
  <1>13. OthersDone'
    <2>1. SUFFICES ASSUME schedule.overlap = "skip_if_running", authority,
                         NEW j \in 1 .. Len(runs), NEW l \in 1 .. Len(schInbox),
                         runs[j].status = "claimed", runs[j].intent = "fire",
                         schInbox'[l].for # runs[j].for
                  PROVE  schInbox'[l].state = "done"
      BY <1>0, <1>1, <1>6 DEF OthersDone
    <2>2. schInbox[l].state = "done"
      BY <1>6, <2>1, Zenon DEF SchInv, OthersDone
    <2> QED
      BY <1>6, <2>2, Zenon
  <1> QED
    BY <1>8, <1>9, <1>10, <1>11, <1>12, <1>13, Zenon DEF SchInv

LEMMA RevokeKeeps ==
  ASSUME SchInv, authority' = FALSE,
         UNCHANGED <<schedule, runs, schInbox, driver, now>>
  PROVE  SchInv'
  <1>1. /\ schedule' = schedule /\ runs' = runs /\ schInbox' = schInbox
        /\ driver' = driver /\ now' = now
    BY Zenon
  <1>2. SchTyped'
    BY <1>1, Zenon DEF SchInv, SchTyped
  <1>3. /\ PlanIsDue' /\ WorksOnClaim' /\ FiresWhatIsToFire' /\ OutcomeAgrees'
        /\ HistoryAgrees'
    BY <1>1, Zenon DEF SchInv, PlanIsDue, Occurrence, WorksOnClaim, FiresWhatIsToFire,
                       OutcomeAgrees, HistoryAgrees, Agrees, Has
  <1>4. /\ DueIsOccurrence' /\ OneClaim' /\ RunTimes' /\ RunsDiffer' /\ SettledIsPast'
        /\ SkippedHasNone'
    BY <1>1, Zenon DEF SchInv, DueIsOccurrence, Occurrence, OneClaim, RunTimes,
                       RunsDiffer, SettledIsPast, SkippedHasNone, Has
  <1>5. InputsKeyed' /\ InputsHaveRuns' /\ OneOpen'
    BY <1>1, Zenon DEF SchInv, InputsKeyed, InputsHaveRuns, OneOpen
  <1>6. OthersDone'
    BY Zenon DEF OthersDone
  <1> QED
    BY <1>2, <1>3, <1>4, <1>5, <1>6, Zenon DEF SchInv

(* What is left alone when the runs and the inputs are. *)
LEMMA RowsKept ==
  ASSUME SchInv, runs' = runs, schInbox' = schInbox, authority' = authority
  PROVE  /\ RunTimes' /\ RunsDiffer' /\ HistoryAgrees' /\ SkippedHasNone'
         /\ InputsKeyed' /\ InputsHaveRuns' /\ \A t : Has(t)' <=> Has(t)
  <1>0. authority' <=> authority
    OBVIOUS
  <1>1. RunTimes' /\ RunsDiffer'
    BY Zenon DEF SchInv, RunTimes, RunsDiffer
  <1>2. HistoryAgrees' /\ SkippedHasNone'
    BY <1>0, Zenon DEF SchInv, HistoryAgrees, Agrees, Has, SkippedHasNone
  <1>3. InputsKeyed' /\ InputsHaveRuns'
    BY Zenon DEF SchInv, InputsKeyed, InputsHaveRuns
  <1>4. \A t : Has(t)' <=> Has(t)
    BY Zenon DEF Has
  <1> QED
    BY <1>1, <1>2, <1>3, <1>4, Zenon

-----------------------------------------------------------------------------
(* Pause, resume and cancel. *)
LEMMA TransitionKeeps ==
  ASSUME SchInv, NEW status \in {"active", "paused", "cancelled"}, NEW due \in Nat,
         Occurrence(due), status = "active" => now < due, Transition(status, due)
  PROVE  SchInv'
  <1>1. /\ runs' = runs /\ schInbox' = schInbox /\ authority' = authority
        /\ driver' = driver /\ now' = now
    BY Zenon DEF Transition
  <1>0. authority' <=> authority
    BY <1>1
  <1>2. /\ ~HoldsGuard /\ schedule.updated <= now
        /\ \A k \in 1 .. Len(runs) : runs[k].status # "claimed"
    BY DEF Transition, MayTransition, Claimed, SchInv, SchTyped, ScheduleRows
  <1>3. /\ schedule' \in ScheduleRows /\ schedule'.status = status
        /\ schedule'.due = due /\ schedule'.updated = now
        /\ schedule'.overlap = schedule.overlap
    <2>1. schedule \in ScheduleRows /\ schedule.revision \in Nat /\ now \in Nat
      BY Zenon DEF SchInv, SchTyped, ScheduleRows
    <2>2. schedule.revision + 1 \in Nat
      BY <2>1
    <2>3. schedule' = [schedule EXCEPT !.status = status, !.due = due,
                         !.revision = schedule.revision + 1, !.updated = now]
      BY Zenon DEF Transition
    <2> QED
      BY <2>1, <2>2, <2>3, Zenon DEF ScheduleRows
  <1>4. SchTyped'
    BY <1>1, <1>3, Zenon DEF SchInv, SchTyped
  <1>5. DueIsOccurrence' /\ OneClaim'
    BY <1>1, <1>2, <1>3, Zenon DEF DueIsOccurrence, Occurrence, OneClaim
  <1>6. SettledIsPast'
    <2>1. SUFFICES ASSUME NEW k \in 1 .. Len(runs)
                   PROVE  /\ runs[k].for <= now
                          /\ status = "active" => runs[k].for < due
      BY <1>1, <1>3, Zenon DEF SettledIsPast
    <2>2. runs[k].for <= schedule.updated
      BY <1>2, Zenon DEF SchInv, SettledIsPast
    <2>3. runs[k].for \in Nat /\ schedule.updated \in Nat /\ now \in Nat
      BY RunFields, Zenon DEF SchInv, SchTyped, ScheduleRows
    <2>4. runs[k].for <= now
      BY <1>2, <2>2, <2>3
    <2>5. ASSUME status = "active" PROVE runs[k].for < due
      <3>1. now < due
        BY <2>5, Zenon
      <3> QED
        BY <2>3, <2>4, <3>1
    <2> QED
      BY <2>4, <2>5, Zenon
  <1>7. PlanIsDue' /\ WorksOnClaim' /\ FiresWhatIsToFire' /\ OutcomeAgrees'
    <2>1. driver'.phase \notin {"fire", "complete"}
      BY <1>1, <1>2, Zenon DEF HoldsGuard
    <2> QED
      BY <1>1, <2>1, Zenon DEF SchInv, PlanIsDue, Occurrence, WorksOnClaim,
                               FiresWhatIsToFire, OutcomeAgrees
  <1>8. OneOpen'
    BY <1>1, <1>3, Zenon DEF SchInv, OneOpen
  <1>9. OthersDone'
    BY <1>1, <1>2, Zenon DEF OthersDone
  <1> QED
    BY <1>1, <1>4, <1>5, <1>6, <1>7, <1>8, <1>9, RowsKept, Zenon DEF SchInv

LEMMA OwnerKeeps ==
  ASSUME SchInv, Pause \/ Resume \/ Cancel
  PROVE  SchInv'
  <1>1. schedule \in ScheduleRows /\ schedule.due \in Nat /\ now \in Nat
    BY Zenon DEF SchInv, SchTyped, ScheduleRows
  <1>2. CASE Pause
    BY <1>1, <1>2, TransitionKeeps, Zenon DEF Pause, SchInv, DueIsOccurrence
  <1>3. CASE Resume
    BY <1>1, <1>3, Occurrences, TransitionKeeps, Zenon DEF Resume
  <1>4. CASE Cancel
    <2>1. Occurrence(0) /\ 0 \in Nat
      BY DEF Occurrence
    <2> QED
      BY <1>4, <2>1, TransitionKeeps, Zenon DEF Cancel
  <1> QED
    BY <1>2, <1>3, <1>4, Zenon

-----------------------------------------------------------------------------
(* The driver reads what is due. *)
LEMMA ReadDueKeeps ==
  ASSUME SchInv, ReadDue
  PROVE  SchInv'
  <1> DEFINE plan == PlanDueSchedule(schedule, now)
             d == [phase |-> "planned", revision |-> schedule.revision,
                   due |-> schedule.due, at |-> now, plan |-> plan]
  <1>1. /\ schedule' = schedule /\ runs' = runs /\ schInbox' = schInbox
        /\ authority' = authority /\ now' = now /\ driver' = d /\ schedule.due <= now
    BY Zenon DEF ReadDue
  <1>0. authority' <=> authority
    BY <1>1
  <1>2. schedule.due \in Nat /\ schedule.revision \in Nat /\ now \in Nat
    BY Zenon DEF SchInv, SchTyped, ScheduleRows
  <1>3. /\ plan \in Plans /\ schedule.due <= plan.for /\ plan.for <= now
        /\ now < plan.next /\ Occurrence(plan.next)
    <2>1. /\ LatestOccurrence(now) \in Nat /\ NextOccurrence(now) \in Nat
          /\ LatestOccurrence(now) <= now /\ now < NextOccurrence(now)
          /\ Occurrence(NextOccurrence(now))
          /\ schedule.due <= LatestOccurrence(now)
      BY <1>1, <1>2, Occurrences, Zenon DEF SchInv, DueIsOccurrence
    <2> QED
      BY <2>1, Zenon DEF PlanDueSchedule, Plans
  <1> HIDE DEF plan
  <1>4. /\ d \in Planned /\ d.phase = "planned" /\ d.due = schedule.due
        /\ d.at = now /\ d.plan = plan
    BY <1>2, <1>3, Zenon DEF Planned
  <1> HIDE DEF d
  <1>5. SchTyped'
    BY <1>1, <1>4, Zenon DEF SchInv, SchTyped
  <1>6. PlanIsDue' /\ WorksOnClaim' /\ FiresWhatIsToFire' /\ OutcomeAgrees'
    BY <1>1, <1>3, <1>4, Zenon DEF PlanIsDue, Occurrence, WorksOnClaim,
                                   FiresWhatIsToFire, OutcomeAgrees
  <1>7. DueIsOccurrence' /\ OneClaim' /\ SettledIsPast' /\ OneOpen'
    BY <1>1, Zenon DEF SchInv, DueIsOccurrence, Occurrence, OneClaim,
                       SettledIsPast, OneOpen
  <1>8. OthersDone'
    BY <1>0, <1>1, Zenon DEF SchInv, OthersDone
  <1> QED
    BY <1>1, <1>5, <1>6, <1>7, <1>8, RowsKept, Zenon DEF SchInv

-----------------------------------------------------------------------------
(* The driver claims a run. *)

PlanFacts ==
    /\ driver.due \in Nat /\ driver.at \in Nat
    /\ driver.plan \in Plans /\ driver.plan.for \in Nat /\ driver.plan.next \in Nat
    /\ driver.due <= driver.plan.for /\ driver.plan.for <= driver.at
    /\ driver.at < driver.plan.next

LEMMA PlanHasFacts ==
  ASSUME SchInv, driver.phase = "planned"
  PROVE  PlanFacts /\ Occurrence(driver.plan.next)
  <1>1. driver \in Planned
    BY DriverFields, Zenon DEF SchInv
  <1>2. /\ driver.due \in Nat /\ driver.at \in Nat /\ driver.plan \in Plans
    BY <1>1, Zenon DEF Planned
  <1>3. driver.plan.for \in Nat /\ driver.plan.next \in Nat
    BY <1>2, Zenon DEF Plans
  <1> QED
    BY <1>2, <1>3, Zenon DEF SchInv, PlanIsDue, PlanFacts

(* What a driver that has just claimed run k remembers. *)
LEMMA ClaimedDriver ==
  ASSUME NEW phase \in {"fire", "complete"}, NEW k \in Nat, NEW next \in Nat,
         driver' = [phase |-> phase, run |-> k, next |-> next, status |-> "skipped"]
  PROVE  /\ driver' \in Working /\ driver'.phase = phase /\ driver'.run = k
         /\ driver'.next = next /\ driver'.status = "skipped"
  BY Zenon DEF Working

LEMMA TtlIsPositive == ClaimTtl \in Nat /\ \A t \in Nat : t + ClaimTtl \in Nat /\ t < t + ClaimTtl
  <1>1. ClaimTtl \in Nat \ {0}
    BY Zenon
  <1> QED
    BY <1>1

(* The columns of a run that a renewed claim leaves alone. *)
RunsAlike(k, expires) ==
    /\ runs' \in Seq(RunRows) /\ 1 .. Len(runs') = 1 .. Len(runs)
    /\ \A j \in 1 .. Len(runs) :
          /\ runs'[j].for = runs[j].for /\ runs'[j].intent = runs[j].intent
          /\ runs'[j].status = runs[j].status /\ runs'[j].created = runs[j].created
          /\ j # k => runs'[j].expires = runs[j].expires
    /\ runs'[k].expires = expires

LEMMA ClaimRenewed ==
  ASSUME SchTyped, NEW k \in 1 .. Len(runs), NEW expires \in Nat,
         NEW coalesced \in BOOLEAN,
         runs' = [runs EXCEPT ![k] = [runs[k] EXCEPT !.expires = expires,
                                                     !.coalesced = coalesced]]
  PROVE  RunsAlike(k, expires)
  <1> DEFINE row == [runs[k] EXCEPT !.expires = expires, !.coalesced = coalesced]
  <1>1. runs \in Seq(RunRows) /\ runs[k] \in RunRows /\ runs' = [runs EXCEPT ![k] = row]
    BY RunFields, Zenon DEF SchTyped
  <1>2. /\ row \in RunRows /\ row.for = runs[k].for /\ row.intent = runs[k].intent
        /\ row.status = runs[k].status /\ row.created = runs[k].created
        /\ row.expires = expires
    BY <1>1, Zenon DEF RunRows
  <1> HIDE DEF row
  <1>3. /\ runs' \in Seq(RunRows) /\ Len(runs') = Len(runs) /\ runs'[k] = row
        /\ \A j \in 1 .. Len(runs) : j # k => runs'[j] = runs[j]
    <2>1. ASSUME NEW p, p = [runs EXCEPT ![k] = row]
          PROVE  /\ p \in Seq(RunRows) /\ Len(p) = Len(runs) /\ p[k] = row
                 /\ \A j \in 1 .. Len(runs) : j # k => p[j] = runs[j]
      <3>1. runs \in Seq(RunRows) /\ row \in RunRows
        BY <1>1, <1>2, Zenon
      <3> QED
        BY <2>1, <3>1, RowChanged, SMT
    <2> QED
      BY <1>1, <2>1, Zenon
  <1> QED
    BY <1>2, <1>3, Zenon DEF RunsAlike

(* A claim that expired is taken over. *)
LEMMA TakeOverKeeps ==
  ASSUME SchInv, driver.phase = "planned", SnapshotHolds,
         NEW k \in 1 .. Len(runs), runs[k].status = "claimed",
         runs[k].expires <= driver.at, RunsAlike(k, driver.at + ClaimTtl),
         driver' = [phase |-> NextPhase(runs[k].intent), run |-> k,
                    next |-> driver.plan.next, status |-> "skipped"],
         UNCHANGED <<schedule, schInbox, authority, now>>
  PROVE  SchInv'
  <1>1. /\ schedule' = schedule /\ schInbox' = schInbox /\ authority' = authority
        /\ now' = now
    BY Zenon
  <1>0. authority' <=> authority
    BY <1>1
  <1>2. /\ runs[k].for \in Nat /\ runs[k].created \in Nat
        /\ runs[k].expires \in Nat /\ k \in Nat
    BY RunFields, Zenon DEF SchInv
  <1>3. PlanFacts /\ Occurrence(driver.plan.next)
    BY PlanHasFacts, Zenon
  <1>4. runs[k].for <= runs[k].created /\ runs[k].created < runs[k].expires
    BY Zenon DEF SchInv, RunTimes
  <1>5. /\ runs[k].created < driver.at + ClaimTtl /\ runs[k].for < driver.plan.next
    <2> DEFINE at == driver.at
               next == driver.plan.next
               e == runs[k].expires
               c == runs[k].created
               f == runs[k].for
    <2>1. at \in Nat /\ next \in Nat /\ at < next /\ e <= at
      BY <1>3, Zenon DEF PlanFacts
    <2>2. c \in Nat /\ e \in Nat /\ f \in Nat /\ f <= c /\ c < e
      BY <1>2, <1>4, Zenon
    <2>3. at + ClaimTtl \in Nat /\ at < at + ClaimTtl
      BY <2>1, TtlIsPositive, Zenon
    <2> HIDE DEF at, next, e, c, f
    <2>4. c < at + ClaimTtl /\ f < next
      BY <2>1, <2>2, <2>3
    <2> QED
      BY <2>4 DEF at, next, c, f
  <1>10. /\ 1 .. Len(runs') = 1 .. Len(runs)
         /\ \A j \in 1 .. Len(runs) :
               /\ runs'[j].for = runs[j].for /\ runs'[j].intent = runs[j].intent
               /\ runs'[j].status = runs[j].status /\ runs'[j].created = runs[j].created
               /\ j # k => runs'[j].expires = runs[j].expires
         /\ runs'[k].expires = driver.at + ClaimTtl
    BY Zenon DEF RunsAlike
  <1>11. NextPhase(runs[k].intent) = IF runs[k].intent = "fire" THEN "fire" ELSE "complete"
    BY Zenon DEF NextPhase
  <1>12. /\ driver' \in Working /\ driver'.run = k /\ driver'.next = driver.plan.next
         /\ driver'.status = "skipped" /\ driver'.phase = NextPhase(runs[k].intent)
    BY <1>2, <1>3, <1>11, ClaimedDriver, Zenon DEF PlanFacts
  <1>13. \A t : Has(t)' <=> Has(t)
    BY <1>1, Zenon DEF Has
  <1>14. SchTyped'
    BY <1>1, <1>12, Zenon DEF SchInv, SchTyped, RunsAlike
  <1>15. DueIsOccurrence' /\ OneClaim' /\ SettledIsPast'
    BY <1>1, <1>10, Zenon DEF SchInv, DueIsOccurrence, Occurrence, OneClaim, SettledIsPast
  <1>16. RunTimes'
    BY <1>4, <1>5, <1>10, Zenon DEF SchInv, RunTimes
  <1>17. RunsDiffer' /\ InputsHaveRuns'
    <2>1. RunsDiffer'
      BY <1>10, Zenon DEF SchInv, RunsDiffer
    <2>2. ASSUME NEW l \in 1 .. Len(schInbox)
          PROVE  \E j \in 1 .. Len(runs') : runs'[j].for = schInbox[l].for
      <3>1. PICK j \in 1 .. Len(runs) : runs[j].for = schInbox[l].for
        BY Zenon DEF SchInv, InputsHaveRuns
      <3> QED
        BY <1>10, <3>1, Zenon
    <2> QED
      BY <1>1, <2>1, <2>2, Zenon DEF InputsHaveRuns
  <1>18. PlanIsDue'
    <2>1. driver'.phase # "planned"
      BY <1>11, <1>12
    <2> QED
      BY <2>1, Zenon DEF PlanIsDue
  <1>19. WorksOnClaim'
    <2>1. schedule.due < driver.plan.next
      <3>1. schedule.due = driver.due
        BY Zenon DEF SnapshotHolds
      <3> DEFINE due == driver.due
                 next == driver.plan.next
                 at == driver.at
                 f == driver.plan.for
      <3>2. /\ due \in Nat /\ next \in Nat /\ at \in Nat /\ f \in Nat
            /\ due <= f /\ f <= at /\ at < next
        BY <1>3, Zenon DEF PlanFacts
      <3> HIDE DEF due, next, at, f
      <3>3. due < next
        BY <3>2
      <3> QED
        BY <3>1, <3>3 DEF due, next
    <2> QED
      BY <1>1, <1>3, <1>5, <1>10, <1>12, <2>1, Zenon DEF WorksOnClaim, Occurrence
  <1>20. FiresWhatIsToFire'
    BY <1>10, <1>11, <1>12 DEF FiresWhatIsToFire
  <1>21. HistoryAgrees' /\ SkippedHasNone'
    BY <1>0, <1>10, <1>13, Zenon DEF SchInv, HistoryAgrees, Agrees, SkippedHasNone
  <1>22. OutcomeAgrees'
    <2>1. runs[k].intent # "fire" => ~Has(runs[k].for)
      BY Zenon DEF SchInv, SkippedHasNone
    <2>2. driver'.phase = "complete" => runs[k].intent # "fire"
      BY <1>11, <1>12
    <2> QED
      BY <1>10, <1>12, <1>13, <2>1, <2>2, Zenon DEF OutcomeAgrees, Agrees
  <1>23. InputsKeyed' /\ OneOpen'
    BY <1>1, Zenon DEF SchInv, InputsKeyed, OneOpen
  <1>24. OthersDone'
    <2>1. ASSUME schedule'.overlap = "skip_if_running", authority',
                 NEW j \in 1 .. Len(runs'), NEW l \in 1 .. Len(schInbox'),
                 runs'[j].status = "claimed", runs'[j].intent = "fire",
                 schInbox'[l].for # runs'[j].for
          PROVE  schInbox'[l].state = "done"
      <3>1. /\ schedule.overlap = "skip_if_running" /\ authority
            /\ j \in 1 .. Len(runs) /\ l \in 1 .. Len(schInbox)
            /\ runs[j].status = "claimed" /\ runs[j].intent = "fire"
            /\ schInbox[l].for # runs[j].for
        BY <1>0, <1>1, <1>10, <2>1, Zenon
      <3> QED
        BY <1>1, <3>1, Zenon DEF SchInv, OthersDone
    <2> QED
      BY <2>1, Zenon DEF OthersDone
  <1> QED
    BY <1>14, <1>15, <1>16, <1>17, <1>18, <1>19, <1>20, <1>21, <1>22, <1>23,
       <1>24, Zenon DEF SchInv

(* A new run is claimed for the planned occurrence. *)
RunInserted(n, for, intent, expires, created) ==
    /\ runs' \in Seq(RunRows) /\ 1 .. Len(runs') = 1 .. Len(runs) \cup {n}
    /\ n \in 1 .. Len(runs') /\ n \notin 1 .. Len(runs) /\ n \in Nat
    /\ \A j \in 1 .. Len(runs) : runs'[j] = runs[j]
    /\ runs'[n].for = for /\ runs'[n].intent = intent
    /\ runs'[n].status = "claimed"
    /\ runs'[n].expires = expires /\ runs'[n].created = created

LEMMA RunIsInserted ==
  ASSUME SchTyped, NEW for \in Nat, NEW coalesced \in BOOLEAN,
         NEW intent \in {"fire", "skip_misfire", "skip_overlap"},
         NEW expires \in Nat, NEW created \in Nat,
         runs' = Append(runs, [for |-> for, coalesced |-> coalesced,
                               intent |-> intent, status |-> "claimed",
                               expires |-> expires, created |-> created])
  PROVE  RunInserted(Len(runs) + 1, for, intent, expires, created)
  <1> DEFINE row == [for |-> for, coalesced |-> coalesced, intent |-> intent,
                     status |-> "claimed", expires |-> expires, created |-> created]
  <1>1. runs \in Seq(RunRows) /\ runs' = Append(runs, row)
    BY Zenon DEF SchTyped
  <1>2. /\ row \in RunRows /\ row.for = for /\ row.intent = intent
        /\ row.status = "claimed" /\ row.expires = expires /\ row.created = created
    BY Zenon DEF RunRows
  <1> HIDE DEF row
  <1>3. Len(runs) + 1 \in Nat
    BY <1>1
  <1>4. /\ runs' \in Seq(RunRows) /\ Len(runs) + 1 \in 1 .. Len(runs')
        /\ 1 .. Len(runs') = 1 .. Len(runs) \cup {Len(runs) + 1}
        /\ Len(runs) + 1 \notin 1 .. Len(runs)
        /\ runs'[Len(runs) + 1] = row /\ \A j \in 1 .. Len(runs) : runs'[j] = runs[j]
    <2>1. ASSUME NEW p, p = Append(runs, row)
          PROVE  /\ p \in Seq(RunRows) /\ Len(runs) + 1 \in 1 .. Len(p)
                 /\ 1 .. Len(p) = 1 .. Len(runs) \cup {Len(runs) + 1}
                 /\ Len(runs) + 1 \notin 1 .. Len(runs)
                 /\ p[Len(runs) + 1] = row /\ \A j \in 1 .. Len(runs) : p[j] = runs[j]
      <3>1. runs \in Seq(RunRows) /\ row \in RunRows
        BY <1>1, <1>2, Zenon
      <3> QED
        BY <2>1, <3>1, RowAppended, SMT
    <2> QED
      BY <1>1, <2>1, Zenon
  <1> QED
    BY <1>2, <1>3, <1>4, Zenon DEF RunInserted

LEMMA NewClaimKeeps ==
  ASSUME SchInv, driver.phase = "planned", SnapshotHolds,
         \A k \in 1 .. Len(runs) : runs[k].status # "claimed",
         NEW n, NEW intent \in {"fire", "skip_misfire", "skip_overlap"},
         schedule.overlap = "skip_if_running" /\ HasActiveRun => intent # "fire",
         RunInserted(n, driver.plan.for, intent, driver.at + ClaimTtl, driver.at),
         driver' = [phase |-> NextPhase(intent), run |-> n,
                    next |-> driver.plan.next, status |-> "skipped"],
         UNCHANGED <<schedule, schInbox, authority, now>>
  PROVE  SchInv'
  <1>1. /\ schedule' = schedule /\ schInbox' = schInbox /\ authority' = authority
        /\ now' = now
    BY Zenon
  <1>0. authority' <=> authority
    BY <1>1
  <1> DEFINE for == driver.plan.for
             at == driver.at
             next == driver.plan.next
  <1>2. /\ schedule.due \in Nat /\ at \in Nat /\ for \in Nat /\ next \in Nat
        /\ schedule.due <= for /\ for <= at /\ at < next
        /\ Occurrence(next) /\ at < at + ClaimTtl
    BY PlanHasFacts, TtlIsPositive, Zenon DEF PlanFacts, SnapshotHolds
  <1>3. /\ runs' \in Seq(RunRows) /\ 1 .. Len(runs') = 1 .. Len(runs) \cup {n}
        /\ n \in 1 .. Len(runs') /\ n \notin 1 .. Len(runs) /\ n \in Nat
        /\ \A j \in 1 .. Len(runs) : runs'[j] = runs[j]
        /\ runs'[n].for = for /\ runs'[n].intent = intent
        /\ runs'[n].status = "claimed"
        /\ runs'[n].expires = at + ClaimTtl /\ runs'[n].created = at
    BY Zenon DEF RunInserted
  <1>4. NextPhase(intent) = IF intent = "fire" THEN "fire" ELSE "complete"
    BY Zenon DEF NextPhase
  <1>5. /\ driver' \in Working /\ driver'.run = n /\ driver'.next = next
        /\ driver'.status = "skipped" /\ driver'.phase = NextPhase(intent)
    BY <1>2, <1>3, <1>4, ClaimedDriver, Zenon
  <1> HIDE DEF for, at, next
  <1>6. schedule.status = "active"
    BY Zenon DEF SnapshotHolds
  (* Everything so far is for an earlier occurrence. *)
  <1>7. \A j \in 1 .. Len(runs) : runs[j].for # for
    <2> TAKE j \in 1 .. Len(runs)
    <2>1. runs[j].for < schedule.due
      BY <1>6, Zenon DEF SchInv, SettledIsPast
    <2>2. runs[j].for \in Nat
      BY RunFields, Zenon DEF SchInv
    <2> QED
      BY <1>2, <2>1, <2>2
  <1>8. ~Has(for)
    BY <1>7, Zenon DEF SchInv, InputsHaveRuns, Has
  <1>9. \A t : Has(t)' <=> Has(t)
    BY <1>1, Zenon DEF Has
  <1>10. SchTyped'
    BY <1>1, <1>3, <1>5, Zenon DEF SchInv, SchTyped
  <1>11. DueIsOccurrence' /\ OneClaim' /\ SettledIsPast'
    BY <1>1, <1>3, <1>6, Zenon DEF SchInv, DueIsOccurrence, Occurrence, OneClaim,
                                   SettledIsPast
  <1>12. RunTimes'
    BY <1>2, <1>3, Zenon DEF SchInv, RunTimes
  <1>13. RunsDiffer'
    BY <1>3, <1>7, Zenon DEF SchInv, RunsDiffer
  <1>14. driver'.phase \in {"fire", "complete"} /\ (driver'.phase = "fire" <=> intent = "fire")
    BY <1>4, <1>5
  <1>15. PlanIsDue'
    BY <1>14 DEF PlanIsDue
  <1>16. WorksOnClaim'
    <2>1. schedule.due < next /\ for < next
      BY <1>2
    <2> QED
      BY <1>1, <1>2, <1>3, <1>5, <2>1, Zenon DEF WorksOnClaim, Occurrence
  <1>17. FiresWhatIsToFire'
    BY <1>3, <1>5, <1>14, Zenon DEF FiresWhatIsToFire
  <1>18. HistoryAgrees' /\ SkippedHasNone'
    <2>1. \A j \in 1 .. Len(runs) : Agrees(runs[j].status, runs[j].for)'
      BY <1>0, <1>3, <1>9, Zenon DEF SchInv, HistoryAgrees, Agrees
    <2>2. HistoryAgrees'
      BY <1>3, <2>1 DEF HistoryAgrees, Agrees
    <2>3. SkippedHasNone'
      BY <1>3, <1>8, <1>9, Zenon DEF SkippedHasNone
    <2> QED
      BY <2>2, <2>3, Zenon
  <1>19. OutcomeAgrees'
    BY <1>3, <1>5, <1>8, <1>9, Zenon DEF OutcomeAgrees, Agrees
  <1>20. InputsKeyed' /\ OneOpen'
    BY <1>1, Zenon DEF SchInv, InputsKeyed, OneOpen
  <1>21. InputsHaveRuns'
    <2>1. ASSUME NEW l \in 1 .. Len(schInbox)
          PROVE  \E k \in 1 .. Len(runs') : runs'[k].for = schInbox[l].for
      <3>1. PICK k \in 1 .. Len(runs) : runs[k].for = schInbox[l].for
        BY Zenon DEF SchInv, InputsHaveRuns
      <3>2. k \in 1 .. Len(runs') /\ runs'[k].for = schInbox[l].for
        BY <1>3, <3>1
      <3> QED
        BY <3>2, Zenon
    <2> QED
      BY <1>1, <2>1, Zenon DEF InputsHaveRuns
  <1>22. OthersDone'
    <2>1. ASSUME schedule'.overlap = "skip_if_running", authority',
                 NEW j \in 1 .. Len(runs'), NEW l \in 1 .. Len(schInbox'),
                 runs'[j].status = "claimed", runs'[j].intent = "fire",
                 schInbox'[l].for # runs'[j].for
          PROVE  schInbox'[l].state = "done"
      <3>1. j = n /\ intent = "fire"
        BY <1>3, <2>1, Zenon
      <3>2. /\ ~HasActiveRun /\ authority /\ l \in 1 .. Len(schInbox)
        BY <1>0, <1>1, <2>1, <3>1, Zenon
      <3>3. PICK k \in 1 .. Len(runs) : runs[k].for = schInbox[l].for
        BY <3>2, Zenon DEF SchInv, InputsHaveRuns
      <3>4. Has(runs[k].for)
        BY <3>2, <3>3, Zenon DEF Has
      <3>5. runs[k].status = "admitted"
        <4>1. runs[k].status \in {"claimed", "admitted", "failed", "skipped"}
          BY RunFields, Zenon DEF SchInv, RunRows
        <4> QED
          BY <3>2, <3>4, <4>1, Zenon DEF SchInv, HistoryAgrees, Agrees
      <3>6. schInbox[l].state \in {"pending", "active", "done"}
        <4>1. schInbox \in Seq(InputRows)
          BY Zenon DEF SchInv, SchTyped
        <4>2. schInbox[l] \in InputRows
          BY <3>2, <4>1, RowIn
        <4> QED
          BY <4>2, Zenon DEF InputRows
      <3> QED
        BY <1>1, <3>2, <3>3, <3>5, <3>6, Zenon DEF HasActiveRun
    <2> QED
      BY <2>1, Zenon DEF OthersDone
  <1> QED
    BY <1>10, <1>11, <1>12, <1>13, <1>15, <1>16, <1>17, <1>18, <1>19, <1>20,
       <1>21, <1>22, Zenon DEF SchInv

LEMMA ClaimRunKeeps ==
  ASSUME SchInv, ClaimRun
  PROVE  SchInv'
  <1>1. /\ driver.phase = "planned"
        /\ UNCHANGED <<schedule, schInbox, authority, now>>
    BY Zenon DEF ClaimRun
  <1>2. /\ driver.at \in Nat /\ driver.plan \in Plans
        /\ driver.plan.for \in Nat /\ SchTyped
    BY <1>1, PlanHasFacts, Zenon DEF PlanFacts, SchInv
  <1>3. /\ driver.plan.coalesced \in BOOLEAN
        /\ driver.plan.intent \in {"fire", "skip_misfire"}
    BY <1>2, Zenon DEF Plans
  <1>4. driver.at + ClaimTtl \in Nat
    BY <1>2, TtlIsPositive, Zenon
  <1>5. CASE driver' = SchIdle /\ UNCHANGED runs
    BY <1>1, <1>5, DriverRests, Zenon
  <1>6. ASSUME SnapshotHolds, NEW k \in Claimed, runs[k].expires <= driver.at,
               runs' = [runs EXCEPT ![k] =
                    [@ EXCEPT !.expires = driver.at + ClaimTtl,
                              !.coalesced = runs[k].coalesced \/ driver.plan.coalesced]],
               driver' = [phase |-> NextPhase(runs[k].intent), run |-> k,
                          next |-> driver.plan.next, status |-> "skipped"]
        PROVE  SchInv'
    <2>1. k \in 1 .. Len(runs) /\ runs[k].status = "claimed"
      BY <1>6, Zenon DEF Claimed
    <2>2. runs[k] \in RunRows /\ runs \in Seq(RunRows)
      BY <1>2, <2>1, RunFields, Zenon DEF SchTyped
    <2> DEFINE coalesced == runs[k].coalesced \/ driver.plan.coalesced
    <2>3. coalesced \in BOOLEAN
      OBVIOUS
    <2>4. runs' = [runs EXCEPT ![k] = [runs[k] EXCEPT !.expires = driver.at + ClaimTtl,
                                                      !.coalesced = coalesced]]
      BY <1>6, Zenon
    <2> HIDE DEF coalesced
    <2>5. RunsAlike(k, driver.at + ClaimTtl)
      BY <1>2, <1>4, <2>1, <2>3, <2>4, ClaimRenewed, Zenon
    <2> QED
      BY <1>1, <1>6, <2>1, <2>5, TakeOverKeeps, Zenon
  <1>7. ASSUME SnapshotHolds, Claimed = {},
               runs' = Append(runs, [for |-> driver.plan.for,
                           coalesced |-> driver.plan.coalesced,
                           intent |-> Intent(driver.plan), status |-> "claimed",
                           expires |-> driver.at + ClaimTtl, created |-> driver.at]),
               driver' = [phase |-> NextPhase(Intent(driver.plan)), run |-> Len(runs) + 1,
                          next |-> driver.plan.next, status |-> "skipped"]
        PROVE  SchInv'
    <2> DEFINE intent == Intent(driver.plan)
    <2>1. /\ intent \in {"fire", "skip_misfire", "skip_overlap"}
          /\ schedule.overlap = "skip_if_running" /\ HasActiveRun => intent # "fire"
      BY <1>3 DEF Intent
    <2>2. \A k \in 1 .. Len(runs) : runs[k].status # "claimed"
      BY <1>7, Zenon DEF Claimed
    <2> HIDE DEF intent
    <2>3. RunInserted(Len(runs) + 1, driver.plan.for, intent, driver.at + ClaimTtl,
                      driver.at)
      BY <1>2, <1>3, <1>4, <1>7, <2>1, RunIsInserted, Zenon DEF intent
    <2> QED
      BY <1>1, <1>7, <2>1, <2>2, <2>3, NewClaimKeeps, Zenon DEF intent
  <1> QED
    BY <1>5, <1>6, <1>7, Zenon DEF ClaimRun

(***************************************************************************)
(* Admission.                                                              *)
(***************************************************************************)
LEMMA DriverCompletes ==
  ASSUME SchInv, driver.phase = "fire", NEW status \in {"admitted", "failed"},
         driver' = [driver EXCEPT !.phase = "complete", !.status = status]
  PROVE  /\ driver' \in Working /\ driver'.phase = "complete"
         /\ driver'.run = driver.run /\ driver'.next = driver.next
         /\ driver'.status = status
  <1>1. driver \in Working
    BY DriverFields, Zenon DEF SchInv
  <1> QED
    BY <1>1, Zenon DEF Working

(* The run the driver fires is the only claim, and one to fire. *)
LEMMA FiredRun ==
  ASSUME SchInv, driver.phase = "fire"
  PROVE  /\ driver.run \in 1 .. Len(runs) /\ runs[driver.run].status = "claimed"
         /\ runs[driver.run].intent = "fire" /\ runs[driver.run].for \in Nat
         /\ \A k \in 1 .. Len(runs) : runs[k].status = "claimed" => k = driver.run
         /\ \A k \in 1 .. Len(runs) : runs[k].for = runs[driver.run].for => k = driver.run
  <1>1. /\ driver.run \in 1 .. Len(runs) /\ runs[driver.run].status = "claimed"
        /\ runs[driver.run].intent = "fire"
    BY Zenon DEF SchInv, WorksOnClaim, FiresWhatIsToFire
  <1> QED
    BY <1>1, RunFields, Zenon DEF SchInv, OneClaim, RunsDiffer

(* The input was there already, or is refused. *)
LEMMA NothingAdmittedKeeps ==
  ASSUME SchInv, driver.phase = "fire", NEW status \in {"admitted", "failed"},
         Agrees(status, runs[driver.run].for),
         driver' = [driver EXCEPT !.phase = "complete", !.status = status],
         UNCHANGED <<schedule, runs, schInbox, authority, now>>
  PROVE  SchInv'
  <1>1. /\ schedule' = schedule /\ runs' = runs /\ schInbox' = schInbox
        /\ authority' = authority /\ now' = now
    BY Zenon
  <1>0. authority' <=> authority
    BY <1>1
  <1>2. /\ driver' \in Working /\ driver'.phase = "complete"
        /\ driver'.run = driver.run /\ driver'.next = driver.next
        /\ driver'.status = status
    BY DriverCompletes, Zenon
  <1>3. /\ RunTimes' /\ RunsDiffer' /\ HistoryAgrees' /\ SkippedHasNone'
        /\ InputsKeyed' /\ InputsHaveRuns' /\ \A t : Has(t)' <=> Has(t)
    BY <1>1, RowsKept, Zenon
  <1>4. SchTyped'
    BY <1>0, <1>1, <1>2, Zenon DEF SchInv, SchTyped
  <1>5. DueIsOccurrence' /\ OneClaim' /\ SettledIsPast'
    BY <1>1, Zenon DEF SchInv, DueIsOccurrence, Occurrence, OneClaim, SettledIsPast
  <1>6. PlanIsDue' /\ FiresWhatIsToFire'
    BY <1>2 DEF PlanIsDue, FiresWhatIsToFire
  <1>7. WorksOnClaim'
    BY <1>1, <1>2, Zenon DEF SchInv, WorksOnClaim, Occurrence
  <1>8. OutcomeAgrees'
    BY <1>0, <1>1, <1>2, <1>3, Zenon DEF OutcomeAgrees, Agrees
  <1>9. OneOpen' /\ OthersDone'
    BY <1>0, <1>1, Zenon DEF SchInv, OneOpen, OthersDone
  <1> QED
    BY <1>3, <1>4, <1>5, <1>6, <1>7, <1>8, <1>9, Zenon DEF SchInv

(* The input is new. *)
InputInserted(n, for) ==
    /\ schInbox' \in Seq(InputRows) /\ 1 .. Len(schInbox') = 1 .. Len(schInbox) \cup {n}
    /\ n \notin 1 .. Len(schInbox)
    /\ \A l \in 1 .. Len(schInbox) : schInbox'[l] = schInbox[l]
    /\ schInbox'[n].for = for

LEMMA InputIsInserted ==
  ASSUME SchTyped, NEW for \in Nat,
         schInbox' = Append(schInbox, [for |-> for, state |-> "pending"])
  PROVE  InputInserted(Len(schInbox) + 1, for)
  <1> DEFINE row == [for |-> for, state |-> "pending"]
  <1>1. schInbox \in Seq(InputRows) /\ schInbox' = Append(schInbox, row)
    BY Zenon DEF SchTyped
  <1>2. row \in InputRows /\ row.for = for
    BY Zenon DEF InputRows
  <1> HIDE DEF row
  <1>3. ASSUME NEW p, p = Append(schInbox, row)
        PROVE  /\ p \in Seq(InputRows)
               /\ 1 .. Len(p) = 1 .. Len(schInbox) \cup {Len(schInbox) + 1}
               /\ Len(schInbox) + 1 \notin 1 .. Len(schInbox)
               /\ p[Len(schInbox) + 1] = row
               /\ \A l \in 1 .. Len(schInbox) : p[l] = schInbox[l]
    <2>1. schInbox \in Seq(InputRows) /\ row \in InputRows
      BY <1>1, <1>2, Zenon
    <2> QED
      BY <1>3, <2>1, RowAppended, SMT
  <1> QED
    BY <1>1, <1>2, <1>3, Zenon DEF InputInserted

LEMMA FreshInputKeeps ==
  ASSUME SchInv, driver.phase = "fire", authority, ~Has(runs[driver.run].for), NEW n,
         InputInserted(n, runs[driver.run].for),
         driver' = [driver EXCEPT !.phase = "complete", !.status = "admitted"],
         UNCHANGED <<schedule, runs, authority, now>>
  PROVE  SchInv'
  <1>1. /\ schedule' = schedule /\ runs' = runs /\ authority' = authority /\ now' = now
    BY Zenon
  <1>0. authority'
    BY <1>1
  <1>2. /\ driver' \in Working /\ driver'.phase = "complete"
        /\ driver'.run = driver.run /\ driver'.next = driver.next
        /\ driver'.status = "admitted"
    BY DriverCompletes, Zenon
  <1> DEFINE k0 == driver.run
             for == runs[k0].for
  <1>3. /\ k0 \in 1 .. Len(runs) /\ runs[k0].status = "claimed"
        /\ runs[k0].intent = "fire"
        /\ \A k \in 1 .. Len(runs) : runs[k].status = "claimed" => k = k0
        /\ \A k \in 1 .. Len(runs) : runs[k].for = for => k = k0
    BY FiredRun, Zenon
  <1>4. /\ schInbox' \in Seq(InputRows) /\ 1 .. Len(schInbox') = 1 .. Len(schInbox) \cup {n}
        /\ n \notin 1 .. Len(schInbox)
        /\ \A l \in 1 .. Len(schInbox) : schInbox'[l] = schInbox[l]
        /\ schInbox'[n].for = for
    BY Zenon DEF InputInserted
  <1>5. \A l \in 1 .. Len(schInbox) : schInbox[l].for # for
    BY Zenon DEF Has
  <1> HIDE DEF for
  <1>6. \A t : Has(t)' <=> Has(t) \/ t = for
    <2>1. ASSUME NEW t, Has(t)' PROVE Has(t) \/ t = for
      <3>1. PICK l \in 1 .. Len(schInbox') : schInbox'[l].for = t
        BY <2>1, Zenon DEF Has
      <3> QED
        BY <1>4, <3>1, Zenon DEF Has
    <2>2. ASSUME NEW t, Has(t) PROVE Has(t)'
      <3>1. PICK l \in 1 .. Len(schInbox) : schInbox[l].for = t
        BY <2>2, Zenon DEF Has
      <3>2. l \in 1 .. Len(schInbox') /\ schInbox'[l].for = t
        BY <1>4, <3>1
      <3> QED
        BY <3>2, Zenon DEF Has
    <2>3. ASSUME NEW t, t = for PROVE Has(t)'
      <3>1. n \in 1 .. Len(schInbox')
        BY <1>4
      <3> QED
        BY <1>4, <2>3, <3>1, Zenon DEF Has
    <2>4. ASSUME NEW t PROVE Has(t)' <=> Has(t) \/ t = for
      <3>1. t = for => Has(t)'
        BY <2>3, Zenon
      <3>2. Has(t)' => Has(t) \/ t = for
        BY <2>1, Zenon
      <3>3. Has(t) => Has(t)'
        BY <2>2, Zenon
      <3> QED
        BY <3>1, <3>2, <3>3, Zenon
    <2> QED
      BY <2>4, Zenon
  <1>7. SchTyped'
    BY <1>0, <1>1, <1>2, <1>4, Zenon DEF SchInv, SchTyped
  <1>8. DueIsOccurrence' /\ OneClaim' /\ SettledIsPast' /\ RunTimes' /\ RunsDiffer'
    BY <1>1, Zenon DEF SchInv, DueIsOccurrence, Occurrence, OneClaim, SettledIsPast,
                       RunTimes, RunsDiffer
  <1>9. PlanIsDue' /\ FiresWhatIsToFire'
    BY <1>2 DEF PlanIsDue, FiresWhatIsToFire
  <1>10. WorksOnClaim'
    BY <1>1, <1>2, Zenon DEF SchInv, WorksOnClaim, Occurrence
  <1>11. OutcomeAgrees'
    BY <1>1, <1>2, <1>6, Zenon DEF OutcomeAgrees, Agrees, for
  <1>12. HistoryAgrees'
    <2>1. ASSUME NEW k \in 1 .. Len(runs) PROVE Agrees(runs[k].status, runs[k].for)'
      <3>1. CASE k = k0
        BY <1>1, <1>3, <3>1 DEF Agrees
      <3>2. CASE runs[k].for # for
        BY <1>0, <1>1, <1>6, <3>2, Zenon DEF SchInv, HistoryAgrees, Agrees
      <3> QED
        BY <1>3, <3>1, <3>2, Zenon
    <2> QED
      BY <1>1, <2>1, Zenon DEF HistoryAgrees, Agrees
  <1>13. SkippedHasNone'
    BY <1>1, <1>3, Zenon DEF SkippedHasNone
  <1>14. InputsKeyed'
    BY <1>4, <1>5, Zenon DEF SchInv, InputsKeyed
  <1>15. InputsHaveRuns'
    BY <1>1, <1>3, <1>4, Zenon DEF SchInv, InputsHaveRuns, for
  <1>16. ASSUME schedule.overlap = "skip_if_running", NEW l \in 1 .. Len(schInbox)
         PROVE  schInbox'[l].state = "done"
    <2>1. schInbox[l].for # runs[k0].for
      BY <1>5, <1>16, Zenon DEF for
    <2>2. schInbox[l].state = "done"
      BY <1>3, <1>16, <2>1, Zenon DEF SchInv, OthersDone
    <2> QED
      BY <1>4, <2>2, Zenon
  <1>17. OneOpen'
    BY <1>1, <1>4, <1>16, Zenon DEF OneOpen
  <1>18. OthersDone'
    BY <1>1, <1>3, <1>4, <1>16, Zenon DEF OthersDone, for
  <1> QED
    BY <1>7, <1>8, <1>9, <1>10, <1>11, <1>12, <1>13, <1>14, <1>15, <1>17, <1>18,
       Zenon DEF SchInv

LEMMA AdmitKeeps ==
  ASSUME SchInv, AdmitScheduled
  PROVE  SchInv'
  <1> DEFINE for == runs[driver.run].for
             known == authority /\ InboxFor(for) /= {}
             fresh == authority /\ ~known /\ Cardinality(PendingInputs) < SchMaximumPending
             status == IF known \/ fresh THEN "admitted" ELSE "failed"
  <1>1. /\ driver.phase = "fire"
        /\ schInbox' = (IF fresh THEN Append(schInbox, [for |-> for, state |-> "pending"])
                                 ELSE schInbox)
        /\ driver' = [driver EXCEPT !.phase = "complete", !.status = status]
        /\ UNCHANGED <<schedule, runs, authority, now>>
    BY Zenon DEF AdmitScheduled
  <1>2. InboxFor(for) /= {} <=> Has(for)
    BY Zenon DEF InboxFor, Has
  <1>3. for \in Nat /\ SchTyped
    BY <1>1, FiredRun, Zenon DEF SchInv
  <1>4. known <=> authority /\ Has(for)
    BY <1>2, Zenon
  <1>5. fresh => authority /\ ~Has(for)
    BY <1>4, Zenon
  <1>6. status = (IF known \/ fresh THEN "admitted" ELSE "failed")
    BY Zenon
  <1> HIDE DEF for, known, fresh, status
  <1>7. CASE fresh
    <2>1. status = "admitted"
      BY <1>6, <1>7, Zenon
    <2>2. schInbox' = Append(schInbox, [for |-> for, state |-> "pending"])
      BY <1>1, <1>7, Zenon
    <2>3. InputInserted(Len(schInbox) + 1, for)
      BY <1>3, <2>2, InputIsInserted, Zenon
    <2> QED
      BY <1>1, <1>5, <1>7, <2>1, <2>3, FreshInputKeeps, Zenon DEF for
  <1>8. CASE ~fresh
    <2>1. schInbox' = schInbox /\ status = (IF known THEN "admitted" ELSE "failed")
      BY <1>1, <1>6, <1>8, Zenon
    <2>2. status \in {"admitted", "failed"} /\ Agrees(status, for)
      BY <1>4, <2>1 DEF Agrees
    <2> QED
      BY <1>1, <2>1, <2>2, NothingAdmittedKeeps, Zenon DEF for
  <1> QED
    BY <1>7, <1>8, Zenon

(***************************************************************************)
(* Completion: the run is settled and the due time moves on.               *)
(***************************************************************************)
RunSettled(k) ==
    /\ runs' \in Seq(RunRows) /\ 1 .. Len(runs') = 1 .. Len(runs)
    /\ \A j \in 1 .. Len(runs) :
          /\ runs'[j].for = runs[j].for /\ runs'[j].intent = runs[j].intent
          /\ runs'[j].expires = runs[j].expires /\ runs'[j].created = runs[j].created
          /\ j # k => runs'[j].status = runs[j].status
    /\ runs'[k].status = driver.status

LEMMA RunIsSettled ==
  ASSUME SchTyped, NEW k \in 1 .. Len(runs),
         driver.status \in {"skipped", "admitted", "failed"},
         runs' = [runs EXCEPT ![k].status = driver.status]
  PROVE  RunSettled(k)
  <1> DEFINE row == [runs[k] EXCEPT !.status = driver.status]
  <1>1. runs \in Seq(RunRows) /\ runs[k] \in RunRows
    BY RunFields, Zenon DEF SchTyped
  <1>2. /\ row \in RunRows /\ row.for = runs[k].for /\ row.intent = runs[k].intent
        /\ row.expires = runs[k].expires /\ row.created = runs[k].created
        /\ row.status = driver.status
    BY <1>1, Zenon DEF RunRows
  <1>3. runs' = [runs EXCEPT ![k] = row]
    BY <1>1
  <1> HIDE DEF row
  <1>4. /\ runs' \in Seq(RunRows) /\ Len(runs') = Len(runs) /\ runs'[k] = row
        /\ \A j \in 1 .. Len(runs) : j # k => runs'[j] = runs[j]
    <2>1. ASSUME NEW p, p = [runs EXCEPT ![k] = row]
          PROVE  /\ p \in Seq(RunRows) /\ Len(p) = Len(runs) /\ p[k] = row
                 /\ \A j \in 1 .. Len(runs) : j # k => p[j] = runs[j]
      <3>1. runs \in Seq(RunRows) /\ row \in RunRows
        BY <1>1, <1>2, Zenon
      <3> QED
        BY <2>1, <3>1, RowChanged, SMT
    <2> QED
      BY <1>3, <2>1, Zenon
  <1> QED
    BY <1>2, <1>4, Zenon DEF RunSettled

ScheduleMovesOn ==
    /\ schedule' \in ScheduleRows /\ schedule'.due = driver.next
    /\ schedule'.updated = now /\ schedule'.overlap = schedule.overlap
    /\ schedule'.status = schedule.status

LEMMA ScheduleHasMovedOn ==
  ASSUME SchTyped, driver \in Working,
         schedule' = [schedule EXCEPT !.due = driver.next,
                                      !.revision = @ + 1, !.updated = now]
  PROVE  ScheduleMovesOn
  <1>1. /\ schedule \in ScheduleRows /\ schedule.revision \in Nat /\ now \in Nat
        /\ driver.next \in Nat
    BY Zenon DEF SchTyped, ScheduleRows, Working
  <1>2. schedule.revision + 1 \in Nat
    BY <1>1
  <1>3. schedule' = [schedule EXCEPT !.due = driver.next,
                       !.revision = schedule.revision + 1, !.updated = now]
    BY Zenon
  <1> QED
    BY <1>1, <1>2, <1>3, Zenon DEF ScheduleRows, ScheduleMovesOn

LEMMA SettlingKeeps ==
  ASSUME SchInv, driver.phase = "complete", runs[driver.run].created <= now,
         schedule.updated <= now, schedule.status = "active",
         RunSettled(driver.run), ScheduleMovesOn, driver' = SchIdle,
         UNCHANGED <<schInbox, authority, now>>
  PROVE  SchInv'
  <1> DEFINE k == driver.run
  <1>1. schInbox' = schInbox /\ authority' = authority /\ now' = now
    BY Zenon
  <1>0. authority' <=> authority
    BY <1>1
  <1>2. /\ k \in 1 .. Len(runs) /\ runs[k].status = "claimed"
        /\ runs[k].for < driver.next /\ schedule.due < driver.next
        /\ Occurrence(driver.next)
    BY Zenon DEF SchInv, WorksOnClaim
  <1>3. driver \in Working /\ driver.next \in Nat
        /\ driver.status \in {"skipped", "admitted", "failed"}
    BY DriverFields, Zenon DEF SchInv, Working
  <1>4. /\ runs' \in Seq(RunRows) /\ 1 .. Len(runs') = 1 .. Len(runs)
        /\ \A j \in 1 .. Len(runs) :
              /\ runs'[j].for = runs[j].for /\ runs'[j].intent = runs[j].intent
              /\ runs'[j].expires = runs[j].expires /\ runs'[j].created = runs[j].created
              /\ j # k => runs'[j].status = runs[j].status
        /\ runs'[k].status = driver.status
    BY Zenon DEF RunSettled
  <1>5. /\ schedule' \in ScheduleRows /\ schedule'.due = driver.next
        /\ schedule'.updated = now /\ schedule'.overlap = schedule.overlap
        /\ schedule'.status = "active"
    BY Zenon DEF ScheduleMovesOn
  <1>6. \A j \in 1 .. Len(runs) :
           runs'[j].status = "claimed" => runs[j].status = "claimed" /\ j # k
    <2>1. driver.status # "claimed"
      BY <1>3
    <2> QED
      BY <1>4, <2>1, Zenon
  <1>7. \A t : Has(t)' <=> Has(t)
    BY <1>1, Zenon DEF Has
  <1>8. Agrees(driver.status, runs[k].for)
    BY Zenon DEF SchInv, OutcomeAgrees
  <1> HIDE DEF k
  <1>9. SchTyped'
    BY <1>0, <1>1, <1>4, <1>5, Zenon DEF SchInv, SchTyped
  <1>10. DueIsOccurrence'
    BY <1>2, <1>5, Zenon DEF DueIsOccurrence, Occurrence
  <1>11. OneClaim'
    <2>1. ASSUME NEW j \in 1 .. Len(runs), NEW l \in 1 .. Len(runs),
                 runs'[j].status = "claimed", runs'[l].status = "claimed"
          PROVE  j = l
      <3>1. runs[j].status = "claimed" /\ runs[l].status = "claimed"
        BY <1>6, <2>1, Zenon
      <3> QED
        BY <3>1, Zenon DEF SchInv, OneClaim
    <2> QED
      BY <1>4, <1>5, <2>1, Zenon DEF OneClaim
  <1>12. RunTimes'
    BY <1>4, Zenon DEF SchInv, RunTimes
  <1>13. RunsDiffer'
    BY <1>4, Zenon DEF SchInv, RunsDiffer
  <1>14. SettledIsPast'
    <2>1. ASSUME NEW j \in 1 .. Len(runs), runs'[j].status # "claimed"
          PROVE  runs[j].for <= now /\ runs[j].for < driver.next
      <3>1. /\ runs[j].for \in Nat /\ runs[j].created \in Nat /\ now \in Nat
            /\ schedule.due \in Nat /\ schedule.updated \in Nat
        BY RunFields, Zenon DEF SchInv, SchTyped, ScheduleRows
      <3>2. CASE j = k
        <4>1. runs[j].for <= runs[j].created
          BY Zenon DEF SchInv, RunTimes
        <4>2. runs[j].created <= now
          BY <3>2, Zenon DEF k
        <4>3. runs[j].for < driver.next
          BY <1>2, <3>2, Zenon
        <4> QED
          BY <3>1, <4>1, <4>2, <4>3
      <3>3. CASE j # k
        <4>1. runs[j].status # "claimed"
          BY <1>4, <2>1, <3>3, Zenon
        <4>2. runs[j].for <= schedule.updated /\ runs[j].for < schedule.due
          BY <4>1, Zenon DEF SchInv, SettledIsPast
        <4>3. \A a, b, c \in Nat : a <= b /\ b <= c => a <= c
          OBVIOUS
        <4>4. \A a, b, c \in Nat : a < b /\ b < c => a < c
          OBVIOUS
        <4> QED
          BY <1>2, <1>3, <3>1, <4>2, <4>3, <4>4, Zenon
      <3> QED
        BY <3>2, <3>3, Zenon
    <2> QED
      BY <1>4, <1>5, <2>1, Zenon DEF SettledIsPast
  <1>15. PlanIsDue' /\ WorksOnClaim' /\ FiresWhatIsToFire' /\ OutcomeAgrees'
    BY DEF SchIdle, PlanIsDue, WorksOnClaim, FiresWhatIsToFire, OutcomeAgrees
  <1>16. HistoryAgrees'
    <2>1. ASSUME NEW j \in 1 .. Len(runs) PROVE Agrees(runs'[j].status, runs[j].for)
      <3>1. CASE j = k
        BY <1>4, <1>8, <3>1, Zenon
      <3>2. CASE j # k
        BY <1>4, <3>2, Zenon DEF SchInv, HistoryAgrees
      <3> QED
        BY <3>1, <3>2, Zenon
    <2> QED
      BY <1>0, <1>4, <1>7, <2>1, Zenon DEF HistoryAgrees, Agrees
  <1>17. SkippedHasNone'
    BY <1>4, <1>6, <1>7, Zenon DEF SchInv, SkippedHasNone
  <1>18. InputsKeyed'
    BY <1>1, Zenon DEF SchInv, InputsKeyed
  <1>19. InputsHaveRuns'
    <2>1. ASSUME NEW l \in 1 .. Len(schInbox)
          PROVE  \E j \in 1 .. Len(runs) : runs'[j].for = schInbox[l].for
      <3>1. PICK j \in 1 .. Len(runs) : runs[j].for = schInbox[l].for
        BY Zenon DEF SchInv, InputsHaveRuns
      <3> QED
        BY <1>4, <3>1, Zenon
    <2> QED
      BY <1>1, <1>4, <2>1, Zenon DEF InputsHaveRuns
  <1>20. OneOpen'
    BY <1>1, <1>5, Zenon DEF SchInv, OneOpen
  <1>21. OthersDone'
    <2>1. ASSUME schedule.overlap = "skip_if_running", authority,
                 NEW j \in 1 .. Len(runs), NEW l \in 1 .. Len(schInbox),
                 runs'[j].status = "claimed", runs'[j].intent = "fire",
                 schInbox[l].for # runs'[j].for
          PROVE  schInbox[l].state = "done"
      <3>1. runs[j].status = "claimed" /\ runs[j].intent = "fire"
        BY <1>4, <1>6, <2>1, Zenon
      <3>2. schInbox[l].for # runs[j].for
        BY <1>4, <2>1, Zenon
      <3> QED
        BY <2>1, <3>1, <3>2, Zenon DEF SchInv, OthersDone
    <2> QED
      BY <1>0, <1>1, <1>4, <1>5, <2>1, SMT DEF OthersDone
  <1> QED
    BY <1>9, <1>10, <1>11, <1>12, <1>13, <1>14, <1>15, <1>16, <1>17, <1>18,
       <1>19, <1>20, <1>21, Zenon DEF SchInv

LEMMA CompleteKeeps ==
  ASSUME SchInv, CompleteRun
  PROVE  SchInv'
  <1> DEFINE k == driver.run
             accepted == /\ runs[k].created <= now /\ schedule.due <= now
                         /\ schedule.status = "active" /\ schedule.updated <= now
  <1>1. /\ driver.phase = "complete" /\ driver' = SchIdle
        /\ UNCHANGED <<schInbox, authority, now>>
        /\ IF accepted
           THEN /\ runs' = [runs EXCEPT ![k].status = driver.status]
                /\ schedule' = [schedule EXCEPT !.due = driver.next,
                                               !.revision = @ + 1, !.updated = now]
           ELSE UNCHANGED <<runs, schedule>>
    BY Zenon DEF CompleteRun
  <1>2. SchTyped /\ driver \in Working /\ k \in 1 .. Len(runs)
        /\ driver.status \in {"skipped", "admitted", "failed"}
    BY <1>1, DriverFields, Zenon DEF SchInv, WorksOnClaim, Working
  <1>3. CASE accepted
    <2>1. RunSettled(k)
      BY <1>1, <1>2, <1>3, RunIsSettled, Zenon
    <2>2. ScheduleMovesOn
      BY <1>1, <1>2, <1>3, ScheduleHasMovedOn, Zenon
    <2> QED
      BY <1>1, <1>3, <2>1, <2>2, SettlingKeeps, Zenon
  <1>4. CASE ~accepted
    BY <1>1, <1>4, DriverRests, Zenon
  <1> QED
    BY <1>3, <1>4, Zenon

-----------------------------------------------------------------------------
LEMMA SchInvInitially == SchInit => SchInv
  <1> SUFFICES ASSUME SchInit PROVE SchInv
    OBVIOUS
  <1>1. /\ runs = <<>> /\ schInbox = <<>> /\ authority = TRUE /\ driver = SchIdle
        /\ now = 0
    BY Zenon DEF SchInit
  <1>2. PICK missed \in {"fire", "skip"}, overlap \in {"allow", "skip_if_running"} :
           schedule = [status |-> "active", due |-> NextOccurrence(0), revision |-> 0,
                       updated |-> 0, missed |-> missed, overlap |-> overlap]
    BY Zenon DEF SchInit
  <1>3. NextOccurrence(0) \in Nat /\ Occurrence(NextOccurrence(0)) /\ 0 \in Nat
    BY Occurrences, SMT
  <1>4. schedule \in ScheduleRows /\ schedule.due = NextOccurrence(0)
    BY <1>2, <1>3, Zenon DEF ScheduleRows
  <1>5. 1 .. Len(runs) = {} /\ 1 .. Len(schInbox) = {}
    BY <1>1
  <1>6. runs \in Seq(RunRows) /\ schInbox \in Seq(InputRows)
    BY <1>1
  <1>7. SchTyped
    BY <1>1, <1>3, <1>4, <1>6, Zenon DEF SchTyped
  <1>8. DueIsOccurrence
    BY <1>3, <1>4, Zenon DEF DueIsOccurrence
  <1>9. PlanIsDue /\ WorksOnClaim /\ FiresWhatIsToFire /\ OutcomeAgrees
    BY <1>1 DEF SchIdle, PlanIsDue, WorksOnClaim, FiresWhatIsToFire, OutcomeAgrees
  <1>10. OneClaim /\ RunTimes /\ RunsDiffer /\ SettledIsPast
    BY <1>5, Zenon DEF OneClaim, RunTimes, RunsDiffer, SettledIsPast
  <1>11. HistoryAgrees /\ SkippedHasNone /\ InputsKeyed /\ InputsHaveRuns
    BY <1>5, Zenon DEF HistoryAgrees, SkippedHasNone, InputsKeyed, InputsHaveRuns
  <1>12. OneOpen /\ OthersDone
    BY <1>5, Zenon DEF OneOpen, OthersDone
  <1> QED
    BY <1>7, <1>8, <1>9, <1>10, <1>11, <1>12, Zenon DEF SchInv

LEMMA SchInvKept == SchInv /\ [SchNext]_schVars => SchInv'
  <1> SUFFICES ASSUME SchInv, [SchNext]_schVars PROVE SchInv'
    OBVIOUS
  <1>0. now \in Nat /\ SchTyped
    BY Zenon DEF SchInv, SchTyped
  <1>1. CASE Tick
    <2>1. now' = now + 1 /\ UNCHANGED <<schedule, runs, schInbox, authority, driver>>
      BY <1>1, Zenon DEF Tick
    <2>2. now' \in Nat
      BY <1>0, <2>1
    <2> QED
      BY <2>1, <2>2, ClockMoves, Zenon
  <1>2. CASE ClockStepsBack
    <2>1. /\ now' = now - Period /\ now >= Period
          /\ UNCHANGED <<schedule, runs, schInbox, authority, driver>>
      BY <1>2, Zenon DEF ClockStepsBack
    <2>2. Period \in Nat
      BY DEF ScheduleAssumption
    <2>3. now' \in Nat
      BY <1>0, <2>1, <2>2
    <2> QED
      BY <2>1, <2>3, ClockMoves, Zenon
  <1>3. CASE PromoteScheduled
    <2>1. PICK k \in 1 .. Len(schInbox) :
             /\ schInbox[k].state = "pending"
             /\ schInbox' = [schInbox EXCEPT ![k].state = "active"]
      BY <1>3, Zenon DEF PromoteScheduled
    <2>2. UNCHANGED <<schedule, runs, authority, driver, now>>
      BY <1>3, Zenon DEF PromoteScheduled
    <2>3. schInbox[k].state # "done"
      BY <2>1
    <2> QED
      BY <2>1, <2>2, <2>3, InputMoves, Zenon
  <1>4. CASE FinishTurn
    <2>1. PICK k \in 1 .. Len(schInbox) :
             /\ schInbox[k].state = "active"
             /\ schInbox' = [schInbox EXCEPT ![k].state = "done"]
      BY <1>4, Zenon DEF FinishTurn
    <2>2. UNCHANGED <<schedule, runs, authority, driver, now>>
      BY <1>4, Zenon DEF FinishTurn
    <2>3. schInbox[k].state # "done"
      BY <2>1
    <2> QED
      BY <2>1, <2>2, <2>3, InputMoves, Zenon
  <1>5. CASE RevokeBinding
    <2>1. authority' = FALSE /\ UNCHANGED <<schedule, runs, schInbox, driver, now>>
      BY <1>5, Zenon DEF RevokeBinding
    <2> QED
      BY <2>1, RevokeKeeps, Zenon
  <1>6. CASE Pause \/ Resume \/ Cancel
    BY <1>6, OwnerKeeps, Zenon
  <1>7. CASE ReadDue
    BY <1>7, ReadDueKeeps, Zenon
  <1>8. CASE ClaimRun
    BY <1>8, ClaimRunKeeps, Zenon
  <1>9. CASE AdmitScheduled
    BY <1>9, AdmitKeeps, Zenon
  <1>10. CASE AdmissionUnavailable \/ SchCrash
    <2>1. driver' = SchIdle /\ UNCHANGED <<schedule, runs, schInbox, authority, now>>
      BY <1>10, Zenon DEF AdmissionUnavailable, SchCrash
    <2> QED
      BY <2>1, DriverRests, Zenon
  <1>11. CASE CompleteRun
    BY <1>11, CompleteKeeps, Zenon
  <1>12. CASE UNCHANGED schVars
    <2>1. now' \in Nat /\ UNCHANGED <<schedule, runs, schInbox, authority, driver>>
      BY <1>0, <1>12, Zenon DEF schVars
    <2> QED
      BY <2>1, ClockMoves, Zenon
  <1> QED
    BY <1>1, <1>2, <1>3, <1>4, <1>5, <1>6, <1>7, <1>8, <1>9, <1>10, <1>11, <1>12,
       Zenon DEF SchNext

(* A set without two members has at most one.                              *)
LEMMA AtMostOne ==
  ASSUME NEW S, \A x, y \in S : x = y
  PROVE  Cardinality(S) \in {0, 1} /\ (S # {} => Cardinality(S) = 1)
  <1>1. CASE S = {}
    BY <1>1, CardNone
  <1>2. CASE S # {}
    <2>1. PICK x \in S : TRUE
      BY <1>2, Zenon
    <2>2. S = {x}
      BY <2>1, Zenon
    <2>3. Cardinality({x}) = 1
      BY CardOne, Zenon
    <2> QED
      BY <2>2, <2>3
  <1> QED
    BY <1>1, <1>2, Zenon

LEMMA SchInvIsSafe == SchInv => ScheduleSafety
  <1> SUFFICES ASSUME SchInv PROVE ScheduleSafety
    OBVIOUS
  <1>1. OccurrenceOnce
    <2>1. ASSUME NEW l \in 1 .. Len(schInbox)
          PROVE  Cardinality(InboxFor(schInbox[l].for)) = 1
      <3>1. \A m, o \in InboxFor(schInbox[l].for) : m = o
        BY Zenon DEF InboxFor, SchInv, InputsKeyed
      <3>2. InboxFor(schInbox[l].for) # {}
        BY Zenon DEF InboxFor
      <3> QED
        BY <3>1, <3>2, AtMostOne, Zenon
    <2>2. \A t : InboxFor(t) # {} <=> Has(t)
      BY Zenon DEF InboxFor, Has
    <2>3. \A k \in 1 .. Len(runs) :
             /\ runs[k].status = "admitted" => InboxFor(runs[k].for) /= {}
             /\ runs[k].status = "skipped" => InboxFor(runs[k].for) = {}
             /\ runs[k].status = "failed" => InboxFor(runs[k].for) = {} \/ ~authority
      BY <2>2, Zenon DEF SchInv, HistoryAgrees, Agrees
    <2> QED
      BY <2>1, <2>3, Zenon DEF SchInv, InputsHaveRuns, OccurrenceOnce
  <1>2. CursorPastHistory
    <2>1. \A j, k \in Claimed : j = k
      BY Zenon DEF SchInv, OneClaim, Claimed
    <2>2. Cardinality(Claimed) \in {0, 1}
      BY <2>1, AtMostOne, Zenon
    <2>3. Cardinality(Claimed) <= 1
      BY <2>2
    <2>4. ASSUME schedule.status = "active"
          PROVE  \A k \in (1 .. Len(runs)) \ Claimed : runs[k].for < schedule.due
      BY <2>4, Zenon DEF SchInv, SettledIsPast, Claimed
    <2> QED
      BY <2>3, <2>4, Zenon DEF CursorPastHistory
  <1>3. NoOverlap
    <2> DEFINE Open == {l \in 1 .. Len(schInbox) : schInbox[l].state /= "done"}
    <2>1. SUFFICES ASSUME schedule.overlap = "skip_if_running"
                   PROVE  Cardinality(Open) <= 1
      BY Zenon DEF NoOverlap
    <2>2. \A l, m \in Open : l = m
      BY <2>1, Zenon DEF SchInv, OneOpen
    <2> HIDE DEF Open
    <2>3. Cardinality(Open) \in {0, 1}
      BY <2>2, AtMostOne, Zenon
    <2> QED
      BY <2>3
  <1> QED
    BY <1>1, <1>2, <1>3, Zenon DEF ScheduleSafety

(* Every schedule keeps its promises: an occurrence is admitted at most    *)
(* once and the history agrees with the inbox, the due time is past all    *)
(* that is settled, there is at most one claim, and prompts do not overlap *)
(* where the policy forbids it.  For every period, claim lifetime and grace,*)
(* any number of crashes and steps of the clock.                           *)
THEOREM ScheduleSafe == SchSpec => []ScheduleSafety
  <1>1. SchInit => SchInv
    BY SchInvInitially
  <1>2. SchInv /\ [SchNext]_schVars => SchInv'
    BY SchInvKept
  <1>3. SchInv => ScheduleSafety
    BY SchInvIsSafe
  <1> QED
    BY <1>1, <1>2, <1>3, PTL DEF SchSpec

=============================================================================
