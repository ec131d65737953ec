------------------------- MODULE SessionInboxProofs -------------------------
(***************************************************************************)
(* Proofs about SessionInbox: the inbox adds tables to the work graph and  *)
(* changes none of its behaviour, accepted inputs keep the answer their    *)
(* sender got, they are served in order and once, and an interrupt reaches *)
(* the turn it was meant for.  They hold for every number of sessions,     *)
(* runs, workers and deliveries.  The first half says what the             *)
(* transactions that add, promote, steer or mark a row do to the rows and  *)
(* to the turns they name.                                                 *)
(***************************************************************************)
EXTENDS SessionInbox, WorkGraphProofs

USE InboxAssumption

LEMMA GraphSorts ==
    /\ NoRun \notin Runs
    /\ Delegates \subseteq Runs /\ Canonical \subseteq Runs
    /\ \A r \in Runs : SessionOf[r] \in Sessions
  BY WorkGraphAssumption, Zenon DEF Canonical

-----------------------------------------------------------------------------
(***************************************************************************)
(* What a step that starts no turn does to the graph: no turn appears or   *)
(* becomes active, no run disappears, no cancellation is taken back.       *)
(***************************************************************************)
NoTurnStarts ==
    \A r \in Runs :
        /\ turn'[r] = "absent" <=> turn[r] = "absent"
        /\ turn'[r] = "active" => turn[r] = "active"
        /\ run'[r] = "absent" => run[r] = "absent"
        /\ cancel[r] => cancel'[r]

LEMMA RunStepStartsNone ==
    ASSUME TypeOK, NEW w \in Workers, NEW f \in held[w], RunStep(w, f)
    PROVE  NoTurnStarts
  <1> f.run \in Runs /\ f.token \in Nat
    BY DEF TypeOK, Fence
  <1> USE DEF NoTurnStarts, TypeOK
  <1>1. CASE Heartbeat(w, f) \/ GiveUp(w, f)
    BY <1>1, Zenon DEF Heartbeat, GiveUp, rowVars
  <1>2. CASE RequeueProviderRetry(w, f)
    BY <1>2, Zenon DEF RequeueProviderRetry, GiveBack
  <1>3. ASSUME NEW st \in Terminal, CompleteCanonicalRun(w, f, st)
        PROVE  NoTurnStarts
    BY <1>3, Zenon DEF CompleteCanonicalRun, GiveBack, TurnOutcome, Terminal
  <1>4. ASSUME NEW st \in Terminal, CompleteDelegatedRun(w, f, st)
        PROVE  NoTurnStarts
    BY <1>4, Zenon DEF CompleteDelegatedRun, TurnOutcome, Terminal
  <1>5. CASE RecordAgentEffectProposal(w, f) \/ ParkAgentEffectRun(w, f)
    BY <1>5, Zenon DEF RecordAgentEffectProposal, ParkAgentEffectRun, GiveBack
  <1> HIDE DEF NoTurnStarts, TypeOK
  <1> QED
    BY <1>1, <1>2, <1>3, <1>4, <1>5, Zenon DEF RunStep

LEMMA GraphStepStartsNone ==
    ASSUME TypeOK, GraphStep
    PROVE  NoTurnStarts
  <1> USE DEF NoTurnStarts, TypeOK
  <1>1. ASSUME NEW w \in Workers, NEW r \in Runs, ClaimNext(w, r)
        PROVE  NoTurnStarts
    BY <1>1, Zenon DEF ClaimNext
  <1>2. ASSUME NEW r \in Runs, ResumeAgentEffectRun(r)
        PROVE  NoTurnStarts
    BY <1>2, Zenon DEF ResumeAgentEffectRun
  <1>3. ASSUME NEW r \in Runs, RequestTaskCancellation(r)
        PROVE  NoTurnStarts
    BY <1>3, Zenon DEF RequestTaskCancellation
  <1>4. ASSUME NEW r \in Runs, PauseIdleTask(r) \/ ResumeTask(r)
        PROVE  NoTurnStarts
    BY <1>4, Zenon DEF PauseIdleTask, ResumeTask
  <1>5. ASSUME NEW r \in Runs, NEW parked, PauseRunningTask(r, parked)
        PROVE  NoTurnStarts
    BY <1>5, Zenon DEF PauseRunningTask, RecoverLeases
  <1>6. ASSUME NEW S, NEW parked, RecoveryStep(S, parked)
        PROVE  NoTurnStarts
    BY <1>6, Zenon DEF RecoveryStep, RecoverExpiredLeases, RecoverStartup,
                RecoverLeases
  <1>7. CASE BecomeReady \/ Crash \/ Tick
    BY <1>7, Zenon DEF BecomeReady, Crash, Tick, rowVars
  <1> HIDE DEF NoTurnStarts, TypeOK
  <1> QED
    BY <1>1, <1>2, <1>3, <1>4, <1>5, <1>6, <1>7, Zenon DEF GraphStep, OwnerStep

LEMMA InterruptStartsNone ==
    ASSUME TypeOK, NEW s \in Sessions,
           InterruptBeforeClaim(s) \/ InterruptRunning(s)
    PROVE  NoTurnStarts
  BY DEF NoTurnStarts, TypeOK, InterruptBeforeClaim, InterruptRunning

LEMMA StutterStartsNone ==
    ASSUME TypeOK, UNCHANGED vars
    PROVE  NoTurnStarts
  BY Zenon DEF NoTurnStarts, TypeOK, vars, rowVars

-----------------------------------------------------------------------------
(***************************************************************************)
(* The inductive invariant.  Its conjuncts link the three ways a turn and  *)
(* its inputs are recorded: the row's turn, the turn's source and the      *)
(* inputs attached to the run.                                             *)
(***************************************************************************)
InboxType ==
    /\ inbox \in [Sessions -> Seq(Entry)]
    /\ source \in [Runs -> Nat]
    /\ runInput \in [Runs -> SUBSET Nat]
    /\ bound \in [Sessions -> BOOLEAN]
    /\ answered \subseteq Answers
    /\ offered \in [Sessions -> SUBSET Nat]

\* Only a delegation's row names a delegated run, and it does so at once.
RowsNameTheirKind ==
    \A s \in Sessions : \A n \in DOMAIN inbox[s] :
        IF inbox[s][n].key = DelegationKey
        THEN inbox[s][n].turn \in Delegates
        ELSE inbox[s][n].turn \in Canonical \cup {NoRun}

KeysUnique ==
    \A s \in Sessions : \A m, n \in DOMAIN inbox[s] :
        inbox[s][m].key = inbox[s][n].key /\ inbox[s][m].key # DelegationKey
            => m = n

\* A run without a turn has no inputs, and inputs are rows of its session.
InputsAreRows ==
    \A r \in Runs :
        /\ run[r] = "absent" => turn[r] = "absent"
        /\ turn[r] = "absent" => source[r] = 0 /\ runInput[r] = {}
        /\ source[r] # 0 => source[r] \in DOMAIN inbox[SessionOf[r]]
        /\ runInput[r] \subseteq DOMAIN inbox[SessionOf[r]]

\* Only the head of the inbox has asked for an interrupt.
AskedIsHead ==
    \A s \in Sessions : \A n \in Pending(s) :
        inbox[s][n].asked => PendingHead(s, n)

\* Every answer names a row with the input that was sent.
AnswersAreRows ==
    \A a \in answered :
        /\ a.sequence \in DOMAIN inbox[a.session]
        /\ inbox[a.session][a.sequence].key = a.key
        /\ inbox[a.session][a.sequence].mode = a.mode
        /\ inbox[a.session][a.sequence].content = a.content

RowsInv ==
    /\ RowsNameTheirKind
    /\ KeysUnique
    /\ InputsAreRows
    /\ AskedIsHead
    /\ ServedInOrder
    /\ EachInputOnce
    /\ InterruptHitsTarget

-----------------------------------------------------------------------------
(* The two ways the inbox changes: a row is added, a row is marked. *)

LEMMA RowNumbers ==
    ASSUME InboxType, NEW s \in Sessions
    PROVE  /\ Len(inbox[s]) \in Nat
           /\ DOMAIN inbox[s] = 1..Len(inbox[s])
           /\ \A n \in DOMAIN inbox[s] : n \in Nat /\ n # 0 /\ inbox[s][n] \in Entry
  <1>1. inbox[s] \in Seq(Entry)
    BY Zenon DEF InboxType
  <1>2. Len(inbox[s]) \in Nat /\ DOMAIN inbox[s] = 1..Len(inbox[s])
    BY <1>1
  <1>3. \A n \in 1..Len(inbox[s]) : inbox[s][n] \in Entry
    BY <1>1
  <1> QED
    BY <1>2, <1>3

LEMMA RowAdded ==
    ASSUME InboxType, NEW s \in Sessions, NEW e \in Entry,
           inbox' = [inbox EXCEPT ![s] = Append(@, e)]
    PROVE  /\ inbox' \in [Sessions -> Seq(Entry)]
           /\ \A t \in Sessions : t # s => inbox'[t] = inbox[t]
           /\ DOMAIN inbox'[s] = DOMAIN inbox[s] \cup {Len(inbox[s]) + 1}
           /\ \A k \in DOMAIN inbox[s] : inbox'[s][k] = inbox[s][k]
           /\ inbox'[s][Len(inbox[s]) + 1] = e
  <1>1. inbox[s] \in Seq(Entry) /\ inbox'[s] = Append(inbox[s], e)
    BY Zenon DEF InboxType
  <1>2. /\ Len(inbox[s]) \in Nat
        /\ DOMAIN inbox[s] = 1..Len(inbox[s])
    BY RowNumbers, Zenon
  <1>3. /\ inbox'[s] \in Seq(Entry)
        /\ Len(inbox'[s]) = Len(inbox[s]) + 1
        /\ \A k \in 1..Len(inbox[s]) : inbox'[s][k] = inbox[s][k]
        /\ inbox'[s][Len(inbox[s]) + 1] = e
    BY <1>1
  <1>4. DOMAIN inbox'[s] = 1..(Len(inbox[s]) + 1)
    BY <1>3
  <1>5. inbox' \in [Sessions -> Seq(Entry)]
    BY <1>3, Zenon DEF InboxType
  <1>6. \A t \in Sessions : t # s => inbox'[t] = inbox[t]
    BY Zenon DEF InboxType
  <1> QED
    BY <1>2, <1>3, <1>4, <1>5, <1>6

LEMMA AddedRows ==
    ASSUME InboxType, NEW s \in Sessions, NEW e \in Entry,
           inbox' = [inbox EXCEPT ![s] = Append(@, e)]
    PROVE  /\ \A t \in Sessions : \A j \in DOMAIN inbox[t] :
                j \in DOMAIN inbox'[t] /\ inbox'[t][j] = inbox[t][j]
           /\ \A t \in Sessions : \A j \in DOMAIN inbox'[t] :
                \/ j \in DOMAIN inbox[t]
                \/ t = s /\ j = Len(inbox[s]) + 1
           /\ \A j \in DOMAIN inbox[s] : j \in Nat /\ j < Len(inbox[s]) + 1
           /\ Len(inbox[s]) + 1 \in Nat \ {0}
           /\ Len(inbox[s]) + 1 \in DOMAIN inbox'[s]
           /\ inbox'[s][Len(inbox[s]) + 1] = e
  <1>1. /\ \A t \in Sessions : t # s => inbox'[t] = inbox[t]
        /\ DOMAIN inbox'[s] = DOMAIN inbox[s] \cup {Len(inbox[s]) + 1}
        /\ \A k \in DOMAIN inbox[s] : inbox'[s][k] = inbox[s][k]
        /\ inbox'[s][Len(inbox[s]) + 1] = e
    BY RowAdded, Zenon
  <1>2. Len(inbox[s]) \in Nat /\ DOMAIN inbox[s] = 1..Len(inbox[s])
    BY RowNumbers, Zenon
  <1> QED
    BY <1>1, <1>2

LEMMA RowMarked ==
    ASSUME InboxType, NEW s \in Sessions, NEW n \in DOMAIN inbox[s],
           NEW e \in Entry, inbox' = [inbox EXCEPT ![s][n] = e]
    PROVE  /\ inbox' \in [Sessions -> Seq(Entry)]
           /\ \A t \in Sessions : DOMAIN inbox'[t] = DOMAIN inbox[t]
           /\ \A t \in Sessions : \A k \in DOMAIN inbox[t] :
                t # s \/ k # n => inbox'[t][k] = inbox[t][k]
           /\ inbox'[s][n] = e
  <1>1. inbox[s] \in Seq(Entry) /\ inbox'[s] = [inbox[s] EXCEPT ![n] = e]
    BY Zenon DEF InboxType
  <1>2. n \in 1..Len(inbox[s]) /\ DOMAIN inbox[s] = 1..Len(inbox[s])
    BY RowNumbers, Zenon
  <1>3. /\ inbox'[s] \in Seq(Entry)
        /\ Len(inbox'[s]) = Len(inbox[s])
        /\ \A k \in 1..Len(inbox[s]) :
                inbox'[s][k] = IF k = n THEN e ELSE inbox[s][k]
    BY <1>1, <1>2
  <1>4. DOMAIN inbox'[s] = 1..Len(inbox[s])
    BY <1>3
  <1>5. inbox' \in [Sessions -> Seq(Entry)]
    BY <1>3, Zenon DEF InboxType
  <1>6. \A t \in Sessions : t # s => inbox'[t] = inbox[t]
    BY Zenon DEF InboxType
  <1> QED
    BY <1>2, <1>3, <1>4, <1>5, <1>6, Zenon

-----------------------------------------------------------------------------
(* Steps that leave the rows alone. *)

LEMMA RowsKept ==
    ASSUME InboxType, RowsInv, ActiveTurnAgree, ActiveTurnAgree', NoTurnStarts,
           UNCHANGED <<inbox, source, runInput>>
    PROVE  RowsInv' /\ KeepsRows
  <1>0. \A s \in Sessions : \A n \in DOMAIN inbox[s] :
            inbox[s][n].turn \in Runs \cup {NoRun}
    BY RowNumbers, Zenon DEF Entry
  <1>1. RowsNameTheirKind' /\ KeysUnique'
    BY Zenon DEF RowsInv, RowsNameTheirKind, KeysUnique
  <1>2. InputsAreRows'
    BY Zenon DEF RowsInv, InputsAreRows, NoTurnStarts
  <1>3. AskedIsHead'
    BY Zenon DEF RowsInv, AskedIsHead, Pending, PendingHead
  <1>4. ServedInOrder'
    BY <1>0 DEF RowsInv, ServedInOrder, NoTurnStarts
  <1>5. EachInputOnce'
    BY DEF RowsInv, EachInputOnce, NoTurnStarts
  <1>6. InterruptHitsTarget'
    <2> SUFFICES ASSUME NEW s \in Sessions, NEW n \in Pending(s),
                        inbox[s][n].asked, active'[s] # NoRun
                 PROVE  cancel'[active'[s]]
      BY Zenon DEF InterruptHitsTarget, Pending
    <2>1. active'[s] \in Canonical /\ SessionOf[active'[s]] = s
      BY Zenon DEF ActiveTurnAgree
    <2>2. active'[s] \in Runs
      BY <2>1, Zenon DEF Canonical
    <2>3. turn'[active'[s]] = "active"
      BY <2>1, Zenon DEF ActiveTurnAgree
    <2>4. turn[active'[s]] = "active"
      BY <2>2, <2>3, Zenon DEF NoTurnStarts
    <2>5. active[s] = active'[s]
      BY <2>1, <2>4 DEF ActiveTurnAgree
    <2>6. cancel[active[s]]
      BY <2>2, <2>5, Zenon DEF RowsInv, InterruptHitsTarget
    <2> QED
      BY <2>2, <2>5, <2>6, Zenon DEF NoTurnStarts
  <1>7. KeepsRows
    BY Zenon DEF KeepsRows, SameInput
  <1> QED
    BY <1>1, <1>2, <1>3, <1>4, <1>5, <1>6, <1>7, Zenon DEF RowsInv

-----------------------------------------------------------------------------
(* Steps that add a row. *)

\* A row that names a run names one that has a turn.
LEMMA NamedHasTurn ==
    ASSUME InboxType, RowsInv, NEW s \in Sessions, NEW n \in DOMAIN inbox[s],
           inbox[s][n].turn # NoRun
    PROVE  /\ inbox[s][n].turn \in Runs
           /\ SessionOf[inbox[s][n].turn] = s
           /\ turn[inbox[s][n].turn] # "absent"
           /\ run[inbox[s][n].turn] # "absent"
  <1>1. inbox[s][n].turn \in Runs /\ n # 0
    BY RowNumbers, Zenon DEF Entry
  <1>2. /\ SessionOf[inbox[s][n].turn] = s
        /\ source[inbox[s][n].turn] = n \/ n \in runInput[inbox[s][n].turn]
    BY DEF RowsInv, EachInputOnce
  <1> QED
    BY <1>1, <1>2, Zenon DEF RowsInv, InputsAreRows

LEMMA AdmitKeepsRows ==
    ASSUME InboxType, RowsInv, NEW s \in Sessions, NEW key \in Keys,
           NEW mode \in Modes, NEW content \in Contents,
           AdmitInput(s, key, mode, content)
    PROVE  inbox' \in [Sessions -> Seq(Entry)] /\ RowsInv' /\ KeepsRows
  <1> DEFINE e == [key |-> key, mode |-> mode, content |-> content,
                   asked |-> FALSE, turn |-> NoRun]
             k == Len(inbox[s]) + 1
  <1>1. e \in Entry /\ inbox' = [inbox EXCEPT ![s] = Append(@, e)]
    BY Zenon DEF Entry, AdmitInput
  <1>2. e.key = key /\ e.key # DelegationKey /\ e.turn = NoRun /\ ~ e.asked
    BY Zenon
  <1>3. UNCHANGED <<run, turn, cancel, active, source, runInput>>
    BY Zenon DEF AdmitInput, vars, rowVars
  <1>4. \A n \in DOMAIN inbox[s] : inbox[s][n].key # e.key
    BY Zenon DEF AdmitInput
  <1> HIDE DEF e
  <1>5. inbox' \in [Sessions -> Seq(Entry)]
    BY <1>1, RowAdded, Zenon
  <1>6. /\ \A t \in Sessions : \A j \in DOMAIN inbox[t] :
                j \in DOMAIN inbox'[t] /\ inbox'[t][j] = inbox[t][j]
        /\ \A t \in Sessions : \A j \in DOMAIN inbox'[t] :
                j \in DOMAIN inbox[t] \/ (t = s /\ j = k)
        /\ \A j \in DOMAIN inbox[s] : j \in Nat /\ j < k
        /\ k \in Nat \ {0}
        /\ inbox'[s][k] = e
    BY <1>1, AddedRows, Zenon
  <1> HIDE DEF k
  <1>7. RowsNameTheirKind' /\ KeysUnique'
    BY <1>2, <1>4, <1>6 DEF RowsInv, RowsNameTheirKind, KeysUnique
  <1>8. InputsAreRows'
    BY <1>3, <1>6, GraphSorts, Zenon DEF RowsInv, InputsAreRows
  <1>9. AskedIsHead'
    BY <1>2, <1>6 DEF RowsInv, AskedIsHead, Pending, PendingHead
  <1>10. ServedInOrder'
    BY <1>2, <1>3, <1>6 DEF RowsInv, ServedInOrder
  <1>11. EachInputOnce'
    <2>1. \A x \in Runs : SessionOf[x] = s => source[x] # k /\ k \notin runInput[x]
      BY <1>6 DEF RowsInv, InputsAreRows
    <2>2. ASSUME NEW t \in Sessions, NEW j \in DOMAIN inbox'[t]
          PROVE  LET r == inbox'[t][j].turn
                 IN  IF r = NoRun
                     THEN \A x \in Runs : SessionOf[x] = t =>
                            source'[x] # j /\ j \notin runInput'[x]
                     ELSE SessionOf[r] = t /\ (source'[r] = j <=> j \notin runInput'[r])
      <3>1. CASE j \in DOMAIN inbox[t]
        <4>1. inbox'[t][j] = inbox[t][j]
          BY <1>6, <3>1, Zenon
        <4> QED
          BY <1>3, <3>1, <4>1 DEF RowsInv, EachInputOnce
      <3>2. CASE t = s /\ j = k
        BY <1>2, <1>3, <1>6, <2>1, <3>2, Zenon
      <3> QED
        BY <1>6, <3>1, <3>2, Zenon
    <2>3. ASSUME NEW r \in Runs, turn'[r] # "absent"
          PROVE  /\ source'[r] \in DOMAIN inbox'[SessionOf[r]]
                 /\ inbox'[SessionOf[r]][source'[r]].turn = r
      <3>1. /\ source[r] \in DOMAIN inbox[SessionOf[r]]
            /\ inbox[SessionOf[r]][source[r]].turn = r
        BY <1>3, <2>3, Zenon DEF RowsInv, EachInputOnce
      <3> QED
        BY <1>3, <1>6, <3>1, GraphSorts, Zenon
    <2> QED
      BY <2>2, <2>3, Zenon DEF EachInputOnce
  <1>12. InterruptHitsTarget'
    BY <1>2, <1>3, <1>6 DEF RowsInv, InterruptHitsTarget, Pending
  <1>13. KeepsRows
    BY <1>3, <1>6, Zenon DEF KeepsRows, SameInput
  <1> QED
    BY <1>5, <1>7, <1>8, <1>9, <1>10, <1>11, <1>12, <1>13, Zenon DEF RowsInv

LEMMA LaunchKeepsRows ==
    ASSUME TypeOK, InboxType, RowsInv, NEW w \in Workers, NEW f \in held[w],
           NEW c \in Delegates, LaunchChild(w, f, c)
    PROVE  inbox' \in [Sessions -> Seq(Entry)] /\ RowsInv' /\ KeepsRows
  <1> DEFINE s == SessionOf[c]
             e == [key |-> DelegationKey, mode |-> "queue",
                   content |-> DelegationKey, asked |-> FALSE, turn |-> c]
             k == Len(inbox[s]) + 1
  <1>0. c \in Runs /\ s \in Sessions /\ c # NoRun /\ f.run \in Runs
    BY GraphSorts DEF TypeOK, Fence
  <1>1. e \in Entry /\ inbox' = [inbox EXCEPT ![s] = Append(@, e)]
    BY <1>0, Zenon DEF Entry, LaunchChild, Modes
  <1>2. e.key = DelegationKey /\ e.turn = c
    BY Zenon
  <1>3. /\ run[c] = "absent"
        /\ turn' = [turn EXCEPT ![c] = "active"]
        /\ run' = [run EXCEPT ![c] = "queued", ![f.run] = "waiting"]
        /\ source' = [source EXCEPT ![c] = k]
        /\ UNCHANGED <<cancel, active, runInput>>
    BY Zenon DEF LaunchChild, LaunchAgentDelegation
  <1>4. turn[c] = "absent" /\ source[c] = 0 /\ runInput[c] = {}
    BY <1>0, <1>3, Zenon DEF RowsInv, InputsAreRows
  <1> HIDE DEF e
  <1>5. inbox' \in [Sessions -> Seq(Entry)]
    BY <1>0, <1>1, RowAdded, Zenon
  <1>6. /\ \A t \in Sessions : \A j \in DOMAIN inbox[t] :
                j \in DOMAIN inbox'[t] /\ inbox'[t][j] = inbox[t][j]
        /\ \A t \in Sessions : \A j \in DOMAIN inbox'[t] :
                j \in DOMAIN inbox[t] \/ (t = s /\ j = k)
        /\ \A j \in DOMAIN inbox[s] : j \in Nat /\ j < k
        /\ k \in Nat \ {0}
        /\ k \in DOMAIN inbox'[s]
        /\ inbox'[s][k] = e
    BY <1>0, <1>1, AddedRows, Zenon
  <1> HIDE DEF k
  <1>7. \A t \in Sessions : \A j \in DOMAIN inbox[t] : inbox[t][j].turn # c
    BY <1>0, <1>4, NamedHasTurn
  <1>8. \A r \in Runs : r # c => source'[r] = source[r] /\ turn'[r] = turn[r]
    BY <1>3, Zenon DEF InboxType, TypeOK
  <1>9. source'[c] = k /\ turn'[c] = "active" /\ run'[c] # "absent"
    BY <1>0, <1>3, Zenon DEF InboxType, TypeOK
  <1>10. RowsNameTheirKind' /\ KeysUnique'
    BY <1>2, <1>6 DEF RowsInv, RowsNameTheirKind, KeysUnique
  <1>11. InputsAreRows'
    <2>1. \A r \in Runs : run'[r] = "absent" => r # c /\ run[r] = "absent"
      BY <1>0, <1>3, <1>9, Zenon DEF TypeOK
    <2> SUFFICES ASSUME NEW r \in Runs
                 PROVE  /\ run'[r] = "absent" => turn'[r] = "absent"
                        /\ turn'[r] = "absent" => source'[r] = 0 /\ runInput[r] = {}
                        /\ source'[r] # 0 => source'[r] \in DOMAIN inbox'[SessionOf[r]]
                        /\ runInput[r] \subseteq DOMAIN inbox'[SessionOf[r]]
      BY <1>3, Zenon DEF InputsAreRows
    <2>2. CASE r = c
      BY <1>0, <1>4, <1>6, <1>9, <2>2, Zenon
    <2>3. CASE r # c
      <3>1. source'[r] = source[r] /\ turn'[r] = turn[r]
        BY <1>8, <2>3, Zenon
      <3>2. SessionOf[r] \in Sessions
        BY GraphSorts, Zenon
      <3> QED
        BY <1>6, <2>1, <3>1, <3>2, Zenon DEF RowsInv, InputsAreRows
    <2> QED
      BY <2>2, <2>3, Zenon
  <1>12. AskedIsHead'
    <2>1. \A t \in Sessions : Pending(t)' = Pending(t)
      BY <1>0, <1>2, <1>6 DEF Pending
    <2>2. \A t \in Sessions : \A n \in Pending(t) : inbox'[t][n] = inbox[t][n]
      BY <1>6, Zenon DEF Pending
    <2> QED
      BY <2>1, <2>2, Zenon DEF RowsInv, AskedIsHead, PendingHead
  <1>13. ServedInOrder'
    <2>1. \A t \in Sessions : \A j \in DOMAIN inbox[t] :
            inbox[t][j].turn # NoRun =>
                turn'[inbox[t][j].turn] = turn[inbox[t][j].turn]
      BY <1>7, <1>8, NamedHasTurn, Zenon
    <2> QED
      BY <1>2, <1>6, <2>1 DEF RowsInv, ServedInOrder
  <1>14. EachInputOnce'
    <2>1. \A x \in Runs : SessionOf[x] = s => source[x] # k /\ k \notin runInput[x]
      BY <1>6 DEF RowsInv, InputsAreRows
    <2>2. ASSUME NEW t \in Sessions, NEW j \in DOMAIN inbox'[t]
          PROVE  LET r == inbox'[t][j].turn
                 IN  IF r = NoRun
                     THEN \A x \in Runs : SessionOf[x] = t =>
                            source'[x] # j /\ j \notin runInput'[x]
                     ELSE SessionOf[r] = t /\ (source'[r] = j <=> j \notin runInput'[r])
      <3>1. CASE j \in DOMAIN inbox[t]
        <4>1. inbox'[t][j] = inbox[t][j] /\ inbox[t][j].turn # c
          BY <1>6, <1>7, <3>1, Zenon
        <4>2. CASE inbox[t][j].turn = NoRun
          <5>1. \A x \in Runs : SessionOf[x] = t =>
                    source[x] # j /\ j \notin runInput[x]
            BY <3>1, <4>2, Zenon DEF RowsInv, EachInputOnce
          <5>2. t = s => j # k
            BY <1>6, <3>1
          <5> QED
            BY <1>3, <1>8, <1>9, <4>1, <4>2, <5>1, <5>2, Zenon
        <4>3. CASE inbox[t][j].turn # NoRun
          <5>1. inbox[t][j].turn \in Runs
            BY <3>1, <4>3, NamedHasTurn, Zenon
          <5>2. source'[inbox[t][j].turn] = source[inbox[t][j].turn]
            BY <1>8, <4>1, <5>1, Zenon
          <5> QED
            BY <1>3, <3>1, <4>1, <4>3, <5>2 DEF RowsInv, EachInputOnce
        <4> QED
          BY <4>2, <4>3, Zenon
      <3>2. CASE t = s /\ j = k
        BY <1>0, <1>2, <1>3, <1>4, <1>6, <1>9, <3>2, GraphSorts, Zenon
      <3> QED
        BY <1>6, <3>1, <3>2, Zenon
    <2>3. ASSUME NEW r \in Runs, turn'[r] # "absent"
          PROVE  /\ source'[r] \in DOMAIN inbox'[SessionOf[r]]
                 /\ inbox'[SessionOf[r]][source'[r]].turn = r
      <3>1. CASE r = c
        BY <1>2, <1>6, <1>9, <3>1, Zenon
      <3>2. CASE r # c
        <4>1. source'[r] = source[r] /\ turn[r] # "absent"
          BY <1>8, <2>3, <3>2, Zenon
        <4>2. /\ source[r] \in DOMAIN inbox[SessionOf[r]]
              /\ inbox[SessionOf[r]][source[r]].turn = r
          BY <4>1, Zenon DEF RowsInv, EachInputOnce
        <4> QED
          BY <1>6, <4>1, <4>2, GraphSorts
      <3> QED
        BY <3>1, <3>2, Zenon
    <2> QED
      BY <2>2, <2>3, Zenon DEF EachInputOnce
  <1>15. InterruptHitsTarget'
    BY <1>0, <1>2, <1>3, <1>6 DEF RowsInv, InterruptHitsTarget, Pending
  <1>16. KeepsRows
    <2> SUFFICES ASSUME NEW t \in Sessions, NEW j \in DOMAIN inbox[t]
                 PROVE  /\ j \in DOMAIN inbox'[t]
                        /\ inbox'[t][j].key = inbox[t][j].key
                        /\ inbox'[t][j].mode = inbox[t][j].mode
                        /\ inbox'[t][j].content = inbox[t][j].content
                        /\ inbox[t][j].turn # NoRun =>
                            /\ inbox'[t][j].turn = inbox[t][j].turn
                            /\ source'[inbox[t][j].turn] = source[inbox[t][j].turn]
      BY Zenon DEF KeepsRows, SameInput
    <2>1. inbox'[t][j] = inbox[t][j] /\ j \in DOMAIN inbox'[t]
      BY <1>6, Zenon
    <2>2. inbox[t][j].turn # NoRun =>
            inbox[t][j].turn \in Runs /\ inbox[t][j].turn # c
      BY <1>7, NamedHasTurn, Zenon
    <2> QED
      BY <1>8, <2>1, <2>2, Zenon
  <1> QED
    BY <1>5, <1>10, <1>11, <1>12, <1>13, <1>14, <1>15, <1>16, Zenon DEF RowsInv

-----------------------------------------------------------------------------
(* Steps that mark the head of the inbox. *)

\* The head is pending, a delivery, and the only row that may have asked.
HeadRow(s, n) ==
    /\ n \in DOMAIN inbox[s] /\ n \in Nat /\ n # 0
    /\ inbox[s][n] \in Entry
    /\ inbox[s][n].turn = NoRun
    /\ inbox[s][n].key # DelegationKey
    /\ \A m \in DOMAIN inbox[s] : m < n => inbox[s][m].turn # NoRun
    /\ \A m \in DOMAIN inbox[s] :
            m # n /\ inbox[s][m].turn = NoRun => ~ inbox[s][m].asked
    /\ \A m \in DOMAIN inbox[s] :
            n < m /\ inbox[s][m].key # DelegationKey => inbox[s][m].turn = NoRun
    /\ \A x \in Runs : SessionOf[x] = s => source[x] # n /\ n \notin runInput[x]

LEMMA HeadFacts ==
    ASSUME InboxType, RowsInv, NEW s \in Sessions, NEW n, PendingHead(s, n)
    PROVE  HeadRow(s, n)
  <1>1. /\ n \in DOMAIN inbox[s] /\ inbox[s][n].turn = NoRun
        /\ \A m \in DOMAIN inbox[s] : inbox[s][m].turn = NoRun => n <= m
    BY Zenon DEF PendingHead, Pending
  <1>2. /\ \A m \in DOMAIN inbox[s] : m \in Nat /\ m # 0
        /\ inbox[s][n] \in Entry
    BY <1>1, RowNumbers, Zenon
  <1>3. inbox[s][n].key # DelegationKey
    BY <1>1, GraphSorts, Zenon DEF RowsInv, RowsNameTheirKind
  <1>4. \A m \in DOMAIN inbox[s] : m < n => inbox[s][m].turn # NoRun
    BY <1>1, <1>2
  <1>5. ASSUME NEW m \in DOMAIN inbox[s], m # n, inbox[s][m].turn = NoRun
        PROVE  ~ inbox[s][m].asked
    <2> SUFFICES ASSUME inbox[s][m].asked PROVE FALSE
      BY Zenon
    <2>1. m <= n
      BY <1>1, <1>5, Zenon DEF RowsInv, AskedIsHead, PendingHead, Pending
    <2> QED
      BY <1>1, <1>2, <1>5, <2>1
  <1>6. \A m \in DOMAIN inbox[s] :
            n < m /\ inbox[s][m].key # DelegationKey => inbox[s][m].turn = NoRun
    BY <1>1, <1>3, Zenon DEF RowsInv, ServedInOrder
  <1>7. \A x \in Runs : SessionOf[x] = s => source[x] # n /\ n \notin runInput[x]
    BY <1>1, Zenon DEF RowsInv, EachInputOnce
  <1> QED
    BY <1>1, <1>2, <1>3, <1>4, <1>5, <1>6, <1>7, Zenon DEF HeadRow

(***************************************************************************)
(* The head goes to run r.  A promotion and a steering do this to the      *)
(* inbox; a promotion starts the turn of r, a steering finds it active.    *)
(***************************************************************************)
RowServed(s, n, r) ==
    /\ \A t \in Sessions : DOMAIN inbox'[t] = DOMAIN inbox[t]
    /\ \A t \in Sessions : \A j \in DOMAIN inbox[t] :
            t # s \/ j # n => inbox'[t][j] = inbox[t][j]
    /\ inbox'[s][n].turn = r
    /\ inbox'[s][n].key = inbox[s][n].key
    /\ inbox'[s][n].mode = inbox[s][n].mode
    /\ inbox'[s][n].content = inbox[s][n].content

TurnServed(s, r) ==
    /\ active'[s] = r /\ turn'[r] = "active" /\ run'[r] # "absent"
    /\ \A t \in Sessions : t # s => active'[t] = active[t]
    /\ \A x \in Runs : x # r => turn'[x] = turn[x] /\ run'[x] = run[x]
    /\ UNCHANGED cancel

InputServed(n, r) ==
    /\ \A x \in Runs : x # r => source'[x] = source[x] /\ runInput'[x] = runInput[x]
    /\ IF turn[r] = "absent"
       THEN source'[r] = n /\ runInput'[r] = {}
       ELSE /\ turn[r] = "active"
            /\ source'[r] = source[r] /\ runInput'[r] = runInput[r] \cup {n}

LEMMA HeadServed ==
    ASSUME InboxType, RowsInv, NEW s \in Sessions, NEW n, HeadRow(s, n),
           NEW r \in Runs, r \in Canonical, PromotedTo(s, n, r)
    PROVE  /\ inbox' \in [Sessions -> Seq(Entry)]
           /\ RowServed(s, n, r)
           /\ RowsNameTheirKind' /\ KeysUnique' /\ AskedIsHead'
  <1> DEFINE e == [inbox[s][n] EXCEPT !.turn = r]
  <1>1. /\ n \in DOMAIN inbox[s] /\ inbox[s][n] \in Entry
        /\ inbox[s][n].key # DelegationKey
        /\ \A m \in DOMAIN inbox[s] :
                m # n /\ inbox[s][m].turn = NoRun => ~ inbox[s][m].asked
    BY Zenon DEF HeadRow
  <1>2. /\ e \in Entry /\ e.key = inbox[s][n].key /\ e.turn = r
        /\ e.mode = inbox[s][n].mode /\ e.content = inbox[s][n].content
        /\ inbox' = [inbox EXCEPT ![s][n] = e]
    BY <1>1, Zenon DEF Entry, InboxType, PromotedTo
  <1> HIDE DEF e
  <1>3. /\ inbox' \in [Sessions -> Seq(Entry)]
        /\ \A t \in Sessions : DOMAIN inbox'[t] = DOMAIN inbox[t]
        /\ \A t \in Sessions : \A j \in DOMAIN inbox[t] :
                t # s \/ j # n => inbox'[t][j] = inbox[t][j]
        /\ inbox'[s][n] = e
    BY <1>1, <1>2, RowMarked, Zenon
  <1>4. RowsNameTheirKind' /\ KeysUnique'
    BY <1>1, <1>2, <1>3 DEF RowsInv, RowsNameTheirKind, KeysUnique
  <1>5. AskedIsHead'
    <2> SUFFICES ASSUME NEW t \in Sessions, NEW m \in DOMAIN inbox'[t],
                        inbox'[t][m].turn = NoRun, inbox'[t][m].asked
                 PROVE  PendingHead(t, m)'
      BY Zenon DEF AskedIsHead, Pending
    <2>1. m \in DOMAIN inbox[t] /\ ~ (t = s /\ m = n)
      BY <1>2, <1>3, GraphSorts, Zenon
    <2>2. inbox'[t][m] = inbox[t][m]
      BY <1>3, <2>1, Zenon
    <2>3. t # s
      BY <1>1, <2>1, <2>2, Zenon
    <2>4. Pending(t)' = Pending(t)
      BY <1>3, <2>3, Zenon DEF Pending
    <2>5. PendingHead(t, m)
      BY <2>1, <2>2, Zenon DEF RowsInv, AskedIsHead, Pending
    <2> QED
      BY <2>4, <2>5, Zenon DEF PendingHead
  <1> QED
    BY <1>2, <1>3, <1>4, <1>5, Zenon DEF RowServed

\* The run of a row that is served already keeps its turn and its source.
LEMMA NamedBefore ==
    ASSUME InboxType, RowsInv, NEW s, NEW n, NEW r \in Runs,
           TurnServed(s, r), InputServed(n, r),
           NEW t \in Sessions, NEW j \in DOMAIN inbox[t],
           NEW q, q = inbox[t][j].turn, q # NoRun
    PROVE  /\ q \in Runs /\ SessionOf[q] = t
           /\ turn'[q] = turn[q] /\ source'[q] = source[q]
           /\ \/ runInput'[q] = runInput[q]
              \/ q = r /\ runInput'[q] = runInput[q] \cup {n}
  <1>1. q \in Runs /\ SessionOf[q] = t /\ turn[q] # "absent"
    BY NamedHasTurn, Zenon
  <1> QED
    BY <1>1, Zenon DEF InputServed, TurnServed

LEMMA ServedInputs ==
    ASSUME InboxType, RowsInv, NEW s \in Sessions, NEW n, HeadRow(s, n),
           NEW r \in Runs, SessionOf[r] = s,
           RowServed(s, n, r), TurnServed(s, r), InputServed(n, r)
    PROVE  InputsAreRows'
  <1> SUFFICES ASSUME NEW x \in Runs
               PROVE  /\ run'[x] = "absent" => turn'[x] = "absent"
                      /\ turn'[x] = "absent" => source'[x] = 0 /\ runInput'[x] = {}
                      /\ source'[x] # 0 => source'[x] \in DOMAIN inbox'[SessionOf[x]]
                      /\ runInput'[x] \subseteq DOMAIN inbox'[SessionOf[x]]
    BY Zenon DEF InputsAreRows
  <1>1. DOMAIN inbox'[SessionOf[x]] = DOMAIN inbox[SessionOf[x]]
    BY GraphSorts, Zenon DEF RowServed
  <1>2. n \in DOMAIN inbox[s]
    BY Zenon DEF HeadRow
  <1>3. /\ run[x] = "absent" => turn[x] = "absent"
        /\ turn[x] = "absent" => source[x] = 0 /\ runInput[x] = {}
        /\ source[x] # 0 => source[x] \in DOMAIN inbox[SessionOf[x]]
        /\ runInput[x] \subseteq DOMAIN inbox[SessionOf[x]]
    BY Zenon DEF RowsInv, InputsAreRows
  <1>4. CASE x = r
    BY <1>1, <1>2, <1>3, <1>4 DEF TurnServed, InputServed
  <1>5. CASE x # r
    BY <1>1, <1>3, <1>5, Zenon DEF TurnServed, InputServed
  <1> QED
    BY <1>4, <1>5, Zenon

\* The turns of the rows before the head have ended, but for that of r.
LEMMA EarlierEnded ==
    ASSUME InboxType, RowsInv, ActiveTurnAgree', NEW s \in Sessions, NEW n,
           HeadRow(s, n), NEW r \in Runs, TurnServed(s, r),
           NEW m \in DOMAIN inbox[s], m < n, inbox[s][m].key # DelegationKey
    PROVE  /\ inbox[s][m].turn # NoRun
           /\ inbox[s][m].turn # r => turn'[inbox[s][m].turn] # "active"
  <1>1. inbox[s][m].turn # NoRun
    BY Zenon DEF HeadRow
  <1>2. inbox[s][m].turn \in Canonical
    BY <1>1, Zenon DEF RowsInv, RowsNameTheirKind
  <1>3. inbox[s][m].turn \in Runs /\ SessionOf[inbox[s][m].turn] = s
    BY <1>1, NamedHasTurn, Zenon
  <1> QED
    BY <1>1, <1>2, <1>3 DEF ActiveTurnAgree, TurnServed

LEMMA ServedOrder ==
    ASSUME InboxType, RowsInv, ActiveTurnAgree', NEW s \in Sessions, NEW n,
           HeadRow(s, n), NEW r \in Runs,
           RowServed(s, n, r), TurnServed(s, r), InputServed(n, r)
    PROVE  ServedInOrder'
  <1> SUFFICES ASSUME NEW t \in Sessions, NEW i \in DOMAIN inbox[t],
                      NEW j \in DOMAIN inbox[t], i < j,
                      inbox'[t][i].key # DelegationKey,
                      inbox'[t][j].key # DelegationKey,
                      inbox'[t][j].turn # NoRun
               PROVE  /\ inbox'[t][i].turn # NoRun
                      /\ inbox'[t][j].turn # inbox'[t][i].turn =>
                          turn'[inbox'[t][i].turn] # "active"
    BY DEF ServedInOrder, RowServed
  <1>0. n \in Nat /\ \A k \in DOMAIN inbox[t] : k \in Nat
    BY RowNumbers, Zenon DEF HeadRow
  <1>1. CASE t = s /\ j = n
    <2>1. i # n /\ i < n
      BY <1>0, <1>1
    <2>2. inbox'[s][i] = inbox[s][i] /\ inbox'[s][n].turn = r
      BY <1>1, <2>1, Zenon DEF RowServed
    <2> QED
      BY <1>1, <2>1, <2>2, EarlierEnded
  <1>2. CASE t = s /\ i = n
    <2>1. j # n /\ n < j
      BY <1>0, <1>2
    <2>2. inbox'[s][j] = inbox[s][j]
      BY <1>2, <2>1, Zenon DEF RowServed
    <2> QED
      BY <1>2, <2>1, <2>2, Zenon DEF HeadRow
  <1>3. CASE ~ (t = s /\ j = n) /\ ~ (t = s /\ i = n)
    <2>1. inbox'[t][i] = inbox[t][i] /\ inbox'[t][j] = inbox[t][j]
      BY <1>3, Zenon DEF RowServed
    <2>2. /\ inbox[t][i].turn # NoRun
          /\ inbox[t][j].turn # inbox[t][i].turn =>
                  turn[inbox[t][i].turn] # "active"
      BY <2>1, Zenon DEF RowsInv, ServedInOrder
    <2>3. turn'[inbox[t][i].turn] = turn[inbox[t][i].turn]
      BY <2>2, NamedBefore
    <2> QED
      BY <2>1, <2>2, <2>3, Zenon
  <1> QED
    BY <1>1, <1>2, <1>3, Zenon

LEMMA ServedOnce ==
    ASSUME InboxType, RowsInv, NEW s \in Sessions, NEW n, HeadRow(s, n),
           NEW r \in Runs, SessionOf[r] = s,
           RowServed(s, n, r), TurnServed(s, r), InputServed(n, r)
    PROVE  EachInputOnce'
  <1>1. ASSUME NEW t \in Sessions, NEW j \in DOMAIN inbox'[t],
               NEW q, q = inbox'[t][j].turn
        PROVE  IF q = NoRun
               THEN \A x \in Runs : SessionOf[x] = t =>
                        source'[x] # j /\ j \notin runInput'[x]
               ELSE SessionOf[q] = t /\ (source'[q] = j <=> j \notin runInput'[q])
    <2>0. j \in DOMAIN inbox[t]
      BY Zenon DEF RowServed
    <2>1. CASE t = s /\ j = n
      <3>1. q = r /\ r # NoRun
        BY <1>1, <2>1, GraphSorts, Zenon DEF RowServed
      <3>2. source[r] # n /\ n \notin runInput[r]
        BY Zenon DEF HeadRow
      <3>3. source'[r] = n <=> n \notin runInput'[r]
        BY <3>2, Zenon DEF InputServed
      <3> QED
        BY <2>1, <3>1, <3>3, Zenon
    <2>2. CASE ~ (t = s /\ j = n)
      <3>1. q = inbox[t][j].turn
        BY <1>1, <2>0, <2>2, Zenon DEF RowServed
      <3>2. CASE q = NoRun
        <4>1. ASSUME NEW x \in Runs, SessionOf[x] = t
              PROVE  source'[x] # j /\ j \notin runInput'[x]
          <5>0. inbox[t][j].turn = NoRun
            BY <3>1, <3>2, Zenon
          <5>1. source[x] # j /\ j \notin runInput[x]
            BY <2>0, <4>1, <5>0, Zenon DEF RowsInv, EachInputOnce
          <5>2. x = r => j # n
            BY <2>2, <4>1, Zenon
          <5> QED
            BY <5>1, <5>2, Zenon DEF InputServed
        <4> QED
          BY <3>2, <4>1, Zenon
      <3>3. CASE q # NoRun
        <4>1. SessionOf[q] = t /\ (source[q] = j <=> j \notin runInput[q])
          BY <2>0, <3>1, <3>3 DEF RowsInv, EachInputOnce
        <4>2. /\ source'[q] = source[q]
              /\ \/ runInput'[q] = runInput[q]
                 \/ q = r /\ runInput'[q] = runInput[q] \cup {n}
          BY <2>0, <3>1, <3>3, NamedBefore
        <4>3. q = r => j # n
          BY <2>2, <4>1, Zenon
        <4> QED
          BY <3>3, <4>1, <4>2, <4>3, Zenon
      <3> QED
        BY <3>2, <3>3, Zenon
    <2> QED
      BY <2>1, <2>2, Zenon
  <1>2. ASSUME NEW x \in Runs, turn'[x] # "absent"
        PROVE  /\ source'[x] \in DOMAIN inbox'[SessionOf[x]]
               /\ inbox'[SessionOf[x]][source'[x]].turn = x
    <2>1. CASE turn[x] = "absent"
      <3>1. x = r /\ source'[x] = n
        BY <1>2, <2>1, Zenon DEF TurnServed, InputServed
      <3> QED
        BY <3>1, Zenon DEF RowServed, HeadRow
    <2>2. CASE turn[x] # "absent"
      <3>1. /\ source[x] \in DOMAIN inbox[SessionOf[x]]
            /\ inbox[SessionOf[x]][source[x]].turn = x
        BY <2>2, Zenon DEF RowsInv, EachInputOnce
      <3>2. source'[x] = source[x]
        BY <2>2, Zenon DEF InputServed
      <3>3. SessionOf[x] \in Sessions /\ x # NoRun
        BY GraphSorts, Zenon
      <3>4. ~ (SessionOf[x] = s /\ source[x] = n)
        BY <3>1, <3>3, Zenon DEF HeadRow
      <3> QED
        BY <3>1, <3>2, <3>3, <3>4, Zenon DEF RowServed
    <2> QED
      BY <2>1, <2>2, Zenon
  <1> QED
    BY <1>1, <1>2 DEF EachInputOnce

\* No row is left that has asked: only the head could have.
LEMMA ServedInterrupts ==
    ASSUME RowsInv, NEW s \in Sessions, NEW n, HeadRow(s, n), NEW r \in Runs,
           RowServed(s, n, r), TurnServed(s, r)
    PROVE  InterruptHitsTarget'
  <1> SUFFICES ASSUME NEW t \in Sessions, NEW m \in DOMAIN inbox'[t],
                      inbox'[t][m].turn = NoRun, inbox'[t][m].asked,
                      active'[t] # NoRun
               PROVE  cancel'[active'[t]]
    BY Zenon DEF InterruptHitsTarget, Pending
  <1>1. m \in DOMAIN inbox[t] /\ ~ (t = s /\ m = n)
    BY GraphSorts, Zenon DEF RowServed
  <1>2. inbox'[t][m] = inbox[t][m]
    BY <1>1, Zenon DEF RowServed
  <1>3. t # s
    BY <1>1, <1>2, Zenon DEF HeadRow
  <1> QED
    BY <1>1, <1>2, <1>3, Zenon
       DEF RowsInv, InterruptHitsTarget, Pending, TurnServed

LEMMA ServedKeepsRows ==
    ASSUME InboxType, RowsInv, NEW s \in Sessions, NEW n, HeadRow(s, n),
           NEW r \in Runs,
           RowServed(s, n, r), TurnServed(s, r), InputServed(n, r)
    PROVE  KeepsRows
  <1> SUFFICES ASSUME NEW t \in Sessions, NEW j \in DOMAIN inbox[t]
               PROVE  /\ j \in DOMAIN inbox'[t]
                      /\ inbox'[t][j].key = inbox[t][j].key
                      /\ inbox'[t][j].mode = inbox[t][j].mode
                      /\ inbox'[t][j].content = inbox[t][j].content
                      /\ inbox[t][j].turn # NoRun =>
                          /\ inbox'[t][j].turn = inbox[t][j].turn
                          /\ source'[inbox[t][j].turn] = source[inbox[t][j].turn]
    BY Zenon DEF KeepsRows, SameInput
  <1>1. CASE t = s /\ j = n
    BY <1>1, Zenon DEF RowServed, HeadRow
  <1>2. CASE ~ (t = s /\ j = n)
    <2>1. inbox'[t][j] = inbox[t][j] /\ j \in DOMAIN inbox'[t]
      BY <1>2, Zenon DEF RowServed
    <2>2. inbox[t][j].turn # NoRun =>
            source'[inbox[t][j].turn] = source[inbox[t][j].turn]
      BY NamedBefore
    <2> QED
      BY <2>1, <2>2, Zenon
  <1> QED
    BY <1>1, <1>2, Zenon

LEMMA HeadGoesTo ==
    ASSUME InboxType, RowsInv, ActiveTurnAgree', NEW s \in Sessions, NEW n,
           PendingHead(s, n), NEW r \in Runs, r \in Canonical, SessionOf[r] = s,
           PromotedTo(s, n, r), TurnServed(s, r), InputServed(n, r)
    PROVE  inbox' \in [Sessions -> Seq(Entry)] /\ RowsInv' /\ KeepsRows
  <1>1. HeadRow(s, n)
    BY HeadFacts, Zenon
  <1>2. /\ inbox' \in [Sessions -> Seq(Entry)] /\ RowServed(s, n, r)
        /\ RowsNameTheirKind' /\ KeysUnique' /\ AskedIsHead'
    BY <1>1, HeadServed, Zenon
  <1>3. InputsAreRows' /\ EachInputOnce'
    BY <1>1, <1>2, ServedInputs, ServedOnce, Zenon
  <1>4. ServedInOrder' /\ InterruptHitsTarget'
    BY <1>1, <1>2, ServedOrder, ServedInterrupts, Zenon
  <1>5. KeepsRows
    BY <1>1, <1>2, ServedKeepsRows, Zenon
  <1> QED
    BY <1>2, <1>3, <1>4, <1>5, Zenon DEF RowsInv

LEMMA PromoteKeepsRows ==
    ASSUME TypeOK, ActiveTurnAgree', InboxType, RowsInv,
           NEW s \in Sessions, NEW n, NEW r \in Runs, PromoteHead(s, n, r)
    PROVE  inbox' \in [Sessions -> Seq(Entry)] /\ RowsInv' /\ KeepsRows
  <1>1. /\ PendingHead(s, n) /\ SessionOf[r] = s /\ r \in Canonical
        /\ run[r] = "absent"
        /\ run' = [run EXCEPT ![r] = "queued"]
        /\ turn' = [turn EXCEPT ![r] = "active"]
        /\ active' = [active EXCEPT ![s] = r]
        /\ PromotedTo(s, n, r)
        /\ source' = [source EXCEPT ![r] = n]
        /\ UNCHANGED <<cancel, runInput>>
    BY Zenon DEF PromoteHead, PromoteNext
  <1>2. turn[r] = "absent" /\ runInput[r] = {}
    BY <1>1, Zenon DEF RowsInv, InputsAreRows
  <1>3. TurnServed(s, r)
    BY <1>1, Zenon DEF TypeOK, TurnServed
  <1>4. InputServed(n, r)
    BY <1>1, <1>2, Zenon DEF InboxType, InputServed
  <1> QED
    BY <1>1, <1>3, <1>4, HeadGoesTo, Zenon

LEMMA SteerKeepsRows ==
    ASSUME TypeOK, ActiveTurnAgree, ActiveTurnAgree', InboxType, RowsInv,
           NEW s \in Sessions, NEW n, SteerActive(s, n)
    PROVE  /\ inbox' \in [Sessions -> Seq(Entry)]
           /\ runInput' \in [Runs -> SUBSET Nat]
           /\ RowsInv' /\ KeepsRows
  <1>1. /\ PendingHead(s, n)
        /\ UNCHANGED <<run, turn, active, cancel, source>>
    BY Zenon DEF SteerActive, vars, rowVars
  <1>2. PICK r \in Runs :
            /\ active[s] = r /\ turn[r] = "active"
            /\ runInput' = [runInput EXCEPT ![r] = @ \cup {n}]
            /\ PromotedTo(s, n, r)
    BY Zenon DEF SteerActive
  <1>3. r \in Canonical /\ SessionOf[r] = s /\ run[r] # "absent"
    BY <1>1, <1>2, GraphSorts, Zenon DEF ActiveTurnAgree
  <1>4. TurnServed(s, r)
    BY <1>1, <1>2, <1>3, Zenon DEF TurnServed
  <1>5. InputServed(n, r)
    BY <1>1, <1>2, Zenon DEF InboxType, InputServed
  <1>6. runInput' \in [Runs -> SUBSET Nat]
    BY <1>1, <1>2, HeadFacts DEF InboxType, HeadRow
  <1> QED
    BY <1>1, <1>2, <1>3, <1>4, <1>5, <1>6, HeadGoesTo, Zenon

LEMMA InterruptKeepsRows ==
    ASSUME TypeOK, ActiveTurnAgree, ActiveTurnAgree', InboxType, RowsInv,
           NEW s \in Sessions, NEW n, InterruptActive(s, n)
    PROVE  inbox' \in [Sessions -> Seq(Entry)] /\ RowsInv' /\ KeepsRows
  <1> DEFINE e == [inbox[s][n] EXCEPT !.asked = TRUE]
  <1>1. /\ PendingHead(s, n)
        /\ InterruptBeforeClaim(s) \/ InterruptRunning(s)
        /\ inbox' = [inbox EXCEPT ![s][n].asked = TRUE]
        /\ UNCHANGED <<source, runInput>>
    BY Zenon DEF InterruptActive, InterruptWanted
  <1>2. NoTurnStarts
    BY <1>1, InterruptStartsNone, Zenon
  <1>3. /\ n \in DOMAIN inbox[s] /\ inbox[s][n] \in Entry
        /\ inbox[s][n].turn = NoRun
        /\ \A m \in DOMAIN inbox[s] :
                m # n /\ inbox[s][m].turn = NoRun => ~ inbox[s][m].asked
    BY <1>1, HeadFacts, Zenon DEF HeadRow
  <1>4. /\ e \in Entry /\ e.turn = inbox[s][n].turn
        /\ e.key = inbox[s][n].key /\ e.mode = inbox[s][n].mode
        /\ e.content = inbox[s][n].content
        /\ inbox' = [inbox EXCEPT ![s][n] = e]
    BY <1>1, <1>3, Zenon DEF Entry, InboxType
  <1> HIDE DEF e
  <1>5. /\ inbox' \in [Sessions -> Seq(Entry)]
        /\ \A t \in Sessions : DOMAIN inbox'[t] = DOMAIN inbox[t]
        /\ \A t \in Sessions : \A j \in DOMAIN inbox[t] :
                t # s \/ j # n => inbox'[t][j] = inbox[t][j]
        /\ inbox'[s][n] = e
    BY <1>3, <1>4, RowMarked, Zenon
  <1>6. \A t \in Sessions : \A j \in DOMAIN inbox[t] :
            /\ inbox'[t][j].turn = inbox[t][j].turn
            /\ inbox'[t][j].key = inbox[t][j].key
            /\ inbox'[t][j].mode = inbox[t][j].mode
            /\ inbox'[t][j].content = inbox[t][j].content
    BY <1>4, <1>5, Zenon
  <1>7. \A t \in Sessions : Pending(t)' = Pending(t)
    BY <1>5, <1>6, Zenon DEF Pending
  <1>8. RowsNameTheirKind' /\ KeysUnique'
    <2>1. RowsNameTheirKind'
      BY <1>5, <1>6 DEF RowsInv, RowsNameTheirKind
    <2>2. KeysUnique'
      BY <1>5, <1>6 DEF RowsInv, KeysUnique
    <2> QED
      BY <2>1, <2>2, Zenon
  <1>9. InputsAreRows'
    BY <1>1, <1>2, <1>5 DEF RowsInv, InputsAreRows, NoTurnStarts
  <1>10. AskedIsHead'
    <2> SUFFICES ASSUME NEW t \in Sessions, NEW m \in Pending(t),
                        inbox'[t][m].asked
                 PROVE  PendingHead(t, m)'
      BY <1>7, Zenon DEF AskedIsHead
    <2>1. m \in DOMAIN inbox[t] /\ inbox[t][m].turn = NoRun
      BY Zenon DEF Pending
    <2>2. PendingHead(t, m)
      BY <1>1, <1>3, <1>5, <2>1, Zenon DEF RowsInv, AskedIsHead
    <2> QED
      BY <1>7, <2>2, Zenon DEF PendingHead
  <1>11. ServedInOrder'
    <2>1. \A t \in Sessions : \A j \in DOMAIN inbox[t] :
            /\ inbox[t][j].turn # NoRun
            /\ turn'[inbox[t][j].turn] = "active"
            => turn[inbox[t][j].turn] = "active"
      BY <1>2, NamedHasTurn, Zenon DEF NoTurnStarts
    <2> SUFFICES ASSUME NEW t \in Sessions, NEW i \in DOMAIN inbox[t],
                        NEW j \in DOMAIN inbox[t], i < j,
                        inbox'[t][i].key # DelegationKey,
                        inbox'[t][j].key # DelegationKey,
                        inbox'[t][j].turn # NoRun
                 PROVE  /\ inbox'[t][i].turn # NoRun
                        /\ inbox'[t][j].turn # inbox'[t][i].turn =>
                            turn'[inbox'[t][i].turn] # "active"
      BY <1>5 DEF ServedInOrder
    <2>2. /\ inbox'[t][i].turn = inbox[t][i].turn
          /\ inbox'[t][j].turn = inbox[t][j].turn
          /\ inbox[t][i].key # DelegationKey /\ inbox[t][j].key # DelegationKey
      BY <1>6, Zenon
    <2>3. /\ inbox[t][i].turn # NoRun
          /\ inbox[t][j].turn # inbox[t][i].turn =>
                turn[inbox[t][i].turn] # "active"
      BY <2>2, Zenon DEF RowsInv, ServedInOrder
    <2> QED
      BY <2>1, <2>2, <2>3, Zenon
  <1>12. EachInputOnce'
    BY <1>1, <1>2, <1>5, <1>6 DEF RowsInv, EachInputOnce, NoTurnStarts
  <1>13. InterruptHitsTarget'
    <2> SUFFICES ASSUME NEW t \in Sessions, NEW m \in Pending(t),
                        inbox'[t][m].asked, active'[t] # NoRun
                 PROVE  cancel'[active'[t]]
      BY <1>7, Zenon DEF InterruptHitsTarget
    <2>1. m \in DOMAIN inbox[t] /\ inbox[t][m].turn = NoRun
      BY Zenon DEF Pending
    <2>2. CASE t = s
      BY <1>1, <2>2, Zenon DEF InterruptBeforeClaim, InterruptRunning, TypeOK
    <2>3. CASE t # s
      <3>1. active'[t] = active[t]
        BY <1>1, <2>3, Zenon DEF InterruptBeforeClaim, InterruptRunning, TypeOK
      <3>2. active[t] \in Runs
        BY <3>1, Zenon DEF TypeOK
      <3>3. cancel[active[t]]
        BY <1>5, <2>1, <2>3, <3>1, Zenon DEF RowsInv, InterruptHitsTarget
      <3> QED
        BY <1>2, <3>1, <3>2, <3>3, Zenon DEF NoTurnStarts
    <2> QED
      BY <2>2, <2>3, Zenon
  <1>14. KeepsRows
    BY <1>1, <1>5, <1>6, Zenon DEF KeepsRows, SameInput
  <1> QED
    BY <1>5, <1>8, <1>9, <1>10, <1>11, <1>12, <1>13, <1>14, Zenon DEF RowsInv

-----------------------------------------------------------------------------
(* Every step of the session is a step of the work graph, or none. *)

LEMMA SessionStepIsWorkGraphStep == [SessionNext]_sessionVars => [Next]_vars
  <1> SUFFICES ASSUME [SessionNext]_sessionVars PROVE [Next]_vars
    BY Zenon
  <1>1. ASSUME NEW s \in Sessions, ChannelStep(s) PROVE UNCHANGED vars
    BY <1>1, Zenon DEF ChannelStep, AdmitInput, AdmitDuplicate, RevokeBinding
  <1>2. ASSUME NEW s \in Sessions, PromotionStep(s) PROVE [Next]_vars
    <2>1. PICK n \in DOMAIN inbox[s] :
            \/ \E r \in Runs : PromoteHead(s, n, r)
            \/ SteerActive(s, n)
            \/ InterruptActive(s, n)
      BY <1>2, Zenon DEF PromotionStep
    <2>2. ASSUME NEW r \in Runs, PromoteHead(s, n, r) PROVE Next
      BY <2>2, Zenon DEF PromoteHead, Next
    <2>3. CASE SteerActive(s, n)
      BY <2>3, Zenon DEF SteerActive
    <2>4. CASE InterruptActive(s, n)
      BY <2>4, Zenon DEF InterruptActive, Next
    <2> QED
      BY <2>1, <2>2, <2>3, <2>4, Zenon
  <1>3. ASSUME NEW w \in Workers, NEW f \in held[w],
               \/ LoadAgentRun(w, f)
               \/ \E c \in Delegates : LaunchChild(w, f, c)
               \/ RunStep(w, f)
        PROVE  [Next]_vars
    <2>1. CASE LoadAgentRun(w, f)
      BY <2>1, Zenon DEF LoadAgentRun
    <2>2. ASSUME NEW c \in Delegates, LaunchChild(w, f, c) PROVE Next
      BY <2>2, Zenon DEF LaunchChild, Next, WorkerStep
    <2>3. CASE RunStep(w, f)
      <3>1. WorkerStep(w, f)
        BY <2>3, Zenon DEF RunStep, WorkerStep
      <3> QED
        BY <3>1, Zenon DEF Next
    <2> QED
      BY <1>3, <2>1, <2>2, <2>3, Zenon
  <1>4. CASE GraphStep
    BY <1>4, Zenon DEF GraphStep, Next
  <1>5. CASE UNCHANGED sessionVars
    BY <1>5, Zenon DEF sessionVars
  <1> QED
    BY <1>1, <1>2, <1>3, <1>4, <1>5, Zenon DEF SessionNext

\* Inbox, promotion and model context leave the work graph to its own
\* transactions: every theorem about WorkGraph holds of a session.
THEOREM SessionImplementsWorkGraph == SessionSpec => Spec
  <1>1. InboxInit => Init
    BY Zenon DEF InboxInit
  <1> QED
    BY <1>1, SessionStepIsWorkGraphStep, PTL DEF SessionSpec, Spec

-----------------------------------------------------------------------------
(* The inductive invariant. *)

InboxInv ==
    /\ WorkGraphInv
    /\ InboxType
    /\ RowsInv
    /\ AnswersAreRows
    /\ OfferedHasStarted

LEMMA InboxInitInv == InboxInit => InboxInv
  <1> SUFFICES ASSUME InboxInit PROVE InboxInv
    BY Zenon
  <1>1. WorkGraphInv
    BY WorkGraphInvInit, Zenon DEF InboxInit
  <1>2. \A s \in Sessions : inbox[s] = <<>> /\ DOMAIN inbox[s] = {}
    BY DEF InboxInit
  <1>3. <<>> \in Seq(Entry)
    OBVIOUS
  <1>4. InboxType
    BY <1>3, Zenon DEF InboxInit, InboxType
  <1>5. RowsNameTheirKind /\ KeysUnique /\ ServedInOrder
    BY <1>2, Zenon DEF RowsNameTheirKind, KeysUnique, ServedInOrder
  <1>6. AskedIsHead /\ InterruptHitsTarget
    BY <1>2, Zenon DEF AskedIsHead, InterruptHitsTarget, Pending
  <1>7. InputsAreRows
    BY Zenon DEF InputsAreRows, InboxInit, Init
  <1>8. EachInputOnce
    BY <1>2, Zenon DEF EachInputOnce, InboxInit, Init
  <1>9. AnswersAreRows /\ OfferedHasStarted
    BY Zenon DEF AnswersAreRows, OfferedHasStarted, InboxInit
  <1> QED
    BY <1>1, <1>4, <1>5, <1>6, <1>7, <1>8, <1>9, Zenon DEF InboxInv, RowsInv

-----------------------------------------------------------------------------
(* Answers and model contexts survive every step that keeps the rows. *)

LEMMA OldAnswersKept ==
    ASSUME InboxType, AnswersAreRows, KeepsRows, answered' = answered
    PROVE  AnswersAreRows'
  <1>1. \A a \in answered : a.session \in Sessions
    BY Zenon DEF InboxType, Answers
  <1> QED
    BY <1>1 DEF AnswersAreRows, KeepsRows, SameInput

LEMMA NewAnswerKept ==
    ASSUME InboxType, AnswersAreRows, KeepsRows, NEW s \in Sessions,
           NEW key \in Keys, NEW mode \in Modes, NEW content \in Contents,
           NEW n \in Nat, Answer(s, key, mode, content, n),
           n \in DOMAIN inbox'[s],
           inbox'[s][n].key = key, inbox'[s][n].mode = mode,
           inbox'[s][n].content = content
    PROVE  AnswersAreRows' /\ answered' \subseteq Answers
  <1> DEFINE b == [session |-> s, key |-> key, mode |-> mode,
                   content |-> content, sequence |-> n]
  <1>1. answered' = answered \cup {b}
    BY Zenon DEF Answer
  <1>2. /\ b \in Answers /\ b.session = s /\ b.sequence = n
        /\ b.key = key /\ b.mode = mode /\ b.content = content
    BY Zenon DEF Answers
  <1> HIDE DEF b
  <1>3. \A a \in answered : a.session \in Sessions
    BY Zenon DEF InboxType, Answers
  <1>4. \A a \in answered :
            /\ a.sequence \in DOMAIN inbox'[a.session]
            /\ inbox'[a.session][a.sequence].key = a.key
            /\ inbox'[a.session][a.sequence].mode = a.mode
            /\ inbox'[a.session][a.sequence].content = a.content
    BY <1>3 DEF AnswersAreRows, KeepsRows, SameInput
  <1> QED
    BY <1>1, <1>2, <1>4, Zenon DEF AnswersAreRows, InboxType

LEMMA OldOffersKept ==
    ASSUME OfferedHasStarted, KeepsRows, offered' = offered
    PROVE  OfferedHasStarted'
  BY DEF OfferedHasStarted, KeepsRows

-----------------------------------------------------------------------------
(* The inductive step. *)

LEMMA InboxInvStep ==
    InboxInv /\ [SessionNext]_sessionVars => InboxInv' /\ KeepsRows
  <1> SUFFICES ASSUME InboxInv, [SessionNext]_sessionVars
               PROVE  InboxInv' /\ KeepsRows
    BY Zenon
  <1>0. WorkGraphInv'
    BY SessionStepIsWorkGraphStep, WorkGraphInvStep, Zenon DEF InboxInv
  <1> TypeOK /\ ActiveTurnAgree /\ ActiveTurnAgree'
    BY <1>0, Zenon DEF InboxInv, WorkGraphInv
  <1> InboxType /\ RowsInv /\ AnswersAreRows /\ OfferedHasStarted
    BY Zenon DEF InboxInv
  <1> SUFFICES InboxType' /\ RowsInv' /\ AnswersAreRows'
                /\ OfferedHasStarted' /\ KeepsRows
    BY <1>0, Zenon DEF InboxInv
  <1>1. ASSUME NoTurnStarts, UNCHANGED inboxVars
        PROVE  InboxType' /\ RowsInv' /\ AnswersAreRows'
                /\ OfferedHasStarted' /\ KeepsRows
    <2>1. UNCHANGED <<inbox, source, runInput, bound, answered, offered>>
      BY <1>1, Zenon DEF inboxVars
    <2>2. RowsInv' /\ KeepsRows
      BY <1>1, <2>1, RowsKept, Zenon
    <2> QED
      BY <2>1, <2>2, OldAnswersKept, OldOffersKept, Zenon DEF InboxType
  <1>2. ASSUME NEW s \in Sessions, NEW key \in Keys, NEW mode \in Modes,
               NEW content \in Contents, AdmitInput(s, key, mode, content)
        PROVE  InboxType' /\ RowsInv' /\ AnswersAreRows'
                /\ OfferedHasStarted' /\ KeepsRows
    <2> DEFINE e == [key |-> key, mode |-> mode, content |-> content,
                     asked |-> FALSE, turn |-> NoRun]
    <2>1. inbox' \in [Sessions -> Seq(Entry)] /\ RowsInv' /\ KeepsRows
      BY <1>2, AdmitKeepsRows, Zenon
    <2>2. e \in Entry /\ inbox' = [inbox EXCEPT ![s] = Append(@, e)]
      BY <1>2, Zenon DEF Entry, AdmitInput
    <2> e.key = key /\ e.mode = mode /\ e.content = content
      BY Zenon
    <2> HIDE DEF e
    <2>3. /\ Len(inbox[s]) + 1 \in Nat
          /\ Len(inbox[s]) + 1 \in DOMAIN inbox'[s]
          /\ inbox'[s][Len(inbox[s]) + 1] = e
      BY <2>2, AddedRows, Zenon
    <2>4. /\ Answer(s, key, mode, content, Len(inbox[s]) + 1)
          /\ UNCHANGED <<source, runInput, bound, offered>>
      BY <1>2, Zenon DEF AdmitInput
    <2>5. AnswersAreRows' /\ answered' \subseteq Answers
      BY <2>1, <2>3, <2>4, NewAnswerKept, Zenon
    <2> QED
      BY <2>1, <2>4, <2>5, OldOffersKept, Zenon DEF InboxType
  <1>3. ASSUME NEW s \in Sessions, NEW key \in Keys, NEW mode \in Modes,
               NEW content \in Contents, AdmitDuplicate(s, key, mode, content)
        PROVE  InboxType' /\ RowsInv' /\ AnswersAreRows'
                /\ OfferedHasStarted' /\ KeepsRows
    <2>1. /\ UNCHANGED vars
          /\ UNCHANGED <<inbox, source, runInput, bound, offered>>
      BY <1>3, Zenon DEF AdmitDuplicate
    <2>2. RowsInv' /\ KeepsRows
      BY <2>1, RowsKept, StutterStartsNone, Zenon
    <2>3. PICK n \in DOMAIN inbox[s] :
            /\ inbox[s][n].key = key
            /\ inbox[s][n].mode = mode /\ inbox[s][n].content = content
            /\ Answer(s, key, mode, content, n)
      BY <1>3, Zenon DEF AdmitDuplicate, SameInput
    <2>4. n \in Nat
      BY RowNumbers, Zenon
    <2>5. AnswersAreRows' /\ answered' \subseteq Answers
      BY <2>1, <2>2, <2>3, <2>4, NewAnswerKept, Zenon
    <2> QED
      BY <2>1, <2>2, <2>5, OldOffersKept, Zenon DEF InboxType
  <1>4. ASSUME NEW s \in Sessions, RevokeBinding(s)
        PROVE  InboxType' /\ RowsInv' /\ AnswersAreRows'
                /\ OfferedHasStarted' /\ KeepsRows
    <2>1. /\ UNCHANGED vars
          /\ UNCHANGED <<inbox, source, runInput, answered, offered>>
          /\ bound' = [bound EXCEPT ![s] = FALSE]
      BY <1>4, Zenon DEF RevokeBinding
    <2>2. RowsInv' /\ KeepsRows
      BY <2>1, RowsKept, StutterStartsNone, Zenon
    <2> QED
      BY <2>1, <2>2, OldAnswersKept, OldOffersKept, Zenon DEF InboxType
  <1>5. ASSUME NEW s \in Sessions, NEW n, NEW r \in Runs, PromoteHead(s, n, r)
        PROVE  InboxType' /\ RowsInv' /\ AnswersAreRows'
                /\ OfferedHasStarted' /\ KeepsRows
    <2>1. inbox' \in [Sessions -> Seq(Entry)] /\ RowsInv' /\ KeepsRows
      BY <1>5, PromoteKeepsRows, Zenon
    <2>2. /\ PendingHead(s, n)
          /\ source' = [source EXCEPT ![r] = n]
          /\ UNCHANGED <<runInput, bound, answered, offered>>
      BY <1>5, Zenon DEF PromoteHead
    <2>3. n \in Nat
      BY <2>2, HeadFacts, Zenon DEF HeadRow
    <2> QED
      BY <2>1, <2>2, <2>3, OldAnswersKept, OldOffersKept, Zenon DEF InboxType
  <1>6. ASSUME NEW s \in Sessions, NEW n, SteerActive(s, n)
        PROVE  InboxType' /\ RowsInv' /\ AnswersAreRows'
                /\ OfferedHasStarted' /\ KeepsRows
    <2>1. /\ inbox' \in [Sessions -> Seq(Entry)]
          /\ runInput' \in [Runs -> SUBSET Nat]
          /\ RowsInv' /\ KeepsRows
      BY <1>6, SteerKeepsRows, Zenon
    <2>2. UNCHANGED <<source, bound, answered, offered>>
      BY <1>6, Zenon DEF SteerActive
    <2> QED
      BY <2>1, <2>2, OldAnswersKept, OldOffersKept, Zenon DEF InboxType
  <1>7. ASSUME NEW s \in Sessions, NEW n, InterruptActive(s, n)
        PROVE  InboxType' /\ RowsInv' /\ AnswersAreRows'
                /\ OfferedHasStarted' /\ KeepsRows
    <2>1. inbox' \in [Sessions -> Seq(Entry)] /\ RowsInv' /\ KeepsRows
      BY <1>7, InterruptKeepsRows, Zenon
    <2>2. UNCHANGED <<source, runInput, bound, answered, offered>>
      BY <1>7, Zenon DEF InterruptActive
    <2> QED
      BY <2>1, <2>2, OldAnswersKept, OldOffersKept, Zenon DEF InboxType
  <1>8. ASSUME NEW w \in Workers, NEW f \in held[w], LoadAgentRun(w, f)
        PROVE  InboxType' /\ RowsInv' /\ AnswersAreRows'
                /\ OfferedHasStarted' /\ KeepsRows
    <2>1. /\ UNCHANGED vars
          /\ UNCHANGED <<inbox, source, runInput, bound, answered>>
          /\ turn[f.run] = "active"
          /\ offered' = [offered EXCEPT ![SessionOf[f.run]] =
                                @ \cup {source[f.run]}]
      BY <1>8, Zenon DEF LoadAgentRun
    <2>2. RowsInv' /\ KeepsRows
      BY <2>1, RowsKept, StutterStartsNone, Zenon
    <2>3. f.run \in Runs /\ SessionOf[f.run] \in Sessions /\ f.run # NoRun
      BY GraphSorts DEF TypeOK, Fence
    <2>4. /\ source[f.run] \in DOMAIN inbox[SessionOf[f.run]]
          /\ inbox[SessionOf[f.run]][source[f.run]].turn = f.run
      BY <2>1, <2>3, Zenon DEF RowsInv, EachInputOnce
    <2>5. source[f.run] \in Nat /\ offered' \in [Sessions -> SUBSET Nat]
      BY <2>1, <2>3 DEF InboxType
    <2>6. OfferedHasStarted'
      <3> SUFFICES ASSUME NEW t \in Sessions, NEW k \in offered'[t]
                   PROVE  /\ k \in DOMAIN inbox[t]
                          /\ inbox[t][k].turn # NoRun
                          /\ source[inbox[t][k].turn] = k
        BY <2>1 DEF OfferedHasStarted
      <3>1. \/ k \in offered[t]
            \/ t = SessionOf[f.run] /\ k = source[f.run]
        BY <2>1, Zenon DEF InboxType
      <3> QED
        BY <2>3, <2>4, <3>1, Zenon DEF OfferedHasStarted
    <2> QED
      BY <2>1, <2>2, <2>5, <2>6, OldAnswersKept, Zenon DEF InboxType
  <1>9. ASSUME NEW w \in Workers, NEW f \in held[w], NEW c \in Delegates,
               LaunchChild(w, f, c)
        PROVE  InboxType' /\ RowsInv' /\ AnswersAreRows'
                /\ OfferedHasStarted' /\ KeepsRows
    <2>1. inbox' \in [Sessions -> Seq(Entry)] /\ RowsInv' /\ KeepsRows
      BY <1>9, LaunchKeepsRows, Zenon
    <2>2. /\ source' = [source EXCEPT ![c] = Len(inbox[SessionOf[c]]) + 1]
          /\ UNCHANGED <<runInput, bound, answered, offered>>
      BY <1>9, Zenon DEF LaunchChild
    <2>3. c \in Runs /\ SessionOf[c] \in Sessions
      BY GraphSorts, Zenon
    <2>4. Len(inbox[SessionOf[c]]) + 1 \in Nat
      BY <2>3, RowNumbers
    <2>5. source' \in [Runs -> Nat]
      BY <2>2, <2>4, Zenon DEF InboxType
    <2> QED
      BY <2>1, <2>2, <2>5, OldAnswersKept, OldOffersKept, Zenon DEF InboxType
  <1>10. ASSUME NEW w \in Workers, NEW f \in held[w], RunStep(w, f),
                UNCHANGED inboxVars
         PROVE  InboxType' /\ RowsInv' /\ AnswersAreRows'
                /\ OfferedHasStarted' /\ KeepsRows
    BY <1>1, <1>10, RunStepStartsNone, Zenon
  <1>11. CASE GraphStep /\ UNCHANGED inboxVars
    BY <1>1, <1>11, GraphStepStartsNone, Zenon
  <1>12. CASE UNCHANGED sessionVars
    BY <1>1, <1>12, StutterStartsNone, Zenon DEF sessionVars
  <1> QED
    BY <1>2, <1>3, <1>4, <1>5, <1>6, <1>7, <1>8, <1>9, <1>10, <1>11, <1>12,
       Zenon
    DEF SessionNext, ChannelStep, PromotionStep

LEMMA InboxInvariant == SessionSpec => []InboxInv
  <1>1. InboxInv /\ [SessionNext]_sessionVars => InboxInv'
    BY InboxInvStep, Zenon
  <1> QED
    BY <1>1, InboxInitInv, PTL DEF SessionSpec

-----------------------------------------------------------------------------
(* The theorems. *)

\* Type correctness of the inbox, its history and the work graph under it.
THEOREM InboxTypeCorrect == SessionSpec => []InboxTypeOK
  <1>1. InboxInv => InboxTypeOK
    BY Zenon DEF InboxInv, WorkGraphInv, InboxType, InboxTypeOK
  <1> QED
    BY <1>1, InboxInvariant, PTL

\* A sender's answer stays true: the sequence it was told holds its input, and
\* repeated deliveries of one key were all told the same sequence.
THEOREM AnswersStayTrue == SessionSpec => []AnswersAreTrue
  <1>1. InboxInv => AnswersAreTrue
    <2> SUFFICES ASSUME InboxInv PROVE AnswersAreTrue
      BY Zenon
    <2>1. AnswersAreRows /\ KeysUnique
      BY Zenon DEF InboxInv, RowsInv
    <2>2. \A a \in answered : a.session \in Sessions /\ a.key # DelegationKey
      BY Zenon DEF InboxInv, InboxType, Answers
    <2>3. \A a, b \in answered :
            a.session = b.session /\ a.key = b.key => a.sequence = b.sequence
      BY <2>1, <2>2 DEF AnswersAreRows, KeysUnique
    <2> QED
      BY <2>1, <2>3, Zenon DEF AnswersAreRows, AnswersAreTrue
  <1> QED
    BY <1>1, InboxInvariant, PTL

\* Inputs are promoted in the order they were accepted, and a turn starts only
\* when the turns of all earlier inputs have ended.
THEOREM InboxServesInOrder == SessionSpec => []ServedInOrder
  <1>1. InboxInv => ServedInOrder
    BY Zenon DEF InboxInv, RowsInv
  <1> QED
    BY <1>1, InboxInvariant, PTL

\* Every promoted input starts one turn or is attached to one run, and every
\* turn was started by one input.
THEOREM InboxServesOnce == SessionSpec => []EachInputOnce
  <1>1. InboxInv => EachInputOnce
    BY Zenon DEF InboxInv, RowsInv
  <1> QED
    BY <1>1, InboxInvariant, PTL

\* A requested interrupt has reached the turn in its way.
THEOREM InterruptSafety == SessionSpec => []InterruptHitsTarget
  <1>1. InboxInv => InterruptHitsTarget
    BY Zenon DEF InboxInv, RowsInv
  <1> QED
    BY <1>1, InboxInvariant, PTL

\* A model context never holds an input that waits, nor one that was steered
\* into the turn of another.
THEOREM ContextFollowsPromotion == SessionSpec => []OfferedHasStarted
  <1>1. InboxInv => OfferedHasStarted
    BY Zenon DEF InboxInv
  <1> QED
    BY <1>1, InboxInvariant, PTL

\* No step loses or rewrites an accepted input, or moves a served one.
THEOREM AdmissionsAreFinal == SessionSpec => AdmissionIsFinal
  <1>1. InboxInv /\ [SessionNext]_sessionVars => [KeepsRows]_sessionVars
    BY InboxInvStep, Zenon
  <1> QED
    BY <1>1, InboxInvariant, PTL DEF SessionSpec, AdmissionIsFinal

=============================================================================
