------------------------- MODULE EffectLedgerProofs -------------------------
(***************************************************************************)
(* Proofs about EffectLedger: the ledger implements the work graph, its    *)
(* variables keep their types, a governed effect is approved before it is  *)
(* carried out, carried out at most once and settled at most once; then    *)
(* what relates the ledger to the work graph.  A waiting run has something *)
(* to wait for, an approval is pending only for a run that waits for it,   *)
(* and recovery finds every attempt that was under way.  Last, by counting *)
(* leases, the concurrency ceilings of the work graph.                     *)
(***************************************************************************)
EXTENDS EffectLedger, Sequences, WorkGraphProofs

USE EffectAssumption

-----------------------------------------------------------------------------
(* Every step of the ledger is a step of the work graph, or none. *)

LEMMA LedgerStepIsWorkGraphStep == [EffectNext]_allVars => [Next]_vars
  <1> SUFFICES ASSUME [EffectNext]_allVars PROVE [Next]_vars
    BY Zenon
  <1>1. ASSUME NEW w \in Workers, NEW r \in Runs, ClaimRun(w, r)
        PROVE  Next
    BY <1>1, Zenon DEF ClaimRun, Next
  <1>2. ASSUME NEW w \in Workers, NEW f \in held[w], EffectWorkerStep(w, f)
        PROVE  Next \/ UNCHANGED vars
    <2>1. CASE KeepLease(w, f) \/ RetryProvider(w, f) \/ Abandon(w, f)
      BY <2>1, Zenon DEF KeepLease, RetryProvider, Abandon, Next, WorkerStep
    <2>2. ASSUME NEW status \in Terminal, CompleteRun(w, f, status)
          PROVE  Next
      BY <2>2, Zenon DEF CompleteRun, Next, WorkerStep
    <2>3. ASSUME NEW c \in Delegates, Delegate(w, f, c) PROVE Next
      BY <2>3, Zenon DEF Delegate, Next, WorkerStep
    <2>4. ASSUME NEW e \in Effects,
                 ProposeEffect(w, f, e) \/ ParkUnknownEffect(w, f, e)
          PROVE  Next
      BY <2>4, Zenon DEF ProposeEffect, ParkUnknownEffect, Next, WorkerStep
    <2>5. ASSUME NEW e \in Effects,
                 \/ ContinueEffect(w, f, e)
                 \/ PrepareEffectAttempt(w, f, e)
                 \/ MarkEffectAttemptRunning(w, f, e)
                 \/ RecordEffectAttemptOutcome(w, f, e)
                 \/ RecordAgentEffectObservation(w, f, e)
          PROVE  UNCHANGED vars
      BY <2>5, Zenon DEF ContinueEffect, PrepareEffectAttempt,
                  MarkEffectAttemptRunning, RecordEffectAttemptOutcome,
                  RecordAgentEffectObservation
    <2> QED
      BY <1>2, <2>1, <2>2, <2>3, <2>4, <2>5, Zenon DEF EffectWorkerStep
  <1>3. ASSUME NEW e \in Effects,
               \/ \E w \in Workers : CheckApproval(w, e) \/ Execute(w, e)
               \/ ExpireApproval(e)
               \/ \E d \in {"approved", "denied"} : ResolveApproval(e, d)
               \/ \E o \in Reconciled : ReconcileEffectOutcome(e, o)
        PROVE  UNCHANGED vars
    BY <1>3, Zenon DEF CheckApproval, Execute, ExpireApproval, ResolveApproval,
                ReconcileEffectOutcome
  <1>4. ASSUME NEW e \in Effects, ResumeReadyEffectRun(e) PROVE Next
    <2>1. RunOf[e] \in Runs
      BY Zenon DEF Canonical
    <2> QED
      BY <1>4, <2>1, Zenon DEF ResumeReadyEffectRun, Next
  <1>5. ASSUME NEW r \in Runs, CancelTask(r) \/ PauseIdle(r) \/ Unpause(r)
        PROVE  Next
    BY <1>5, Zenon DEF CancelTask, PauseIdle, Unpause, Next, OwnerStep
  <1>6. ASSUME NEW r \in Runs, PauseRunning(r) PROVE Next
    <2>1. Parked(LeasesOn(r)) \in SUBSET {r}
      BY <1>6, Zenon DEF PauseRunning, PauseRunningTask, RecoverLeases, LeasesOn
    <2> HIDE DEF Parked
    <2>2. OwnerStep(r)
      BY <1>6, <2>1, Zenon DEF PauseRunning, OwnerStep
    <2> QED
      BY <2>2, Zenon DEF Next
  <1>7. ASSUME NEW s \in Sessions,
               \/ \E r \in Runs : PromoteNext(s, r)
               \/ InterruptBeforeClaim(s)
               \/ InterruptRunning(s)
        PROVE  Next
    BY <1>7, Zenon DEF Next
  <1>8. ASSUME NEW S \in SUBSET leases, ReapExpired(S) \/ RecoverAtStartup(S)
        PROVE  Next
    <2>1. Parked(S) \in SUBSET {l.run : l \in S}
      BY <1>8, Zenon DEF ReapExpired, RecoverAtStartup, RecoverExpiredLeases,
                  RecoverStartup, RecoverLeases
    <2>2. RecoveryStep(S, Parked(S))
      BY <1>8, Zenon DEF ReapExpired, RecoverAtStartup, RecoveryStep
    <2> QED
      BY <2>1, <2>2, Zenon DEF Next
  <1>9. CASE BecomeReady \/ CrashDaemon
    BY <1>9, Zenon DEF CrashDaemon, Next
  <1>10. CASE TimePasses
    BY <1>10, Zenon DEF TimePasses, Next
  <1>11. CASE UNCHANGED allVars
    BY <1>11, Zenon DEF allVars
  <1> QED
    BY <1>1, <1>2, <1>3, <1>4, <1>5, <1>6, <1>7, <1>8, <1>9, <1>10, <1>11, Zenon
    DEF EffectNext, EffectOwnerStep

\* The effect ledger adds tables to the work graph and changes none of its
\* behaviour, so every theorem about WorkGraph holds of the composition.
THEOREM LedgerImplementsWorkGraph == EffectSpec => Spec
  <1>1. EffectInit => Init
    BY Zenon DEF EffectInit
  <1> QED
    BY <1>1, LedgerStepIsWorkGraphStep, PTL DEF EffectSpec, Spec

-----------------------------------------------------------------------------
(***************************************************************************)
(* What a step can do to the ledger.  The invariants below speak of the    *)
(* variables in LedgerType only; a Quiet step leaves the rows alone and    *)
(* lets workers at most forget what they were doing.                       *)
(***************************************************************************)
LedgerType ==
    /\ effect \in [Effects -> EffectStatus]
    /\ approval \in [Effects -> ApprovalStatus]
    /\ attempt \in [Effects -> AttemptState]
    /\ doing \in [Workers -> Effects \cup {NoEffect}]
    /\ stage \in [Workers -> Stage]
    /\ executions \in [Effects -> Nat]

Quiet ==
    /\ UNCHANGED <<effect, approval, attempt, executions>>
    /\ doing' \in [Workers -> Effects \cup {NoEffect}]
    /\ stage' \in [Workers -> Stage]
    /\ \A w \in Workers :
        \/ doing'[w] = doing[w] /\ stage'[w] = stage[w]
        \/ doing'[w] = NoEffect /\ stage'[w] = "idle"

LedgerStep ==
    \/ Quiet
    \/ \E w \in Workers, e \in Effects : \E f \in held[w] :
        \/ ProposeEffect(w, f, e)
        \/ ContinueEffect(w, f, e)
        \/ PrepareEffectAttempt(w, f, e)
        \/ MarkEffectAttemptRunning(w, f, e)
        \/ RecordEffectAttemptOutcome(w, f, e)
    \/ \E w \in Workers, e \in Effects : CheckApproval(w, e) \/ Execute(w, e)
    \/ \E e \in Effects :
        \/ \E d \in {"approved", "denied"} : ResolveApproval(e, d)
        \/ ExpireApproval(e)
        \/ \E o \in Reconciled : ReconcileEffectOutcome(e, o)
    \/ \E r \in Runs : CancelTask(r)
    \/ \E S \in SUBSET leases : RecoverEffects(S)

LEMMA LedgerStepCases ==
    LedgerType /\ [EffectNext]_allVars => LedgerStep
  <1> SUFFICES ASSUME LedgerType, [EffectNext]_allVars PROVE LedgerStep
    BY Zenon
  <1> USE DEF LedgerType
  <1>1. ASSUME UNCHANGED <<effect, approval, attempt, executions, doing, stage>>
        PROVE  Quiet
    BY <1>1, Zenon DEF Quiet
  <1>2. ASSUME NEW w \in Workers, Forget(w),
               UNCHANGED <<effect, approval, attempt, executions>>
        PROVE  Quiet
    BY <1>2, Zenon DEF Quiet, Forget, Advance, Stage
  <1>3. ASSUME UNCHANGED effectVars PROVE Quiet
    BY <1>1, <1>3, Zenon DEF effectVars, ledgerVars, memoryVars
  <1>4. ASSUME NEW w \in Workers, NEW f \in held[w], EffectWorkerStep(w, f)
        PROVE  LedgerStep
    <2>1. CASE KeepLease(w, f) \/ RetryProvider(w, f)
                \/ \E c \in Delegates : Delegate(w, f, c)
      BY <1>3, <2>1, Zenon DEF KeepLease, RetryProvider, Delegate, LedgerStep
    <2>2. CASE \/ Abandon(w, f)
               \/ \E status \in Terminal : CompleteRun(w, f, status)
               \/ \E e \in Effects : ParkUnknownEffect(w, f, e)
      BY <1>2, <2>2, Zenon
         DEF Abandon, CompleteRun, ParkUnknownEffect, ledgerVars,
                        LedgerStep
    <2>3. ASSUME NEW e \in Effects, RecordAgentEffectObservation(w, f, e)
          PROVE  Quiet
      BY <1>1, <2>3, Zenon DEF RecordAgentEffectObservation, memoryVars
    <2> QED
      BY <1>4, <2>1, <2>2, <2>3, Zenon DEF EffectWorkerStep, LedgerStep
  <1>5. CASE EffectOwnerStep
    BY <1>3, <1>5, Zenon DEF EffectOwnerStep, PauseIdle, Unpause, PauseRunning,
                      LeasesOn, LedgerStep
  <1>6. CASE CrashDaemon
    BY <1>6, Zenon DEF CrashDaemon, ledgerVars, Quiet, Stage, LedgerStep
  <1>7. CASE TimePasses
    BY <1>1, <1>7, Zenon DEF TimePasses, memoryVars, LedgerStep
  <1>8. CASE UNCHANGED allVars
    BY <1>3, <1>8, Zenon DEF allVars, LedgerStep
  <1>9. CASE \/ \E w \in Workers : \E r \in Runs : ClaimRun(w, r)
             \/ BecomeReady /\ UNCHANGED effectVars
             \/ \E e \in Effects : ResumeReadyEffectRun(e)
    BY <1>3, <1>9, Zenon DEF ClaimRun, ResumeReadyEffectRun, LedgerStep
  <1>10. CASE \E S \in SUBSET leases : ReapExpired(S) \/ RecoverAtStartup(S)
    BY <1>10, Zenon DEF ReapExpired, RecoverAtStartup, LedgerStep
  <1>11. CASE \E w \in Workers, e \in Effects :
                CheckApproval(w, e) \/ Execute(w, e)
    BY <1>11, Zenon DEF LedgerStep
  <1>12. CASE \E e \in Effects : ExpireApproval(e)
    BY <1>12, Zenon DEF LedgerStep
  <1> QED
    BY <1>4, <1>5, <1>6, <1>7, <1>8, <1>9, <1>10, <1>11, <1>12, Zenon
       DEF EffectNext

-----------------------------------------------------------------------------
(***************************************************************************)
(* The inductive invariant.  RowsAgree ties the approval and the attempt   *)
(* to the effect; DrivenIsApproved says that a worker only ever drives an  *)
(* effect that was approved, however stale its view has become; Once says  *)
(* that an effect that may still be dispatched has not been carried out,   *)
(* nor is any stalled worker about to.                                     *)
(***************************************************************************)
Unapproved == {"none", "awaiting_approval", "denied"}

RowsAgree ==
    \A e \in Effects :
        /\ effect[e] \in Unapproved => attempt[e] = "none" /\ executions[e] = 0
        /\ effect[e] = "awaiting_approval" <=> approval[e] = "pending"
        /\ effect[e] \notin Unapproved => approval[e] = "approved"
        /\ effect[e] = "authorized" => attempt[e] \in
            {"none", "prepared", "interrupted_undispatched",
             "interrupted_retryable"}
        /\ effect[e] = "dispatching" <=> attempt[e] = "running"
        /\ effect[e] = "outcome_unknown" => attempt[e] = "outcome_unknown"
        /\ attempt[e] = "prepared" => effect[e] = "authorized"
        /\ attempt[e] = "outcome_unknown" =>
            effect[e] \in {"outcome_unknown", "succeeded", "failed"}

DrivenIsApproved ==
    \A w \in Workers : \A e \in Effects :
        doing[w] = e => effect[e] \notin Unapproved

Once ==
    \A e \in Effects \ Retryable :
        /\ executions[e] <= 1
        /\ effect[e] \in Unapproved \cup {"authorized"} => executions[e] = 0
        /\ \A w \in Workers : Working(w, e, "dispatched") =>
            effect[e] # "authorized" /\ executions[e] = 0
        /\ \A v, w \in Workers :
            Working(v, e, "dispatched") /\ Working(w, e, "dispatched") => v = w

LedgerInv == LedgerType /\ RowsAgree /\ DrivenIsApproved /\ Once

LEMMA LedgerInvInit == EffectInit => LedgerInv
  BY DEF EffectInit, LedgerInv, LedgerType, RowsAgree, DrivenIsApproved, Once,
         Working, Unapproved, EffectStatus, ApprovalStatus, AttemptState, Stage

LEMMA LedgerInvStep == LedgerInv /\ [EffectNext]_allVars => LedgerInv'
  <1> SUFFICES ASSUME LedgerInv, LedgerStep PROVE LedgerInv'
    BY LedgerStepCases, Zenon DEF LedgerInv
  <1> USE DEF LedgerInv
  <1>1. CASE Quiet
    <2>1. LedgerType' /\ RowsAgree' /\ DrivenIsApproved'
      BY <1>1 DEF Quiet, LedgerType, RowsAgree, DrivenIsApproved
    <2>2. Once'
      BY <1>1 DEF Quiet, LedgerType, Once, Working
    <2> QED
      BY <2>1, <2>2, Zenon
  <1>2. ASSUME NEW w \in Workers, NEW e \in Effects, NEW f \in held[w],
               ProposeEffect(w, f, e)
        PROVE  LedgerInv'
    <2> USE <1>2 DEF ProposeEffect, memoryVars
    <2>1. LedgerType' /\ RowsAgree' /\ DrivenIsApproved'
      BY DEF LedgerType, RowsAgree, DrivenIsApproved, Unapproved, EffectStatus,
             ApprovalStatus
    <2>2. Once'
      BY DEF LedgerType, Once, Working, Unapproved
    <2> QED
      BY <2>1, <2>2, Zenon
  <1>3. ASSUME NEW w \in Workers, NEW e \in Effects, NEW f \in held[w],
               ContinueEffect(w, f, e)
        PROVE  LedgerInv'
    <2> USE <1>3 DEF ContinueEffect, ledgerVars, Advance
    <2>1. LedgerType' /\ RowsAgree' /\ DrivenIsApproved'
      BY DEF LedgerType, RowsAgree, DrivenIsApproved, Unapproved, Stage
    <2>2. Once'
      BY DEF LedgerType, Once, Working
    <2> QED
      BY <2>1, <2>2, Zenon
  <1>4. ASSUME NEW w \in Workers, NEW e \in Effects, NEW f \in held[w],
               PrepareEffectAttempt(w, f, e)
        PROVE  LedgerInv'
    <2> USE <1>4 DEF PrepareEffectAttempt, Advance
    <2>1. LedgerType' /\ RowsAgree' /\ DrivenIsApproved'
      BY DEF LedgerType, RowsAgree, DrivenIsApproved, Unapproved, Unsettled,
             AttemptState, Stage
    <2>2. Once'
      BY DEF LedgerType, Once, Working
    <2> QED
      BY <2>1, <2>2, Zenon
  <1>5. ASSUME NEW w \in Workers, NEW e \in Effects, NEW f \in held[w],
               MarkEffectAttemptRunning(w, f, e)
        PROVE  LedgerInv'
    <2> USE <1>5 DEF MarkEffectAttemptRunning, AttemptHeld, Advance
    <2>1. LedgerType' /\ RowsAgree' /\ DrivenIsApproved'
      BY DEF LedgerType, RowsAgree, DrivenIsApproved, Unapproved, EffectStatus,
             AttemptState, Stage
    <2>2. Once'
      BY DEF LedgerType, Once, Working, Unapproved
    <2> QED
      BY <2>1, <2>2, Zenon
  <1>6. ASSUME NEW w \in Workers, NEW e \in Effects, NEW f \in held[w],
               RecordEffectAttemptOutcome(w, f, e)
        PROVE  LedgerInv'
    <2> USE <1>6 DEF RecordEffectAttemptOutcome, AttemptHeld, OutcomeOf, Advance,
                     Forget
    <2>1. LedgerType' /\ RowsAgree' /\ DrivenIsApproved'
      BY DEF LedgerType, RowsAgree, DrivenIsApproved, Unapproved, EffectStatus,
             Settled, Reconciled, AttemptState, Stage
    <2>2. Once'
      BY DEF LedgerType, Once, Working, Unapproved
    <2> QED
      BY <2>1, <2>2, Zenon
  <1>7. ASSUME NEW w \in Workers, NEW e \in Effects, CheckApproval(w, e)
        PROVE  LedgerInv'
    <2> USE <1>7 DEF CheckApproval, ledgerVars, Advance
    <2>1. LedgerType' /\ RowsAgree' /\ DrivenIsApproved'
      BY DEF LedgerType, RowsAgree, DrivenIsApproved, Working, Stage
    <2>2. Once'
      BY DEF LedgerType, Once, Working
    <2> QED
      BY <2>1, <2>2, Zenon
  <1>8. ASSUME NEW w \in Workers, NEW e \in Effects, Execute(w, e)
        PROVE  LedgerInv'
    <2> USE <1>8 DEF Execute, ledgerVars, Advance
    <2>1. LedgerType' /\ RowsAgree' /\ DrivenIsApproved'
      BY DEF LedgerType, RowsAgree, DrivenIsApproved, Working, Stage
    <2>2. Once'
      BY DEF LedgerType, RowsAgree, DrivenIsApproved, Once, Working, Unapproved
    <2> QED
      BY <2>1, <2>2, Zenon
  <1>9. ASSUME NEW e \in Effects,
               \/ \E d \in {"approved", "denied"} : ResolveApproval(e, d)
               \/ ExpireApproval(e)
               \/ \E o \in Reconciled : ReconcileEffectOutcome(e, o)
        PROVE  LedgerInv'
    <2> USE <1>9 DEF ResolveApproval, ExpireApproval, ReconcileEffectOutcome,
                     AfterDecision, Settled, Reconciled, memoryVars
    <2>1. LedgerType' /\ RowsAgree' /\ DrivenIsApproved'
      BY DEF LedgerType, RowsAgree, DrivenIsApproved, Unapproved, EffectStatus,
             ApprovalStatus
    <2>2. Once'
      BY DEF LedgerType, DrivenIsApproved, Once, Working, Unapproved
    <2> QED
      BY <2>1, <2>2, Zenon
  <1>10. ASSUME NEW r \in Runs, CancelTask(r) PROVE LedgerInv'
    <2> USE <1>10 DEF CancelTask, RevokedBy, Undispatched, DenialAllowed,
                      memoryVars
    <2>1. LedgerType' /\ RowsAgree' /\ DrivenIsApproved'
      BY Zenon
         DEF LedgerType, RowsAgree, DrivenIsApproved, Unapproved, EffectStatus,
             Settled, Reconciled, ApprovalStatus
    <2>2. Once'
      BY DEF LedgerType, DrivenIsApproved, Once, Working, Unapproved
    <2> QED
      BY <2>1, <2>2, Zenon
  <1>11. ASSUME NEW S \in SUBSET leases, RecoverEffects(S) PROVE LedgerInv'
    <2> USE <1>11 DEF RecoverEffects, AttemptAfterRecovery, EffectAfterRecovery,
                      Interrupted, RecoveryCandidate, Retries, memoryVars
    <2>1. LedgerType' /\ RowsAgree' /\ DrivenIsApproved'
      BY DEF LedgerType, RowsAgree, DrivenIsApproved, Unapproved, EffectStatus,
             AttemptState
    <2>2. Once'
      BY DEF LedgerType, RowsAgree, Once, Working, Unapproved
    <2> QED
      BY <2>1, <2>2, Zenon
  <1> HIDE DEF LedgerInv
  <1> QED
    BY <1>1, <1>2, <1>3, <1>4, <1>5, <1>6, <1>7, <1>8, <1>9, <1>10, <1>11, Zenon
    DEF LedgerStep

LEMMA LedgerInvariant == EffectSpec => []LedgerInv
  BY LedgerInvInit, LedgerInvStep, PTL DEF EffectSpec

-----------------------------------------------------------------------------
(* Theorems. *)

\* No effect without the strategy Retry is carried out twice, for any number
\* of workers, crashes, recoveries and stalled sandbox calls.
THEOREM ExecutionSafety == EffectSpec => []AtMostOnce
  <1>1. LedgerInv => AtMostOnce
    BY Zenon DEF LedgerInv, Once, AtMostOnce
  <1> QED
    BY <1>1, LedgerInvariant, PTL

\* Whatever is dispatched was approved, and what was denied was never tried.
THEOREM ApprovalSafety == EffectSpec => []DispatchWasApproved
  <1>1. LedgerInv => DispatchWasApproved
    BY DEF LedgerInv, LedgerType, RowsAgree, DispatchWasApproved, Unapproved
  <1> QED
    BY <1>1, LedgerInvariant, PTL

\* The effect row and the row of its latest attempt always agree.
THEOREM AttemptSafety == EffectSpec => []EffectAttemptAgree
  <1>1. LedgerInv => EffectAttemptAgree
    BY Zenon DEF LedgerInv, RowsAgree, EffectAttemptAgree, Reconciled
  <1> QED
    BY <1>1, LedgerInvariant, PTL

\* A change of one effect that is neither settled nor of unknown outcome.
LEMMA OneUnsettled ==
  ASSUME LedgerType, NEW e \in Effects, NEW b,
         effect' = [effect EXCEPT ![e] = b],
         effect[e] \notin Settled, effect[e] # "outcome_unknown"
  PROVE  SettlesOnce
  <1> SUFFICES ASSUME NEW x \in Effects, x # e PROVE effect'[x] = effect[x]
    BY Zenon DEF SettlesOnce
  <1> QED
    BY Zenon DEF LedgerType

LEMMA LedgerSettlesOnce == LedgerInv /\ LedgerStep => SettlesOnce
  <1> SUFFICES ASSUME LedgerInv, LedgerStep PROVE SettlesOnce
    BY Zenon
  <1>t. LedgerType
    BY Zenon DEF LedgerInv
  <1>u. UNCHANGED effect => SettlesOnce
    BY Zenon DEF SettlesOnce
  <1>1. CASE Quiet
    BY <1>1, <1>u, Zenon DEF Quiet
  <1>2. ASSUME NEW w \in Workers, NEW e \in Effects, NEW f \in held[w],
               \/ ProposeEffect(w, f, e)
               \/ ContinueEffect(w, f, e)
               \/ PrepareEffectAttempt(w, f, e)
               \/ MarkEffectAttemptRunning(w, f, e)
               \/ RecordEffectAttemptOutcome(w, f, e)
        PROVE  SettlesOnce
    <2>1. CASE ContinueEffect(w, f, e) \/ PrepareEffectAttempt(w, f, e)
      BY <2>1, <1>u, Zenon DEF ContinueEffect, PrepareEffectAttempt, ledgerVars
    <2>2. ASSUME \/ ProposeEffect(w, f, e)
                 \/ MarkEffectAttemptRunning(w, f, e)
                 \/ RecordEffectAttemptOutcome(w, f, e)
          PROVE  /\ effect[e] \in {"none", "authorized", "dispatching"}
                 /\ \E b : effect' = [effect EXCEPT ![e] = b]
      BY <2>2, Zenon DEF ProposeEffect, MarkEffectAttemptRunning,
                  RecordEffectAttemptOutcome
    <2>3. effect[e] \in {"none", "authorized", "dispatching"}
          => effect[e] \notin Settled /\ effect[e] # "outcome_unknown"
      BY Zenon DEF Settled
    <2> QED
      BY <1>2, <1>t, <2>1, <2>2, <2>3, OneUnsettled, Zenon
  <1>3. ASSUME NEW w \in Workers, NEW e \in Effects,
               CheckApproval(w, e) \/ Execute(w, e)
        PROVE  SettlesOnce
    BY <1>3, <1>u, Zenon DEF CheckApproval, Execute, ledgerVars
  <1> USE DEF LedgerInv, LedgerType, SettlesOnce, Settled, Reconciled
  <1>4. ASSUME NEW e \in Effects,
               \/ \E d \in {"approved", "denied"} : ResolveApproval(e, d)
               \/ ExpireApproval(e)
               \/ \E o \in Reconciled : ReconcileEffectOutcome(e, o)
        PROVE  SettlesOnce
    BY <1>4, Zenon DEF ResolveApproval, ExpireApproval, ReconcileEffectOutcome
  <1>5. ASSUME NEW r \in Runs, CancelTask(r) PROVE SettlesOnce
    BY <1>5, Zenon DEF CancelTask, RevokedBy, Undispatched
  <1>6. ASSUME NEW S \in SUBSET leases, RecoverEffects(S) PROVE SettlesOnce
    BY <1>6, Zenon DEF RecoverEffects, EffectAfterRecovery, Interrupted,
                RecoveryCandidate, Retries
  <1> HIDE DEF LedgerInv, LedgerType, SettlesOnce, Settled, Reconciled
  <1> QED
    BY <1>1, <1>2, <1>3, <1>4, <1>5, <1>6, Zenon DEF LedgerStep

\* A settled effect is final, and an unknown outcome is only ever reconciled.
THEOREM SettlementIsFinal == EffectSpec => EffectSettlesOnce
  <1>1. LedgerInv /\ [EffectNext]_allVars => [SettlesOnce]_allVars
    BY LedgerStepCases, LedgerSettlesOnce, Zenon DEF LedgerInv
  <1> QED
    BY <1>1, LedgerInvariant, PTL DEF EffectSpec, EffectSettlesOnce

\* The edges along which the ledger moves an effect that is not retried.
Edge(a, b) ==
    \/ a = b
    \/ a = "none" /\ b = "awaiting_approval"
    \/ a = "awaiting_approval" /\ b \in {"authorized", "denied"}
    \/ a = "authorized" /\ b = "dispatching"
    \/ a = "dispatching" /\ b \in {"succeeded", "failed", "outcome_unknown"}
    \/ a = "outcome_unknown" /\ b \in {"succeeded", "failed"}

FollowsEdges == \A e \in Effects \ Retryable : Edge(effect[e], effect'[e])

\* A change of one effect along an edge, and a step that changes none.
LEMMA OneEdge ==
  ASSUME LedgerType, NEW e \in Effects, NEW b,
         effect' = [effect EXCEPT ![e] = b], Edge(effect[e], b)
  PROVE  FollowsEdges
  <1> SUFFICES ASSUME NEW x \in Effects PROVE Edge(effect[x], effect'[x])
    BY Zenon DEF FollowsEdges
  <1>1. CASE x = e
    BY <1>1, Zenon DEF LedgerType
  <1>2. CASE x # e
    <2>1. effect'[x] = effect[x]
      BY <1>2, Zenon DEF LedgerType
    <2> QED
      BY <2>1, Zenon DEF Edge
  <1> QED
    BY <1>1, <1>2, Zenon

LEMMA NoEdge == UNCHANGED effect => FollowsEdges
  BY Zenon DEF FollowsEdges, Edge

LEMMA LedgerFollowsEdges == LedgerInv /\ LedgerStep => FollowsEdges
  <1> SUFFICES ASSUME LedgerInv, LedgerStep PROVE FollowsEdges
    BY Zenon
  <1>t. LedgerType
    BY Zenon DEF LedgerInv
  <1>1. CASE Quiet
    BY <1>1, NoEdge, Zenon DEF Quiet
  <1>2. ASSUME NEW w \in Workers, NEW e \in Effects, NEW f \in held[w],
               \/ ProposeEffect(w, f, e)
               \/ ContinueEffect(w, f, e)
               \/ PrepareEffectAttempt(w, f, e)
               \/ MarkEffectAttemptRunning(w, f, e)
               \/ RecordEffectAttemptOutcome(w, f, e)
        PROVE  FollowsEdges
    <2>1. CASE ProposeEffect(w, f, e)
      <3>1. effect[e] = "none" /\ effect' = [effect EXCEPT ![e] = "awaiting_approval"]
        BY <2>1, Zenon DEF ProposeEffect
      <3> QED
        BY <1>t, <3>1, OneEdge, Zenon DEF Edge
    <2>2. CASE ContinueEffect(w, f, e) \/ PrepareEffectAttempt(w, f, e)
      BY <2>2, NoEdge, Zenon
         DEF ContinueEffect, PrepareEffectAttempt, ledgerVars
    <2>3. CASE MarkEffectAttemptRunning(w, f, e)
      <3>1. effect[e] = "authorized" /\ effect' = [effect EXCEPT ![e] = "dispatching"]
        BY <2>3, Zenon DEF MarkEffectAttemptRunning
      <3> QED
        BY <1>t, <3>1, OneEdge, Zenon DEF Edge
    <2>4. CASE RecordEffectAttemptOutcome(w, f, e)
      <3>1. PICK o \in {"succeeded", "failed", "outcome_unknown"} :
              effect[e] = "dispatching" /\ effect' = [effect EXCEPT ![e] = o]
        BY <2>4, Zenon DEF RecordEffectAttemptOutcome, OutcomeOf
      <3> QED
        BY <1>t, <3>1, OneEdge, Zenon DEF Edge
    <2> QED
      BY <1>2, <2>1, <2>2, <2>3, <2>4, Zenon
  <1>3. ASSUME NEW w \in Workers, NEW e \in Effects,
               CheckApproval(w, e) \/ Execute(w, e)
        PROVE  FollowsEdges
    BY <1>3, NoEdge, Zenon DEF CheckApproval, Execute, ledgerVars
  <1> USE DEF LedgerInv, LedgerType, FollowsEdges, Edge
  <1>4. ASSUME NEW e \in Effects,
               \/ \E d \in {"approved", "denied"} : ResolveApproval(e, d)
               \/ ExpireApproval(e)
               \/ \E o \in Reconciled : ReconcileEffectOutcome(e, o)
        PROVE  FollowsEdges
    BY <1>4, SMTT(20) DEF ResolveApproval, ExpireApproval, AfterDecision,
                          ReconcileEffectOutcome, Reconciled
  <1>5. ASSUME NEW r \in Runs, CancelTask(r) PROVE FollowsEdges
    BY <1>5, SMTT(20) DEF CancelTask, RevokedBy, Undispatched, DenialAllowed
  <1>6. ASSUME NEW S \in SUBSET leases, RecoverEffects(S) PROVE FollowsEdges
    BY <1>6, SMTT(20) DEF RecoverEffects, EffectAfterRecovery, Interrupted,
                          RecoveryCandidate, Retries, RowsAgree
  <1> HIDE DEF LedgerInv, LedgerType, FollowsEdges, Edge
  <1> QED
    BY <1>1, <1>2, <1>3, <1>4, <1>5, <1>6, Zenon DEF LedgerStep

\* For every effect that is not retried the ledger implements the lifecycle
\* that the domain crate's EffectState defines.
THEOREM LedgerImplementsLifecycle == EffectSpec => ImplementsEffectLifecycle
  <1>1. EffectInit => Contract!Init
    BY DEF EffectInit, Contract!Init
  <1>2. FollowsEdges => Contract!Next
    BY SMTT(20)
    DEF FollowsEdges, Edge, Contract!Next, Contract!Move,
        Contract!request_approval, Contract!authorize, Contract!deny,
        Contract!begin_dispatch, Contract!succeed, Contract!fail,
        Contract!mark_unknown, Contract!compensate
  <1>3. LedgerInv /\ [EffectNext]_allVars => Contract!Next
    BY <1>2, LedgerStepCases, LedgerFollowsEdges, Zenon DEF LedgerInv
  <1> QED
    BY <1>1, <1>3, LedgerInvariant, PTL
    DEF EffectSpec, ImplementsEffectLifecycle, Contract!Spec

-----------------------------------------------------------------------------
(* The cardinality of a singleton, from the definition. *)
LEMMA CardOne ==
  ASSUME NEW a
  PROVE  Cardinality({a}) = 1
  <1> DEFINE Def(f, S) == f = [T \in SUBSET S |-> IF T = {} THEN 0
                               ELSE 1 + f[T \ {CHOOSE x : x \in T}]]
             g == [T \in SUBSET {a} |-> IF T = {} THEN 0 ELSE 1]
             h == CHOOSE f : Def(f, {a})
  <1>1. (CHOOSE x : x \in {a}) = a
    BY Zenon
  <1>2. SUBSET {a} = {{}, {a}}
    OBVIOUS
  <1>3. {a} \ {a} = {}
    OBVIOUS
  <1>4. Cardinality({a}) = h[{a}]
    BY DEF Cardinality
  <1>5. Def(g, {a})
    <2>1. \A T \in SUBSET {a} :
             g[T] = IF T = {} THEN 0 ELSE 1 + g[T \ {CHOOSE x : x \in T}]
      BY <1>1, <1>2, <1>3
    <2> QED
      BY <2>1
  <1>6. Def(h, {a})
    <2> HIDE DEF Def, g
    <2> QED
      BY <1>5, Zenon
  <1>7. h[{}] = 0
    BY <1>6
  <1>8. h[{a}] = 1 + h[{a} \ {CHOOSE x : x \in {a}}]
    <2> HIDE DEF h
    <2>1. {a} # {} /\ {a} \in SUBSET {a}
      OBVIOUS
    <2> QED
      BY <1>6, <2>1, Zenon
  <1> HIDE DEF h
  <1>9. h[{a}] = 1 + h[{}]
    BY <1>1, <1>8, <1>3, Zenon
  <1> QED
    BY <1>4, <1>7, <1>9

-----------------------------------------------------------------------------
(* The inductive invariant. *)

\* An effect is open from its proposal to its observation.
Open(e) == effect[e] # "none" /\ ~ observed[e]

LinkType ==
    /\ approvalTtl \in [Effects -> 0..ApprovalTtl]
    /\ attemptToken \in [Effects -> Nat]
    /\ observed \in [Effects -> BOOLEAN]

ObservedIsSettled == \A e \in Effects : observed[e] => effect[e] \in Settled

OneOpen ==
    \A e, x \in Effects : Open(e) /\ Open(x) /\ RunOf[e] = RunOf[x] => e = x

\* DispatchIsLeased, effect by effect.
Leased(e) == \E l \in leases : l.run = RunOf[e] /\ l.token = attemptToken[e]
DispatchLeased(e) ==
    attempt[e] \in {"prepared", "running"} /\ run[RunOf[e]] \notin Terminal
        => Leased(e)

\* WaitingIsExplained, run by run and without its cardinality.
WaitExplained(r) ==
    run[r] = "waiting" =>
        IF ActiveChildren(r) = {}
        THEN \E e \in Effects : RunOf[e] = r /\ Open(e) /\ effect[e] # "dispatching"
        ELSE \A e \in Effects : RunOf[e] = r => ~ Open(e)

PendingAwaited(e) ==
    approval[e] = "pending" => run[RunOf[e]] = "waiting" /\ ~ cancel[RunOf[e]]

LinkInv ==
    /\ LinkType
    /\ ObservedIsSettled
    /\ OneOpen
    /\ \A e \in Effects : DispatchLeased(e) /\ PendingAwaited(e)
    /\ \A r \in Canonical : WaitExplained(r)

-----------------------------------------------------------------------------
(***************************************************************************)
(* What a step of the ledger may do to an effect without consequence for   *)
(* its run: it does not open or close it, dispatches it only for a worker  *)
(* with a lease and while the run executes, and asks for no approval.      *)
(***************************************************************************)
KeepsEffect(e) ==
    /\ Open(e)' <=> Open(e)
    /\ effect'[e] = "dispatching" =>
            effect[e] = "dispatching" \/ run[RunOf[e]] # "waiting"
    /\ attempt'[e] \in {"prepared", "running"} =>
        \/ attempt[e] \in {"prepared", "running"}
            /\ attemptToken'[e] = attemptToken[e]
        \/ \E l \in leases : l.run = RunOf[e] /\ l.token = attemptToken'[e]
    /\ approval'[e] = "pending" => approval[e] = "pending"

KeepsEffects == \A e \in Effects : KeepsEffect(e)

LEMMA DispatchKept ==
    ASSUME NEW e \in Effects, KeepsEffect(e), KeepsLeases(RunOf[e]),
           DispatchLeased(e)
    PROVE  DispatchLeased(e)'
  <1> SUFFICES ASSUME attempt'[e] \in {"prepared", "running"},
                      run'[RunOf[e]] \notin Terminal
               PROVE  Leased(e)'
    BY Zenon DEF DispatchLeased
  <1>1. run[RunOf[e]] \notin Terminal
    BY Zenon DEF KeepsLeases
  <1>2. PICK l \in leases : l.run = RunOf[e] /\ l.token = attemptToken'[e]
    BY <1>1, Zenon DEF KeepsEffect, DispatchLeased, Leased
  <1>3. \E m \in leases' : m.run = RunOf[e] /\ m.token = l.token
    BY <1>2, Zenon DEF KeepsLeases
  <1> QED
    BY <1>2, <1>3, Zenon DEF Leased

LEMMA WaitKept ==
    ASSUME NEW r \in Canonical, KeepsWait(r), WaitExplained(r),
           \A e \in Effects : RunOf[e] = r => KeepsEffect(e)
    PROVE  WaitExplained(r)'
  <1> SUFFICES ASSUME run'[r] = "waiting"
               PROVE  IF ActiveChildren(r)' = {}
                      THEN \E e \in Effects : /\ RunOf[e] = r /\ Open(e)'
                                              /\ effect'[e] # "dispatching"
                      ELSE \A e \in Effects : RunOf[e] = r => ~ Open(e)'
    BY Zenon DEF WaitExplained
  <1>1. run[r] = "waiting" /\ (ActiveChildren(r)' = {} <=> ActiveChildren(r) = {})
    BY Zenon DEF KeepsWait
  <1>2. CASE ActiveChildren(r) = {}
    <2>1. PICK e \in Effects : /\ RunOf[e] = r /\ Open(e)
                              /\ effect[e] # "dispatching"
      BY <1>1, <1>2, Zenon DEF WaitExplained
    <2>2. Open(e)' /\ effect'[e] # "dispatching"
      BY <1>1, <2>1, Zenon DEF KeepsEffect
    <2> QED
      BY <1>1, <1>2, <2>1, <2>2, Zenon
  <1>3. CASE ActiveChildren(r) # {}
    <2>1. \A e \in Effects : RunOf[e] = r => ~ Open(e)
      BY <1>1, <1>3, Zenon DEF WaitExplained
    <2>2. \A e \in Effects : RunOf[e] = r => ~ Open(e)'
      BY <2>1, Zenon DEF KeepsEffect
    <2> QED
      BY <1>1, <1>3, <2>2, Zenon
  <1> QED
    BY <1>2, <1>3, Zenon

LEMMA PendingKept ==
    ASSUME NEW e \in Effects, KeepsEffect(e), KeepsPending(RunOf[e]),
           PendingAwaited(e)
    PROVE  PendingAwaited(e)'
  BY Zenon DEF KeepsEffect, KeepsPending, PendingAwaited

LEMMA OpenKept ==
    ASSUME OneOpen, \A e \in Effects : Open(e)' => Open(e)
    PROVE  OneOpen'
  BY Zenon DEF OneOpen

\* A step with consequences for the effects of one run, r, at most.
LEMMA LinkKeptBut ==
    ASSUME LinkInv, NEW r,
           LinkType', ObservedIsSettled', OneOpen',
           \A x \in Canonical : x # r => KeepsRun(x),
           \A e \in Effects : RunOf[e] # r => KeepsEffect(e),
           r \in Canonical => WaitExplained(r)',
           \A e \in Effects : RunOf[e] = r =>
                DispatchLeased(e)' /\ PendingAwaited(e)'
    PROVE  LinkInv'
  <1>1. ASSUME NEW e \in Effects PROVE DispatchLeased(e)' /\ PendingAwaited(e)'
    <2>1. CASE RunOf[e] = r
      BY <2>1, Zenon
    <2>2. CASE RunOf[e] # r
      <3>1. /\ KeepsEffect(e) /\ KeepsLeases(RunOf[e]) /\ KeepsPending(RunOf[e])
            /\ DispatchLeased(e) /\ PendingAwaited(e)
        BY <2>2, Zenon DEF KeepsRun, LinkInv
      <3> QED
        BY <3>1, DispatchKept, PendingKept, Zenon
    <2> QED
      BY <2>1, <2>2, Zenon
  <1>2. ASSUME NEW x \in Canonical PROVE WaitExplained(x)'
    <2>1. CASE x = r
      BY <2>1, Zenon
    <2>2. CASE x # r
      <3>1. /\ KeepsWait(x) /\ WaitExplained(x)
            /\ \A e \in Effects : RunOf[e] = x => KeepsEffect(e)
        BY <2>2, Zenon DEF KeepsRun, LinkInv
      <3> QED
        BY <3>1, WaitKept, Zenon
    <2> QED
      BY <2>1, <2>2, Zenon
  <1> QED
    BY <1>1, <1>2, Zenon DEF LinkInv

LEMMA LinkKept ==
    ASSUME LinkInv, KeepsRuns, KeepsEffects, LinkType', ObservedIsSettled'
    PROVE  LinkInv'
  <1>1. OneOpen'
    BY OpenKept, Zenon DEF KeepsEffects, KeepsEffect, LinkInv
  <1>2. ASSUME NEW e \in Effects PROVE DispatchLeased(e)' /\ PendingAwaited(e)'
    <2>1. /\ KeepsEffect(e) /\ KeepsLeases(RunOf[e]) /\ KeepsPending(RunOf[e])
          /\ DispatchLeased(e) /\ PendingAwaited(e)
      BY Zenon DEF KeepsEffects, KeepsRuns, KeepsRun, LinkInv
    <2> QED
      BY <2>1, DispatchKept, PendingKept, Zenon
  <1>3. ASSUME NEW r \in Canonical PROVE WaitExplained(r)'
    <2>1. /\ KeepsWait(r) /\ WaitExplained(r)
          /\ \A e \in Effects : RunOf[e] = r => KeepsEffect(e)
      BY Zenon DEF KeepsEffects, KeepsRuns, KeepsRun, LinkInv
    <2> QED
      BY <2>1, WaitKept, Zenon
  <1> QED
    BY <1>1, <1>2, <1>3, Zenon DEF LinkInv

-----------------------------------------------------------------------------
(* The types, and the effects under each kind of step. *)

LEMMA LinkInit == EffectInit => LinkInv
  <1> SUFFICES ASSUME EffectInit PROVE LinkInv
    BY Zenon
  <1>1. LinkType /\ ObservedIsSettled
    BY DEF EffectInit, LinkType, ObservedIsSettled
  <1>2. OneOpen /\ \A e \in Effects : DispatchLeased(e) /\ PendingAwaited(e)
    BY Zenon DEF EffectInit, OneOpen, Open, DispatchLeased, PendingAwaited
  <1>3. \A r \in Canonical : WaitExplained(r)
    BY Zenon DEF EffectInit, Init, Canonical, WaitExplained
  <1> QED
    BY <1>1, <1>2, <1>3, Zenon DEF LinkInv

\* The steps that change what LinkType speaks of.
LinkVars == <<approvalTtl, attemptToken, observed>>
LinkChange(w, f, e) ==
    \/ ProposeEffect(w, f, e)
    \/ PrepareEffectAttempt(w, f, e)
    \/ RecordAgentEffectObservation(w, f, e)

LEMMA LinkVarsChange ==
    [EffectNext]_allVars =>
        \/ UNCHANGED LinkVars \/ TimePasses
        \/ \E w \in Workers, e \in Effects : \E f \in held[w] : LinkChange(w, f, e)
  <1> SUFFICES ASSUME [EffectNext]_allVars, ~ TimePasses,
                      \A w \in Workers, e \in Effects : \A f \in held[w] :
                            ~ LinkChange(w, f, e)
               PROVE  UNCHANGED LinkVars
    BY Zenon
  <1>1. UNCHANGED effectVars \/ UNCHANGED ledgerVars => UNCHANGED LinkVars
    BY Zenon DEF effectVars, ledgerVars, LinkVars
  <1>2. ASSUME NEW w \in Workers, NEW f \in held[w], EffectWorkerStep(w, f)
        PROVE  UNCHANGED LinkVars
    <2>1. CASE \/ KeepLease(w, f) \/ RetryProvider(w, f) \/ Abandon(w, f)
               \/ \E status \in Terminal : CompleteRun(w, f, status)
               \/ \E c \in Delegates : Delegate(w, f, c)
      BY <1>1, <2>1, Zenon
         DEF KeepLease, RetryProvider, Abandon, CompleteRun, Delegate
    <2>2. ASSUME NEW e \in Effects,
                 \/ ContinueEffect(w, f, e)
                 \/ MarkEffectAttemptRunning(w, f, e)
                 \/ RecordEffectAttemptOutcome(w, f, e)
                 \/ ParkUnknownEffect(w, f, e)
          PROVE  UNCHANGED LinkVars
      BY <1>1, <2>2, Zenon DEF ContinueEffect, MarkEffectAttemptRunning,
                        RecordEffectAttemptOutcome, ParkUnknownEffect, LinkVars
    <2> QED
      BY <1>2, <2>1, <2>2, Zenon DEF EffectWorkerStep, LinkChange
  <1>3. CASE EffectOwnerStep
    BY <1>1, <1>3, Zenon
       DEF EffectOwnerStep, ResolveApproval, ReconcileEffectOutcome,
                      CancelTask, PauseIdle, PauseRunning, RecoverEffects, Unpause,
                      LinkVars
  <1>4. CASE \E w \in Workers, e \in Effects : CheckApproval(w, e) \/ Execute(w, e)
    BY <1>1, <1>4, Zenon DEF CheckApproval, Execute
  <1>5. CASE \/ \E e \in Effects : ExpireApproval(e) \/ ResumeReadyEffectRun(e)
             \/ \E w \in Workers : \E r \in Runs : ClaimRun(w, r)
             \/ \E S \in SUBSET leases : ReapExpired(S) \/ RecoverAtStartup(S)
    BY <1>1, <1>5, Zenon
       DEF ExpireApproval, ResumeReadyEffectRun, ClaimRun, ReapExpired,
                      RecoverAtStartup, RecoverEffects, LinkVars
  <1>6. CASE (BecomeReady /\ UNCHANGED effectVars) \/ CrashDaemon
    BY <1>1, <1>6, Zenon DEF CrashDaemon
  <1>7. CASE UNCHANGED allVars
    BY <1>1, <1>7, Zenon DEF allVars
  <1> QED
    BY <1>2, <1>3, <1>4, <1>5, <1>6, <1>7, Zenon DEF EffectNext

LEMMA LinkTypeStep ==
    ASSUME TypeOK, LedgerInv, LinkInv, [EffectNext]_allVars
    PROVE  LinkType' /\ ObservedIsSettled'
  <1>1. SettlesOnce
    BY LedgerStepCases, LedgerSettlesOnce, Zenon DEF LedgerInv, SettlesOnce
  <1>2. LinkType /\ ObservedIsSettled
    BY Zenon DEF LinkInv
  <1>3. observed' = observed => ObservedIsSettled'
    BY <1>1, <1>2, Zenon DEF SettlesOnce, ObservedIsSettled
  <1>4. CASE UNCHANGED LinkVars
    BY <1>2, <1>3, <1>4, Zenon DEF LinkVars, LinkType
  <1>5. CASE TimePasses
    <2>1. /\ UNCHANGED <<attemptToken, observed>>
          /\ approvalTtl' = [e \in Effects |-> Less(approvalTtl[e])]
      BY <1>5, Zenon DEF TimePasses
    <2>2. \A n \in 0..ApprovalTtl : Less(n) \in 0..ApprovalTtl
      BY DEF Less
    <2> QED
      BY <1>2, <1>3, <2>1, <2>2, Zenon DEF LinkType
  <1>6. ASSUME NEW w \in Workers, NEW e \in Effects, NEW f \in held[w],
               LinkChange(w, f, e)
        PROVE  LinkType' /\ ObservedIsSettled'
    <2>1. CASE ProposeEffect(w, f, e)
      <3>1. /\ UNCHANGED <<attemptToken, observed>>
            /\ approvalTtl' = [approvalTtl EXCEPT ![e] = ApprovalTtl]
        BY <2>1, Zenon DEF ProposeEffect
      <3> QED
        BY <1>2, <1>3, <3>1 DEF LinkType
    <2>2. CASE PrepareEffectAttempt(w, f, e)
      <3>1. /\ UNCHANGED <<approvalTtl, observed>>
            /\ attemptToken' = [attemptToken EXCEPT ![e] = f.token]
        BY <2>2, Zenon DEF PrepareEffectAttempt
      <3>2. f.token \in Nat
        BY DEF TypeOK, Fence
      <3> QED
        BY <1>2, <1>3, <3>1, <3>2, Zenon DEF LinkType
    <2>3. CASE RecordAgentEffectObservation(w, f, e)
      <3>1. /\ UNCHANGED <<approvalTtl, attemptToken, effect>>
            /\ observed' = [observed EXCEPT ![e] = TRUE]
            /\ effect[e] \in Settled
        BY <2>3, Zenon DEF RecordAgentEffectObservation
      <3> QED
        BY <1>2, <3>1, Zenon DEF ObservedIsSettled, LinkType
    <2> QED
      BY <1>6, <2>1, <2>2, <2>3, Zenon DEF LinkChange
  <1> QED
    BY <1>4, <1>5, <1>6, LinkVarsChange, Zenon

\* Which effects a step of the ledger may concern.
LEMMA UnchangedKeepsEffects == UNCHANGED ledgerVars => KeepsEffects
  BY Zenon DEF ledgerVars, KeepsEffects, KeepsEffect, Open

LEMMA DispatchStepKeepsEffects ==
    ASSUME TypeOK, LedgerInv, LinkType, NEW w \in Workers, NEW f \in held[w],
           NEW e \in Effects,
           \/ PrepareEffectAttempt(w, f, e)
           \/ MarkEffectAttemptRunning(w, f, e)
           \/ RecordEffectAttemptOutcome(w, f, e)
    PROVE  KeepsEffects
  <1> SUFFICES ASSUME NEW x \in Effects PROVE KeepsEffect(x)
    BY Zenon DEF KeepsEffects
  <1> LedgerType
    BY Zenon DEF LedgerInv
  <1> USE DEF KeepsEffect, Open, LedgerType
  <1>1. CASE PrepareEffectAttempt(w, f, e)
    <2>1. /\ UNCHANGED <<effect, approval, observed>>
          /\ attempt' = [attempt EXCEPT ![e] = "prepared"]
          /\ attemptToken' = [attemptToken EXCEPT ![e] = f.token]
          /\ RunOf[e] = f.run
      BY <1>1, Zenon DEF PrepareEffectAttempt
    <2>2. \E l \in leases : l.run = f.run /\ l.token = f.token
      BY <1>1, Zenon DEF PrepareEffectAttempt, Fenced, HoldsLease, LeasesOn
    <2> QED
      BY <2>1, <2>2, Zenon DEF LinkType
  <1>2. CASE MarkEffectAttemptRunning(w, f, e)
    <2>1. /\ UNCHANGED <<approval, observed, attemptToken>>
          /\ effect' = [effect EXCEPT ![e] = "dispatching"]
          /\ attempt' = [attempt EXCEPT ![e] = "running"]
          /\ effect[e] = "authorized" /\ attempt[e] = "prepared"
          /\ run[RunOf[e]] = "running"
      BY <1>2, Zenon DEF MarkEffectAttemptRunning, AttemptHeld, Fenced
    <2> QED
      BY <2>1, Zenon
  <1>3. CASE RecordEffectAttemptOutcome(w, f, e)
    <2>1. PICK o \in {"succeeded", "failed", "outcome_unknown"} :
            /\ effect' = [effect EXCEPT ![e] = o]
            /\ attempt' = [attempt EXCEPT ![e] = o]
      BY <1>3, Zenon DEF RecordEffectAttemptOutcome, OutcomeOf
    <2>2. /\ UNCHANGED <<approval, observed, attemptToken>>
          /\ effect[e] = "dispatching"
      BY <1>3, Zenon DEF RecordEffectAttemptOutcome
    <2> QED
      BY <2>1, <2>2, Zenon
  <1> QED
    BY <1>1, <1>2, <1>3, Zenon

LEMMA DecisionKeepsEffects ==
    ASSUME LedgerInv, NEW e \in Effects,
           \/ \E d \in {"approved", "denied"} : ResolveApproval(e, d)
           \/ ExpireApproval(e)
           \/ \E o \in Reconciled : ReconcileEffectOutcome(e, o)
    PROVE  KeepsEffects
  <1> SUFFICES ASSUME NEW x \in Effects PROVE KeepsEffect(x)
    BY Zenon DEF KeepsEffects
  <1> LedgerType
    BY Zenon DEF LedgerInv
  <1>1. /\ UNCHANGED <<attempt, attemptToken, observed>>
        /\ effect[e] \in {"awaiting_approval", "outcome_unknown"}
        /\ \E b \in {"authorized", "denied", "succeeded", "failed"} :
                effect' = [effect EXCEPT ![e] = b]
        /\ approval'[x] = "pending" => approval[x] = "pending"
    BY Zenon DEF ResolveApproval, ExpireApproval, ReconcileEffectOutcome,
           AfterDecision, Reconciled, LedgerType
  <1> QED
    BY <1>1, Zenon DEF KeepsEffect, Open, LedgerType

LEMMA CancelKeepsEffects ==
    ASSUME LedgerInv, NEW r \in Runs, CancelTask(r)
    PROVE  /\ KeepsEffects
           /\ \A e \in Effects : RunOf[e] = r => approval'[e] # "pending"
  <1>1. KeepsEffects
    BY Zenon
       DEF LedgerInv, LedgerType, KeepsEffects, KeepsEffect, Open, CancelTask,
           RevokedBy, Undispatched
  <1>2. ASSUME NEW e \in Effects, RunOf[e] = r, approval'[e] = "pending"
        PROVE  FALSE
    <2>1. e \notin Undispatched(r) /\ approval[e] = "pending"
      BY <1>2, Zenon DEF CancelTask, RevokedBy
    <2> QED
      BY <1>2, <2>1, Zenon DEF Undispatched, LedgerInv, RowsAgree, Unapproved
  <1> QED
    BY <1>1, <1>2, Zenon

LEMMA RecoveryKeepsEffects ==
    ASSUME LedgerInv, NEW S, RecoverEffects(S)
    PROVE  KeepsEffects
  <1> SUFFICES ASSUME NEW e \in Effects PROVE KeepsEffect(e)
    BY Zenon DEF KeepsEffects
  <1>1. /\ attempt'[e] = AttemptAfterRecovery(S, e)
        /\ effect'[e] = EffectAfterRecovery(S, e)
        /\ UNCHANGED <<approval, attemptToken, observed>>
    BY Zenon DEF RecoverEffects
  <1>2. CASE e \in Interrupted(S)
    BY <1>1, <1>2, Zenon
       DEF AttemptAfterRecovery, EffectAfterRecovery, Interrupted,
                      RecoveryCandidate, KeepsEffect, Open
  <1>3. CASE e \notin Interrupted(S)
    BY <1>1, <1>3, Zenon
       DEF AttemptAfterRecovery, EffectAfterRecovery, KeepsEffect, Open
  <1> QED
    BY <1>2, <1>3, Zenon

-----------------------------------------------------------------------------
(* The steps with consequences for the effects of a run. *)

\* What is being dispatched or decided is open.
LEMMA BusyIsOpen ==
    ASSUME LedgerInv, LinkInv, NEW e \in Effects,
           \/ attempt[e] \in {"prepared", "running"}
           \/ approval[e] = "pending"
           \/ effect[e] \in {"authorized", "dispatching", "outcome_unknown"}
    PROVE  Open(e)
  <1>1. effect[e] \in {"awaiting_approval", "authorized", "dispatching",
                       "outcome_unknown"}
    BY Zenon DEF LedgerInv, RowsAgree
  <1> QED
    BY <1>1, Zenon DEF Open, LinkInv, ObservedIsSettled, Settled

LEMMA NoneOpen ==
    ASSUME LedgerInv, LinkInv, NEW r, NEW e \in Effects, RunOf[e] = r,
           OpenEffects(r) = {}
    PROVE  /\ ~ Open(e)
           /\ attempt[e] \notin {"prepared", "running"} /\ approval[e] # "pending"
  <1>1. ~ Open(e)
    BY Zenon DEF OpenEffects, Open
  <1> QED
    BY <1>1, BusyIsOpen, Zenon

LEMMA ProposeKeepsLink ==
    ASSUME WorkGraphInv, LedgerInv, LinkInv, LinkType', ObservedIsSettled',
           NEW w \in Workers, NEW f \in held[w], NEW e \in Effects,
           ProposeEffect(w, f, e)
    PROVE  LinkInv'
  <1>1. /\ RunOf[e] = f.run /\ effect[e] = "none" /\ OpenEffects(f.run) = {}
        /\ effect' = [effect EXCEPT ![e] = "awaiting_approval"]
        /\ approval' = [approval EXCEPT ![e] = "pending"]
        /\ UNCHANGED <<attempt, attemptToken, observed>>
        /\ GiveBack(w, f, "waiting") /\ UNCHANGED <<cancel, delegationVars>>
        /\ ~ cancel[f.run]
    BY Zenon DEF ProposeEffect, RecordAgentEffectProposal
  <1>2. /\ run'[f.run] = "waiting" /\ ActiveChildren(f.run)' = {}
        /\ \A r \in Canonical : r # f.run => KeepsRun(r)
    BY <1>1, GiveBackKeeps, Zenon
  <1>3. /\ effect'[e] = "awaiting_approval"
        /\ \A x \in Effects : x # e => effect'[x] = effect[x]
                                    /\ approval'[x] = approval[x]
    BY <1>1, Zenon DEF LedgerInv, LedgerType
  <1>4. ~ observed[e] /\ attempt[e] = "none"
    BY <1>1, Zenon
       DEF LinkInv, ObservedIsSettled, Settled, LedgerInv, RowsAgree,
                Unapproved
  <1>5. Open(e)' /\ \A x \in Effects : x # e => (Open(x)' <=> Open(x))
    BY <1>1, <1>3, <1>4, Zenon DEF Open
  <1>6. OneOpen'
    <2> SUFFICES ASSUME NEW x \in Effects, NEW y \in Effects,
                        Open(x)', Open(y)', RunOf[x] = RunOf[y]
                 PROVE  x = y
      BY Zenon DEF OneOpen
    <2> QED
      BY <1>1, <1>5, NoneOpen, Zenon DEF LinkInv, OneOpen
  <1>7. \A x \in Effects : RunOf[x] # f.run => KeepsEffect(x)
    BY <1>1, <1>3, <1>5, Zenon DEF KeepsEffect
  <1>8. WaitExplained(f.run)'
    BY <1>1, <1>2, <1>3, <1>5, Zenon DEF WaitExplained
  <1>9. ASSUME NEW x \in Effects, RunOf[x] = f.run
        PROVE  DispatchLeased(x)' /\ PendingAwaited(x)'
    <2>1. CASE x = e
      BY <1>1, <1>2, <1>4, <2>1, Zenon DEF DispatchLeased, PendingAwaited
    <2>2. CASE x # e
      BY <1>1, <1>3, <1>9, <2>2, NoneOpen, Zenon
         DEF DispatchLeased, PendingAwaited
    <2> QED
      BY <2>1, <2>2, Zenon
  <1> QED
    BY <1>2, <1>6, <1>7, <1>8, <1>9, LinkKeptBut, Zenon

LEMMA ObservationKeepsLink ==
    ASSUME WorkGraphInv, LedgerInv, LinkInv, LinkType', ObservedIsSettled',
           NEW w \in Workers, NEW f \in held[w], NEW e \in Effects,
           RecordAgentEffectObservation(w, f, e)
    PROVE  LinkInv'
  <1>1. /\ RunOf[e] = f.run /\ run[f.run] = "running"
        /\ observed' = [observed EXCEPT ![e] = TRUE]
        /\ UNCHANGED <<vars, effect, approval, attempt, attemptToken>>
    BY Zenon DEF RecordAgentEffectObservation, OpenEffects, Fenced
  <1>2. UNCHANGED <<run, cancel, leases>>
    BY <1>1, Zenon DEF vars, rowVars
  <1>3. observed'[e] /\ \A x \in Effects : x # e => observed'[x] = observed[x]
    BY <1>1, Zenon DEF LinkInv, LinkType
  <1>4. ~ Open(e)' /\ \A x \in Effects : x # e => (Open(x)' <=> Open(x))
    BY <1>1, <1>3, Zenon DEF Open
  <1>5. OneOpen'
    BY <1>4, OpenKept, Zenon DEF LinkInv
  <1>6. \A x \in Effects : RunOf[x] # f.run => KeepsEffect(x)
    BY <1>1, <1>4, Zenon DEF KeepsEffect
  <1>7. WaitExplained(f.run)'
    BY <1>1, <1>2, Zenon DEF WaitExplained
  <1>8. \A x \in Effects : DispatchLeased(x)' /\ PendingAwaited(x)'
    BY <1>1, <1>2, Zenon DEF LinkInv, DispatchLeased, Leased, PendingAwaited
  <1>9. \A r \in Canonical : r # f.run => KeepsRun(r)
    BY <1>1, UnchangedKeepsRuns, Zenon DEF KeepsRuns
  <1> QED
    BY <1>5, <1>6, <1>7, <1>8, <1>9, LinkKeptBut, Zenon

\* The other steps leave the effects alone and concern one run, r.
LEMMA LinkKeptButRun ==
    ASSUME LinkInv, KeepsEffects, LinkType', ObservedIsSettled', NEW r,
           \A x \in Canonical : x # r => KeepsRun(x),
           r \in Canonical => WaitExplained(r)',
           \A e \in Effects : RunOf[e] = r =>
                DispatchLeased(e)' /\ PendingAwaited(e)'
    PROVE  LinkInv'
  <1>1. OneOpen'
    BY OpenKept, Zenon DEF KeepsEffects, KeepsEffect, LinkInv
  <1>2. \A e \in Effects : RunOf[e] # r => KeepsEffect(e)
    BY Zenon DEF KeepsEffects
  <1> QED
    BY <1>1, <1>2, LinkKeptBut, Zenon

LEMMA RetryKeepsLink ==
    ASSUME WorkGraphInv, LedgerInv, LinkInv, LinkType', ObservedIsSettled',
           NEW w \in Workers, NEW f \in held[w], RetryProvider(w, f)
    PROVE  LinkInv'
  <1>1. /\ OpenEffects(f.run) = {} /\ UNCHANGED ledgerVars
        /\ GiveBack(w, f, "queued") /\ UNCHANGED <<cancel, delegationVars>>
    BY Zenon DEF RetryProvider, RequeueProviderRetry, effectVars
  <1>2. /\ run'[f.run] = "queued" /\ KeepsPending(f.run)
        /\ \A r \in Canonical : r # f.run => KeepsRun(r)
    BY <1>1, GiveBackKeeps, Zenon
  <1>3. WaitExplained(f.run)'
    BY <1>2, Zenon DEF WaitExplained
  <1>4. ASSUME NEW e \in Effects, RunOf[e] = f.run
        PROVE  DispatchLeased(e)' /\ PendingAwaited(e)'
    BY <1>1, <1>4, NoneOpen, Zenon
       DEF DispatchLeased, PendingAwaited, ledgerVars
  <1> QED
    BY <1>1, <1>2, <1>3, <1>4, UnchangedKeepsEffects, LinkKeptButRun, Zenon

LEMMA ParkKeepsLink ==
    ASSUME WorkGraphInv, LedgerInv, LinkInv, LinkType', ObservedIsSettled',
           NEW w \in Workers, NEW f \in held[w], NEW e \in Effects,
           ParkUnknownEffect(w, f, e)
    PROVE  LinkInv'
  <1>1. /\ RunOf[e] = f.run /\ effect[e] = "outcome_unknown"
        /\ UNCHANGED ledgerVars
        /\ GiveBack(w, f, "waiting") /\ UNCHANGED <<cancel, delegationVars>>
    BY Zenon DEF ParkUnknownEffect, ParkAgentEffectRun
  <1>2. /\ run'[f.run] = "waiting" /\ ActiveChildren(f.run)' = {}
        /\ KeepsPending(f.run)
        /\ \A r \in Canonical : r # f.run => KeepsRun(r)
    BY <1>1, GiveBackKeeps, Zenon
  <1>3. KeepsEffects
    BY <1>1, UnchangedKeepsEffects, Zenon
  <1>4. Open(e) /\ effect'[e] = effect[e] /\ Open(e)'
    BY <1>1, <1>3, BusyIsOpen, Zenon DEF ledgerVars, KeepsEffects, KeepsEffect
  <1>5. WaitExplained(f.run)'
    BY <1>1, <1>2, <1>4, Zenon DEF WaitExplained
  <1>6. ASSUME NEW x \in Effects, RunOf[x] = f.run
        PROVE  DispatchLeased(x)' /\ PendingAwaited(x)'
    <2>1. attempt[x] \notin {"prepared", "running"}
      <3> SUFFICES ASSUME attempt[x] \in {"prepared", "running"} PROVE FALSE
        BY Zenon
      <3>1. Open(x)
        BY BusyIsOpen, Zenon
      <3>2. x = e
        BY <1>1, <1>4, <1>6, <3>1, Zenon DEF LinkInv, OneOpen
      <3> QED
        BY <1>1, <3>2, Zenon DEF LedgerInv, RowsAgree
    <2>2. PendingAwaited(x)'
      BY <1>2, <1>3, <1>6, PendingKept, Zenon DEF KeepsEffects, LinkInv
    <2> QED
      BY <1>1, <2>1, <2>2, Zenon DEF DispatchLeased, ledgerVars
  <1> QED
    BY <1>2, <1>3, <1>5, <1>6, LinkKeptButRun, Zenon

LEMMA DelegateKeepsLink ==
    ASSUME WorkGraphInv, LedgerInv, LinkInv, LinkType', ObservedIsSettled',
           NEW w \in Workers, NEW f \in held[w], NEW c \in Delegates,
           Delegate(w, f, c)
    PROVE  LinkInv'
  <1>1. /\ OpenEffects(f.run) = {} /\ UNCHANGED ledgerVars
        /\ LaunchAgentDelegation(w, f, c)
    BY Zenon DEF Delegate, effectVars
  <1>2. /\ ActiveChildren(f.run)' # {}
        /\ \A r \in Canonical : r # f.run => KeepsRun(r)
    BY <1>1, LaunchKeeps, Zenon
  <1>3. KeepsEffects
    BY <1>1, UnchangedKeepsEffects, Zenon
  <1>4. WaitExplained(f.run)'
    BY <1>1, <1>2, <1>3, NoneOpen, Zenon
       DEF WaitExplained, KeepsEffects, KeepsEffect
  <1>5. ASSUME NEW e \in Effects, RunOf[e] = f.run
        PROVE  DispatchLeased(e)' /\ PendingAwaited(e)'
    BY <1>1, <1>5, NoneOpen, Zenon
       DEF DispatchLeased, PendingAwaited, ledgerVars
  <1> QED
    BY <1>2, <1>3, <1>4, <1>5, LinkKeptButRun, Zenon

LEMMA ChildCompletionKeepsLink ==
    ASSUME WorkGraphInv, LedgerInv, LinkInv, LinkType', ObservedIsSettled',
           NEW w \in Workers, NEW f \in held[w], NEW st \in Terminal,
           CompleteDelegatedRun(w, f, st), UNCHANGED ledgerVars
    PROVE  LinkInv'
  <1>1. PICK p \in Runs :
            /\ run[p] = "waiting" /\ ActiveChildren(p) # {}
            /\ KeepsWait(p) /\ KeepsLeases(p)
            /\ \A r \in Canonical : r # p => KeepsRun(r)
    BY ChildCompletionKeeps, Zenon
  <1>2. KeepsEffects
    BY UnchangedKeepsEffects, Zenon
  <1>3. p \in Canonical => WaitExplained(p)'
    BY <1>1, <1>2, WaitKept, Zenon DEF LinkInv, KeepsEffects
  <1>4. ASSUME NEW e \in Effects, RunOf[e] = p
        PROVE  DispatchLeased(e)' /\ PendingAwaited(e)'
    <2>1. ~ Open(e)
      BY <1>1, <1>4, Zenon DEF LinkInv, WaitExplained
    <2>2. approval'[e] # "pending"
      BY <2>1, BusyIsOpen, Zenon DEF ledgerVars
    <2>3. DispatchLeased(e)'
      BY <1>1, <1>2, <1>4, DispatchKept, Zenon DEF LinkInv, KeepsEffects
    <2> QED
      BY <2>2, <2>3, Zenon DEF PendingAwaited
  <1> QED
    BY <1>1, <1>2, <1>3, <1>4, LinkKeptButRun, Zenon

LEMMA ResumeKeepsLink ==
    ASSUME WorkGraphInv, LedgerInv, LinkInv, LinkType', ObservedIsSettled',
           NEW r \in Runs, KeepsEffects,
           ResumeAgentEffectRun(r) \/ RequestTaskCancellation(r),
           \A e \in Effects : RunOf[e] = r => approval'[e] # "pending"
    PROVE  LinkInv'
  <1>1. /\ KeepsWait(r) /\ KeepsLeases(r)
        /\ \A x \in Canonical : x # r => KeepsRun(x)
    BY ResumeKeeps, Zenon
  <1>2. r \in Canonical => WaitExplained(r)'
    BY <1>1, WaitKept, Zenon DEF LinkInv, KeepsEffects
  <1>3. ASSUME NEW e \in Effects, RunOf[e] = r
        PROVE  DispatchLeased(e)' /\ PendingAwaited(e)'
    <2>1. DispatchLeased(e)'
      BY <1>1, <1>3, DispatchKept, Zenon DEF LinkInv, KeepsEffects
    <2> QED
      BY <1>3, <2>1, Zenon DEF PendingAwaited
  <1> QED
    BY <1>1, <1>2, <1>3, LinkKeptButRun, Zenon

\* The one open effect of the run is ready, so none awaits an approval.
LEMMA ReadyHasNoPending ==
    ASSUME LedgerInv, LinkInv, NEW e \in Effects, ResumeReadyEffectRun(e),
           NEW x \in Effects, RunOf[x] = RunOf[e]
    PROVE  approval'[x] # "pending"
  <1>1. Ready(e) /\ approval' = approval
    BY Zenon DEF ResumeReadyEffectRun, effectVars, ledgerVars
  <1> SUFFICES ASSUME approval[x] = "pending" PROVE FALSE
    BY <1>1, Zenon
  <1>2. Open(x) /\ effect[x] = "awaiting_approval"
    BY BusyIsOpen, Zenon DEF LedgerInv, RowsAgree
  <1>3. Open(e) /\ effect[e] # "awaiting_approval"
    BY <1>1, Zenon DEF Ready, Open, Settled
  <1> QED
    BY <1>2, <1>3, Zenon DEF LinkInv, OneOpen

\* Recovery finds every attempt that was under way with a lease it takes away:
\* the run has one lease, and it carries the attempt's token.
LEMMA RecoveryKeepsLink ==
    ASSUME WorkGraphInv, LedgerInv, LinkInv, LinkType', ObservedIsSettled',
           NEW S \in SUBSET leases, RecoverLeases(S, Parked(S)),
           RecoverEffects(S), UNCHANGED <<cancel, delegationVars>>
    PROVE  LinkInv'
  <1> HIDE DEF Parked
  <1>1. /\ \A r \in Canonical : r \notin Parked(S) => KeepsWait(r)
        /\ \A r \in Canonical : KeepsPending(r)
        /\ \A r \in Canonical : (\A l \in S : l.run # r) => KeepsLeases(r)
        /\ \A r \in Canonical : (\E l \in S : l.run = r) => run[r] = "running"
        /\ \A r \in Parked(S) : ActiveChildren(r)' = {}
    BY RecoveryKeeps, Zenon
  <1>2. KeepsEffects
    BY RecoveryKeepsEffects, Zenon
  <1>3. OneOpen'
    BY <1>2, OpenKept, Zenon DEF KeepsEffects, KeepsEffect, LinkInv
  <1>4. \A e \in Effects : PendingAwaited(e)'
    BY <1>1, <1>2, PendingKept, Zenon DEF KeepsEffects, LinkInv
  <1>5. ASSUME NEW e \in Effects PROVE DispatchLeased(e)'
    <2>1. CASE \A l \in S : l.run # RunOf[e]
      BY <1>1, <1>2, <2>1, DispatchKept, Zenon DEF KeepsEffects, LinkInv
    <2>2. ASSUME NEW l \in S, l.run = RunOf[e],
                 attempt'[e] \in {"prepared", "running"}
          PROVE  FALSE
      <3>1. /\ e \notin Interrupted(S)
            /\ attempt[e] \in {"prepared", "running"}
        BY <2>2, Zenon DEF RecoverEffects, AttemptAfterRecovery
      <3>2. run[RunOf[e]] = "running"
        BY <1>1, <2>2, Zenon
      <3>3. Leased(e)
        BY <3>1, <3>2, Zenon DEF LinkInv, DispatchLeased, Terminal
      <3>4. l.token = attemptToken[e]
        BY <2>2, <3>3, Zenon DEF Leased, WorkGraphInv, LeasedWhileRunning
      <3>5. RecoveryCandidate(e)
        BY <3>1, Zenon DEF LedgerInv, RowsAgree, RecoveryCandidate
      <3> QED
        BY <2>2, <3>1, <3>4, <3>5, Zenon DEF Interrupted
    <2> QED
      BY <2>1, <2>2, Zenon DEF DispatchLeased
  <1>6. ASSUME NEW r \in Canonical PROVE WaitExplained(r)'
    <2>1. CASE r \notin Parked(S)
      BY <1>1, <1>2, <2>1, WaitKept, Zenon DEF KeepsEffects, LinkInv
    <2>2. CASE r \in Parked(S)
      <3>1. PICK e \in Interrupted(S) :
                RunOf[e] = r /\ attempt[e] # "prepared" /\ ~ Retries(e)
        BY <2>2, Zenon DEF Parked
      <3>2. /\ e \in Effects
            /\ effect[e] \in {"authorized", "dispatching", "outcome_unknown"}
        BY <3>1, Zenon DEF Interrupted, RecoveryCandidate
      <3>3. effect'[e] = "outcome_unknown"
        BY <3>1, <3>2, Zenon DEF RecoverEffects, EffectAfterRecovery
      <3>4. Open(e)'
        BY <1>2, <3>2, BusyIsOpen, Zenon DEF KeepsEffects, KeepsEffect
      <3> QED
        BY <1>1, <2>2, <3>1, <3>2, <3>3, <3>4, Zenon DEF WaitExplained
    <2> QED
      BY <2>1, <2>2, Zenon
  <1> QED
    BY <1>3, <1>4, <1>5, <1>6, Zenon DEF LinkInv

LEMMA LinkInvStep ==
    WorkGraphInv /\ LedgerInv /\ LinkInv /\ [EffectNext]_allVars => LinkInv'
  <1> SUFFICES ASSUME WorkGraphInv, LedgerInv, LinkInv, [EffectNext]_allVars
               PROVE  LinkInv'
    BY Zenon
  <1> TypeOK /\ LinkType
    BY Zenon DEF WorkGraphInv, LinkInv
  <1> LinkType' /\ ObservedIsSettled'
    BY LinkTypeStep, Zenon
  <1>1. ASSUME UNCHANGED vars, KeepsEffects PROVE LinkInv'
    BY <1>1, UnchangedKeepsRuns, LinkKept, Zenon
  <1>2. ASSUME UNCHANGED ledgerVars, KeepsRuns PROVE LinkInv'
    BY <1>2, UnchangedKeepsEffects, LinkKept, Zenon
  <1>3. UNCHANGED effectVars => UNCHANGED ledgerVars
    BY Zenon DEF effectVars
  <1>4. ASSUME NEW w \in Workers, NEW f \in held[w], EffectWorkerStep(w, f)
        PROVE  LinkInv'
    <2>1. CASE KeepLease(w, f) \/ Abandon(w, f)
      BY <1>2, <1>3, <2>1, QuietGraphSteps, Zenon DEF KeepLease, Abandon
    <2>2. ASSUME NEW status \in Terminal, CompleteRun(w, f, status)
          PROVE  LinkInv'
      <3>1. /\ UNCHANGED ledgerVars
            /\ \/ CompleteCanonicalRun(w, f, status)
               \/ CompleteDelegatedRun(w, f, status)
        BY <2>2, Zenon DEF CompleteRun
      <3> QED
        BY <1>2, <3>1, QuietGraphSteps, ChildCompletionKeepsLink, Zenon
    <2>3. CASE RetryProvider(w, f)
      BY <2>3, RetryKeepsLink, Zenon
    <2>4. ASSUME NEW c \in Delegates, Delegate(w, f, c) PROVE LinkInv'
      BY <2>4, DelegateKeepsLink, Zenon
    <2>5. ASSUME NEW e \in Effects,
                 \/ ProposeEffect(w, f, e)
                 \/ RecordAgentEffectObservation(w, f, e)
                 \/ ParkUnknownEffect(w, f, e)
          PROVE  LinkInv'
      BY <2>5, ProposeKeepsLink, ObservationKeepsLink, ParkKeepsLink, Zenon
    <2>6. ASSUME NEW e \in Effects, ContinueEffect(w, f, e) PROVE LinkInv'
      BY <1>1, <2>6, UnchangedKeepsEffects, Zenon DEF ContinueEffect
    <2>7. ASSUME NEW e \in Effects,
                 \/ PrepareEffectAttempt(w, f, e)
                 \/ MarkEffectAttemptRunning(w, f, e)
                 \/ RecordEffectAttemptOutcome(w, f, e)
          PROVE  LinkInv'
      <3>1. UNCHANGED vars
        BY <2>7, Zenon DEF PrepareEffectAttempt, MarkEffectAttemptRunning,
                    RecordEffectAttemptOutcome
      <3> QED
        BY <1>1, <2>7, <3>1, DispatchStepKeepsEffects, Zenon
    <2> QED
      BY <1>4, <2>1, <2>2, <2>3, <2>4, <2>5, <2>6, <2>7, Zenon
      DEF EffectWorkerStep
  <1>5. ASSUME NEW w \in Workers, NEW e \in Effects,
               CheckApproval(w, e) \/ Execute(w, e)
        PROVE  LinkInv'
    BY <1>1, <1>5, UnchangedKeepsEffects, Zenon DEF CheckApproval, Execute
  <1>6. ASSUME NEW e \in Effects,
               \/ \E d \in {"approved", "denied"} : ResolveApproval(e, d)
               \/ ExpireApproval(e)
               \/ \E o \in Reconciled : ReconcileEffectOutcome(e, o)
        PROVE  LinkInv'
    <2>1. UNCHANGED vars
      BY <1>6, Zenon DEF ResolveApproval, ExpireApproval, ReconcileEffectOutcome
    <2> QED
      BY <1>1, <1>6, <2>1, DecisionKeepsEffects, Zenon
  <1>7. ASSUME NEW e \in Effects, ResumeReadyEffectRun(e) PROVE LinkInv'
    <2>1. /\ RunOf[e] \in Runs /\ ResumeAgentEffectRun(RunOf[e])
          /\ UNCHANGED ledgerVars
      BY <1>3, <1>7, Zenon DEF ResumeReadyEffectRun, Canonical
    <2>2. KeepsEffects
      BY <2>1, UnchangedKeepsEffects, Zenon
    <2>3. \A x \in Effects : RunOf[x] = RunOf[e] => approval'[x] # "pending"
      BY <1>7, ReadyHasNoPending, Zenon
    <2> QED
      BY <2>1, <2>2, <2>3, ResumeKeepsLink, Zenon
  <1>8. ASSUME NEW r \in Runs, CancelTask(r) PROVE LinkInv'
    <2>1. RequestTaskCancellation(r)
      BY <1>8, Zenon DEF CancelTask
    <2> QED
      BY <1>8, <2>1, CancelKeepsEffects, ResumeKeepsLink, Zenon
  <1>9. ASSUME NEW r \in Runs, PauseIdle(r) \/ Unpause(r) PROVE LinkInv'
    BY <1>2, <1>3, <1>9, QuietGraphSteps, Zenon DEF PauseIdle, Unpause
  <1>10. ASSUME NEW r \in Runs, PauseRunning(r) PROVE LinkInv'
    <2>1. /\ LeasesOn(r) \in SUBSET leases
          /\ RecoverLeases(LeasesOn(r), Parked(LeasesOn(r)))
          /\ RecoverEffects(LeasesOn(r))
          /\ UNCHANGED <<cancel, delegationVars>>
      BY <1>10, Zenon DEF PauseRunning, PauseRunningTask, LeasesOn
    <2> QED
      BY <2>1, RecoveryKeepsLink, Zenon
  <1>11. ASSUME NEW S \in SUBSET leases, ReapExpired(S) \/ RecoverAtStartup(S)
         PROVE  LinkInv'
    <2>1. /\ RecoverLeases(S, Parked(S)) /\ RecoverEffects(S)
          /\ UNCHANGED <<cancel, delegationVars>>
      BY <1>11, Zenon DEF ReapExpired, RecoverAtStartup, RecoverExpiredLeases,
                   RecoverStartup
    <2> QED
      BY <2>1, RecoveryKeepsLink, Zenon
  <1>12. ASSUME UNCHANGED effectVars,
                \/ \E w \in Workers, r \in Runs : ClaimNext(w, r)
                \/ \E s \in Sessions :
                    \/ \E r \in Runs : PromoteNext(s, r)
                    \/ InterruptBeforeClaim(s) \/ InterruptRunning(s)
                \/ BecomeReady
         PROVE  LinkInv'
    BY <1>2, <1>3, <1>12, QuietGraphSteps, Zenon
  <1>13. CASE CrashDaemon
    BY <1>2, <1>13, QuietGraphSteps, Zenon DEF CrashDaemon
  <1>14. CASE TimePasses
    <2>1. KeepsEffects
      BY <1>14, Zenon DEF TimePasses, KeepsEffects, KeepsEffect, Open
    <2>2. KeepsRuns
      BY <1>14, QuietGraphSteps, UnchangedKeepsRuns, Zenon DEF TimePasses
    <2> QED
      BY <2>1, <2>2, LinkKept, Zenon
  <1>15. CASE UNCHANGED allVars
    BY <1>1, <1>3, <1>15, UnchangedKeepsEffects, Zenon DEF allVars
  <1> QED
    BY <1>4, <1>5, <1>6, <1>7, <1>8, <1>9, <1>10, <1>11, <1>12, <1>13, <1>14,
       <1>15, Zenon
    DEF EffectNext, EffectOwnerStep, ClaimRun

LEMMA LinkInvariant == EffectSpec => [](WorkGraphInv /\ LedgerInv /\ LinkInv)
  <1>1. EffectInit => WorkGraphInv /\ LedgerInv /\ LinkInv
    BY WorkGraphInvInit, LedgerInvInit, LinkInit, Zenon DEF EffectInit
  <1>2. WorkGraphInv /\ LedgerInv /\ LinkInv /\ [EffectNext]_allVars
            => (WorkGraphInv /\ LedgerInv /\ LinkInv)'
    BY LedgerStepIsWorkGraphStep, WorkGraphInvStep, LedgerInvStep, LinkInvStep,
       Zenon
  <1> QED
    BY <1>1, <1>2, PTL DEF EffectSpec

-----------------------------------------------------------------------------
(* The theorems. *)

\* Type correctness of the ledger, the workers' memory and the work graph.
THEOREM EffectTypeCorrect == EffectSpec => []EffectTypeOK
  <1>1. WorkGraphInv /\ LedgerInv /\ LinkInv => EffectTypeOK
    BY Zenon
       DEF WorkGraphInv, LedgerInv, LedgerType, LinkInv, LinkType, EffectTypeOK
  <1> QED
    BY <1>1, LinkInvariant, PTL

\* An attempt that is under way is always found by recovery: the one lease of
\* its run carries the token it was prepared under.
THEOREM RecoveryFindsDispatch == EffectSpec => []DispatchIsLeased
  <1>1. LinkInv => DispatchIsLeased
    BY Zenon DEF LinkInv, DispatchLeased, Leased, DispatchIsLeased
  <1> QED
    BY <1>1, LinkInvariant, PTL

\* A waiting run has an open child, or exactly one open effect that nobody is
\* dispatching: it waits for an event that can still come.
THEOREM WaitingSafety == EffectSpec => []WaitingIsExplained
  <1>1. LinkInv => WaitingIsExplained
    <2> SUFFICES ASSUME LinkInv, NEW r \in Canonical, run[r] = "waiting"
                 PROVE  IF ActiveChildren(r) = {}
                        THEN Cardinality(OpenEffects(r)) = 1 /\
                             \A e \in OpenEffects(r) : effect[e] # "dispatching"
                        ELSE OpenEffects(r) = {}
      BY Zenon DEF WaitingIsExplained
    <2>1. CASE ActiveChildren(r) = {}
      <3>1. PICK e \in Effects : /\ RunOf[e] = r /\ Open(e)
                                /\ effect[e] # "dispatching"
        BY <2>1, Zenon DEF LinkInv, WaitExplained
      <3>2. OpenEffects(r) = {e}
        BY <3>1, Zenon DEF LinkInv, OneOpen, Open, OpenEffects
      <3>3. Cardinality({e}) = 1
        BY CardOne, Zenon
      <3> QED
        BY <2>1, <3>1, <3>2, <3>3, Zenon
    <2>2. CASE ActiveChildren(r) # {}
      BY <2>2, Zenon DEF LinkInv, WaitExplained, Open, OpenEffects
    <2> QED
      BY <2>1, <2>2, Zenon
  <1> QED
    BY <1>1, LinkInvariant, PTL

\* An approval is pending only while its run waits and is not cancelled.
THEOREM PendingSafety == EffectSpec => []PendingIsAwaited
  <1>1. LedgerInv /\ LinkInv => PendingIsAwaited
    BY Zenon DEF LedgerInv, RowsAgree, Unapproved, LinkInv, PendingAwaited,
           PendingIsAwaited
  <1> QED
    BY <1>1, LinkInvariant, PTL

-----------------------------------------------------------------------------
(***************************************************************************)
(* The concurrency ceilings.  A class is the set of runs one ceiling       *)
(* counts together.  Every step but a claim finds, for each live lease it  *)
(* leaves, a live lease of the same run before it; as a run has one lease, *)
(* no class grows.                                                         *)
(***************************************************************************)
LiveIn(C) == {l \in LiveLeases : l.run \in C}

PrincipalClass(r) ==
    {x \in Runs : PrincipalOf[SessionOf[x]] = PrincipalOf[SessionOf[r]]}
SessionClass(s) == {x \in Runs : SessionOf[x] = s}
RoleClass(r) == {x \in Runs : SameRole(x, r)}

Finite(S) == IsFiniteSet(S)
Count(S) == Cardinality(S)

\* What counting rests on; shown at the end, from the library's theorems.
Counting ==
    /\ Finite({}) /\ Count({}) = 0
    /\ \A S : Finite(S) =>
        /\ Count(S) \in Nat
        /\ \A T : T \subseteq S => Finite(T) /\ Count(T) <= Count(S)
        /\ \A x : /\ Finite(S \cup {x})
                  /\ Count(S \cup {x}) = IF x \in S THEN Count(S) ELSE Count(S) + 1
    /\ \A A, B, f : Finite(B) /\ f \in [A -> B] /\ (\A m, n \in A : f[m] = f[n] => m = n) =>
        Finite(A) /\ Count(A) <= Count(B)

\* CeilingsHold and BelowCeilings in terms of classes.
ClassCeilings ==
    /\ \A r \in Runs : Count(LiveIn(PrincipalClass(r))) <= MaximumPerPrincipal
    /\ \A s \in Sessions : Count(LiveIn(SessionClass(s))) <= MaximumPerSession
    /\ \A r \in Runs : Count(LiveIn(RoleClass(r))) <= MaximumPerAgentRole

LEMMA CeilingClasses ==
    ASSUME TypeOK
    PROVE  /\ ClassCeilings => CeilingsHold
           /\ \A r \in Runs : BelowCeilings(r) =>
                /\ Count(LiveIn(PrincipalClass(r))) < MaximumPerPrincipal
                /\ Count(LiveIn(SessionClass(SessionOf[r]))) < MaximumPerSession
                /\ Count(LiveIn(RoleClass(r))) < MaximumPerAgentRole
  <1>1. \A l \in LiveLeases : l.run \in Runs
    BY Zenon DEF TypeOK, LiveLeases, Lease
  <1>2. /\ \A r \in Runs : {l \in LiveLeases :
                PrincipalOf[SessionOf[l.run]] = PrincipalOf[SessionOf[r]]}
                = LiveIn(PrincipalClass(r))
        /\ \A s : {l \in LiveLeases : SessionOf[l.run] = s} = LiveIn(SessionClass(s))
        /\ \A r \in Runs : {l \in LiveLeases : SameRole(l.run, r)}
                = LiveIn(RoleClass(r))
    BY <1>1, Zenon DEF LiveIn, PrincipalClass, SessionClass, RoleClass
  <1> QED
    BY <1>2, Zenon DEF Count, ClassCeilings, CeilingsHold, BelowCeilings

USE WorkGraphAssumption

NoLeaseAppears ==
    \A m \in leases' : \E l \in leases :
        l.run = m.run /\ (m.ttl > 0 => l.ttl > 0)

LEMMA LeaseOrigin ==
    ASSUME TypeOK, [Next]_vars
    PROVE  \/ NoLeaseAppears
           \/ \E w \in Workers, r \in Runs : ClaimNext(w, r)
  <1>0. leases' \subseteq leases => NoLeaseAppears
    BY Zenon DEF NoLeaseAppears
  <1>1. ASSUME NEW s \in Sessions,
               \/ \E r \in Runs : PromoteNext(s, r)
               \/ InterruptBeforeClaim(s) \/ InterruptRunning(s)
        PROVE  leases' \subseteq leases
    BY <1>1, Zenon DEF PromoteNext, InterruptBeforeClaim, InterruptRunning
  <1>2. ASSUME NEW w \in Workers, NEW f \in held[w], WorkerStep(w, f)
        PROVE  NoLeaseAppears
    <2>1. CASE Heartbeat(w, f)
      BY <2>1, Zenon DEF Heartbeat, LeasesOn, NoLeaseAppears, TypeOK, Lease
    <2>2. CASE Release(w, f)
      BY <1>0, <2>2, Zenon DEF Release, GiveBack
    <2>3. CASE RequeueProviderRetry(w, f)
      BY <1>0, <2>3, Zenon DEF RequeueProviderRetry, GiveBack
    <2>4. ASSUME NEW st \in Terminal,
                 CompleteCanonicalRun(w, f, st) \/ CompleteDelegatedRun(w, f, st)
          PROVE  NoLeaseAppears
      BY <1>0, <2>4, Zenon
         DEF CompleteCanonicalRun, CompleteDelegatedRun, GiveBack
    <2>5. CASE RecordAgentEffectProposal(w, f) \/ ParkAgentEffectRun(w, f)
      BY <1>0, <2>5, Zenon
         DEF RecordAgentEffectProposal, ParkAgentEffectRun, GiveBack
    <2>6. ASSUME NEW c \in Delegates, LaunchAgentDelegation(w, f, c)
          PROVE  NoLeaseAppears
      BY <1>0, <2>6, Zenon DEF LaunchAgentDelegation
    <2>7. CASE GiveUp(w, f)
      BY <1>0, <2>7, Zenon DEF GiveUp
    <2> QED
      BY <1>2, <2>1, <2>2, <2>3, <2>4, <2>5, <2>6, <2>7, Zenon DEF WorkerStep
  <1>3. ASSUME NEW r \in Runs, ResumeAgentEffectRun(r) \/ OwnerStep(r)
        PROVE  leases' \subseteq leases
    BY <1>3, Zenon DEF ResumeAgentEffectRun, OwnerStep, RequestTaskCancellation,
                PauseIdleTask, PauseRunningTask, RecoverLeases, ResumeTask
  <1>4. ASSUME NEW S, NEW parked, RecoveryStep(S, parked)
        PROVE  leases' \subseteq leases
    BY <1>4, Zenon DEF RecoveryStep, RecoverExpiredLeases, RecoverStartup,
                RecoverLeases
  <1>5. CASE BecomeReady \/ Crash
    BY <1>0, <1>5, Zenon DEF BecomeReady, Crash
  <1>6. CASE Tick
    <2>1. leases' = {[l EXCEPT !.ttl = Less(@)] : l \in leases}
      BY <1>6, Zenon DEF Tick
    <2>2. ASSUME NEW m \in leases'
          PROVE  \E l \in leases : l.run = m.run /\ (m.ttl > 0 => l.ttl > 0)
      <3>1. PICK l \in leases : m = [l EXCEPT !.ttl = Less(@)]
        BY <2>1, Zenon
      <3>2. l \in Lease
        BY Zenon DEF TypeOK
      <3>3. l.run = m.run /\ (m.ttl > 0 => l.ttl > 0)
        BY <3>1, <3>2 DEF Lease, Less
      <3> QED
        BY <3>3, Zenon
    <2> QED
      BY <2>2, Zenon DEF NoLeaseAppears
  <1>7. CASE UNCHANGED vars
    BY <1>0, <1>7, Zenon DEF vars
  <1> QED
    BY <1>0, <1>1, <1>2, <1>3, <1>4, <1>5, <1>6, <1>7, Zenon DEF Next

\* Leases of different runs that all have a lease of their run in B.
LEMMA CountedByRun ==
    ASSUME Counting, NEW A, NEW B, Finite(B),
           \A m \in A : \E l \in B : l.run = m.run,
           \A m, n \in A : m.run = n.run => m = n
    PROVE  Finite(A) /\ Count(A) <= Count(B)
  <1> DEFINE g == [m \in A |-> CHOOSE l \in B : l.run = m.run]
  <1>1. \A m \in A : g[m] \in B /\ g[m].run = m.run
    BY Zenon
  <1>2. g \in [A -> B]
    BY <1>1, Zenon
  <1>3. \A m, n \in A : g[m] = g[n] => m = n
    BY <1>1
  <1> HIDE DEF g
  <1> QED
    BY <1>2, <1>3, Zenon DEF Counting

LEMMA ClassesDoNotGrow ==
    ASSUME Counting, Finite(leases), LeasedWhileRunning', NoLeaseAppears, NEW C
    PROVE  /\ Finite(leases')
           /\ Count(LiveIn(C)') <= Count(LiveIn(C))
  <1>1. \A m, n \in leases' : m.run = n.run => m = n
    BY Zenon DEF LeasedWhileRunning
  <1>2. Finite(leases')
    BY <1>1, CountedByRun, Zenon DEF NoLeaseAppears
  <1>3. Finite(LiveIn(C))
    BY Zenon DEF Counting, LiveIn, LiveLeases
  <1>4. \A m \in LiveIn(C)' : \E l \in LiveIn(C) : l.run = m.run
    BY Zenon DEF NoLeaseAppears, LiveIn, LiveLeases
  <1>5. \A m, n \in LiveIn(C)' : m.run = n.run => m = n
    BY <1>1, Zenon DEF LiveIn, LiveLeases
  <1> QED
    BY <1>2, <1>3, <1>4, <1>5, CountedByRun, Zenon

LEMMA ClaimAddsOne ==
    ASSUME Counting, TypeOK, Finite(leases),
           NEW w \in Workers, NEW r \in Runs, ClaimNext(w, r), NEW C
    PROVE  /\ Finite(leases')
           /\ Count(LiveIn(C)) \in Nat
           /\ Count(LiveIn(C)') <= Count(LiveIn(C)) + 1
           /\ r \notin C => LiveIn(C)' = LiveIn(C)
  <1> DEFINE n == [run |-> r, token |-> token[r] + 1, owner |-> w,
                   ttl |-> LeaseTtl]
  <1>1. leases' = leases \cup {n} /\ n.run = r
    BY Zenon DEF ClaimNext
  <1> HIDE DEF n
  <1>2. Finite(leases')
    BY <1>1, Zenon DEF Counting
  <1>3. Finite(LiveIn(C))
    BY Zenon DEF Counting, LiveIn, LiveLeases
  <1>4. /\ LiveIn(C)' \subseteq LiveIn(C) \cup {n}
        /\ r \notin C => LiveIn(C)' = LiveIn(C)
    BY <1>1, Zenon DEF LiveIn, LiveLeases
  <1>5. /\ Finite(LiveIn(C) \cup {n})
        /\ Count(LiveIn(C) \cup {n}) =
                IF n \in LiveIn(C) THEN Count(LiveIn(C))
                ELSE Count(LiveIn(C)) + 1
    BY <1>3, Zenon DEF Counting
  <1>6. /\ Count(LiveIn(C)) \in Nat
        /\ Count(LiveIn(C) \cup {n}) \in Nat
        /\ Count(LiveIn(C)') \in Nat
        /\ Count(LiveIn(C)') <= Count(LiveIn(C) \cup {n})
    <2>1. \A S : Finite(S) => /\ Count(S) \in Nat
                              /\ \A T : T \subseteq S => Finite(T) /\ Count(T) <= Count(S)
      BY Zenon DEF Counting
    <2>2. Finite(LiveIn(C)') /\ Count(LiveIn(C)') <= Count(LiveIn(C) \cup {n})
      BY <1>4, <1>5, <2>1, Zenon
    <2> QED
      BY <1>3, <1>5, <2>1, <2>2, Zenon
  <1> QED
    BY <1>2, <1>4, <1>5, <1>6

\* CeilingsHold in terms of classes.
CeilingsInv ==
    /\ Finite(leases)
    /\ ClassCeilings

LEMMA CeilingsInit ==
    ASSUME Counting, Init
    PROVE  CeilingsInv
  <1>1. \A C : LiveIn(C) = {}
    BY Zenon DEF Init, LiveIn, LiveLeases
  <1>2. Finite(leases)
    BY Zenon DEF Counting, Init
  <1>3. Count({}) = 0
    BY Zenon DEF Counting
  <1>4. \A C : Count(LiveIn(C)) = 0
    BY <1>1, <1>3, Zenon
  <1>5. 0 <= MaximumPerPrincipal /\ 0 <= MaximumPerSession /\ 0 <= MaximumPerAgentRole
    BY WorkGraphAssumption
  <1> QED
    BY <1>2, <1>4, <1>5, Zenon DEF CeilingsInv, ClassCeilings

LEMMA CeilingsStep ==
    ASSUME Counting, TypeOK, LeasedWhileRunning', CeilingsInv, [Next]_vars
    PROVE  CeilingsInv'
  <1>0. \A C : Count(LiveIn(C)) \in Nat
    BY Zenon DEF Counting, CeilingsInv, LiveIn, LiveLeases
  <1>1. CASE NoLeaseAppears
    <2>1. /\ Finite(leases')
          /\ \A C : Count(LiveIn(C)') <= Count(LiveIn(C))
      BY <1>1, ClassesDoNotGrow, Zenon DEF CeilingsInv
    <2>2. \A C : Count(LiveIn(C)') \in Nat
      BY <2>1, Zenon DEF Counting, LiveIn, LiveLeases
    <2> QED
      BY <1>0, <2>1, <2>2
         DEF CeilingsInv, ClassCeilings, PrincipalClass, SessionClass, RoleClass
  <1>2. ASSUME NEW w \in Workers, NEW r \in Runs, ClaimNext(w, r)
        PROVE  CeilingsInv'
    <2>1. /\ Finite(leases')
          /\ \A C : /\ Count(LiveIn(C)') <= Count(LiveIn(C)) + 1
                    /\ r \notin C => LiveIn(C)' = LiveIn(C)
      BY <1>2, ClaimAddsOne, Zenon DEF CeilingsInv
    <2>2. \A C : Count(LiveIn(C)') \in Nat
      BY <2>1, Zenon DEF Counting, LiveIn, LiveLeases
    <2>3. /\ Count(LiveIn(PrincipalClass(r))) < MaximumPerPrincipal
          /\ Count(LiveIn(SessionClass(SessionOf[r]))) < MaximumPerSession
          /\ Count(LiveIn(RoleClass(r))) < MaximumPerAgentRole
      BY <1>2, CeilingClasses, Zenon DEF ClaimNext
    <2>4. \A x \in Runs :
            Count(LiveIn(PrincipalClass(x))') <= MaximumPerPrincipal
      <3> TAKE x \in Runs
      <3>1. CASE r \in PrincipalClass(x)
        <4>1. PrincipalClass(x) = PrincipalClass(r)
          BY <3>1, Zenon DEF PrincipalClass
        <4> QED
          BY <1>0, <2>1, <2>2, <2>3, <4>1
      <3>2. CASE r \notin PrincipalClass(x)
        BY <2>1, <3>2, Zenon DEF CeilingsInv, ClassCeilings
      <3> QED
        BY <3>1, <3>2, Zenon
    <2>5. \A s \in Sessions :
            Count(LiveIn(SessionClass(s))') <= MaximumPerSession
      <3> TAKE s \in Sessions
      <3>1. CASE r \in SessionClass(s)
        <4>1. s = SessionOf[r]
          BY <3>1, Zenon DEF SessionClass
        <4> QED
          BY <1>0, <2>1, <2>2, <2>3, <4>1
      <3>2. CASE r \notin SessionClass(s)
        BY <2>1, <3>2, Zenon DEF CeilingsInv, ClassCeilings
      <3> QED
        BY <3>1, <3>2, Zenon
    <2>6. \A x \in Runs :
            Count(LiveIn(RoleClass(x))') <= MaximumPerAgentRole
      <3> TAKE x \in Runs
      <3>1. CASE r \in RoleClass(x)
        <4>1. RoleClass(x) = RoleClass(r)
          BY <3>1, Zenon DEF RoleClass, SameRole
        <4> QED
          BY <1>0, <2>1, <2>2, <2>3, <4>1
      <3>2. CASE r \notin RoleClass(x)
        BY <2>1, <3>2, Zenon DEF CeilingsInv, ClassCeilings
      <3> QED
        BY <3>1, <3>2, Zenon
    <2> QED
      BY <2>1, <2>4, <2>5, <2>6, Zenon
      DEF CeilingsInv, ClassCeilings, PrincipalClass, SessionClass, RoleClass
  <1> QED
    BY <1>1, <1>2, LeaseOrigin, Zenon

\* The library's theorems speak of copies of IsFiniteSet and Cardinality; they
\* have the same definitions.
HasEnumeration(S) == \E seq \in Seq(S) : \A s \in S : \E n \in 1..Len(seq) : seq[n] = s
CountFunction(S) ==
    CHOOSE f : f = [T \in SUBSET S |->
        IF T = {} THEN 0 ELSE 1 + f[T \ {CHOOSE x : x \in T}]]

LEMMA CountDefined ==
    ASSUME NEW S
    PROVE  Count(S) = CountFunction(S)[S] /\ (Finite(S) <=> HasEnumeration(S))
  <1>1. Count(S) = CountFunction(S)[S]
    BY Zenon DEF Count, Cardinality, CountFunction
  <1>2. Finite(S) <=> HasEnumeration(S)
    BY Zenon DEF Finite, IsFiniteSet, HasEnumeration
  <1> QED
    BY <1>1, <1>2, Zenon

LOCAL INSTANCE FiniteSetTheorems

LEMMA CountIsCardinality ==
    ASSUME NEW S
    PROVE  Count(S) = Cardinality(S) /\ (Finite(S) <=> IsFiniteSet(S))
  <1>1. Cardinality(S) = CountFunction(S)[S]
    BY Zenon DEF Cardinality, CountFunction
  <1>2. IsFiniteSet(S) <=> HasEnumeration(S)
    BY Zenon DEF IsFiniteSet, HasEnumeration
  <1> QED
    BY <1>1, <1>2, CountDefined, Zenon

LEMMA CountingHolds == Counting
  <1>1. Finite({}) /\ Count({}) = 0
    BY FS_EmptySet, CountIsCardinality, Zenon
  <1>2. ASSUME NEW S, Finite(S)
        PROVE  Count(S) \in Nat /\ \A T : T \subseteq S => Finite(T) /\ Count(T) <= Count(S)
    <2>1. IsFiniteSet(S)
      BY <1>2, CountIsCardinality, Zenon
    <2>2. /\ Cardinality(S) \in Nat
          /\ \A T : T \subseteq S => IsFiniteSet(T) /\ Cardinality(T) <= Cardinality(S)
      <3>1. ASSUME NEW T, T \subseteq S
            PROVE  IsFiniteSet(T) /\ Cardinality(T) <= Cardinality(S)
        BY <2>1, <3>1, FS_Subset, Zenon
      <3> QED
        BY <2>1, <3>1, FS_CardinalityType, Zenon
    <2>3. Count(S) = Cardinality(S)
      BY CountIsCardinality, Zenon
    <2>4. ASSUME NEW T, T \subseteq S
          PROVE  Finite(T) /\ Count(T) <= Count(S)
      <3>1. Count(T) = Cardinality(T) /\ (Finite(T) <=> IsFiniteSet(T))
        BY CountIsCardinality, Zenon
      <3> QED
        BY <2>2, <2>3, <2>4, <3>1, Zenon
    <2> QED
      BY <2>2, <2>3, <2>4, Zenon
  <1>3. ASSUME NEW S, Finite(S), NEW x
        PROVE  /\ Finite(S \cup {x})
               /\ Count(S \cup {x}) = IF x \in S THEN Count(S) ELSE Count(S) + 1
    <2>1. IsFiniteSet(S)
      BY <1>3, CountIsCardinality, Zenon
    <2>2. /\ IsFiniteSet(S \cup {x})
          /\ Cardinality(S \cup {x}) = IF x \in S THEN Cardinality(S) ELSE Cardinality(S) + 1
      BY <2>1, FS_AddElement, Zenon
    <2> QED
      BY <2>2, CountIsCardinality, Zenon
  <1>4. ASSUME NEW A, NEW B, NEW f \in [A -> B], Finite(B),
               \A m, n \in A : f[m] = f[n] => m = n
        PROVE  Finite(A) /\ Count(A) <= Count(B)
    <2>1. f \in Injection(A, B) /\ IsFiniteSet(B)
      BY <1>4, CountIsCardinality, Zenon DEF Injection, IsInjective
    <2>2. IsFiniteSet(A) /\ Cardinality(A) <= Cardinality(B)
      BY <2>1, FS_Injection, Zenon
    <2>3. /\ Count(A) = Cardinality(A) /\ (Finite(A) <=> IsFiniteSet(A))
          /\ Count(B) = Cardinality(B)
      BY CountIsCardinality, Zenon
    <2> QED
      BY <2>2, <2>3, Zenon
  <1>5. \A A, B, f : Finite(B) /\ f \in [A -> B] /\ (\A m, n \in A : f[m] = f[n] => m = n) =>
            Finite(A) /\ Count(A) <= Count(B)
    BY <1>4, Zenon
  <1>6. \A S : Finite(S) =>
            \A x : /\ Finite(S \cup {x})
                  /\ Count(S \cup {x}) = IF x \in S THEN Count(S) ELSE Count(S) + 1
    BY <1>3, Zenon
  <1> QED
    BY <1>1, <1>2, <1>5, <1>6, Zenon DEF Counting

\* The unexpired leases never exceed a ceiling, whatever expires, is recovered
\* or is extended between two claims.
THEOREM CeilingSafety == Spec => []CeilingsHold
  <1>1. WorkGraphInv /\ CeilingsInv => CeilingsHold
    BY CeilingClasses, Zenon DEF WorkGraphInv, CeilingsInv
  <1>2. WorkGraphInv /\ WorkGraphInv' /\ CeilingsInv /\ [Next]_vars => CeilingsInv'
    BY CeilingsStep, CountingHolds, Zenon DEF WorkGraphInv
  <1>3. Init => CeilingsInv
    BY CeilingsInit, CountingHolds, Zenon
  <1> QED
    BY <1>1, <1>2, <1>3, WorkGraphInvariant, PTL DEF Spec

=============================================================================
