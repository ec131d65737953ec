--------------------------- MODULE WorkGraphProofs --------------------------
(***************************************************************************)
(* Proofs about WorkGraph, for every set of sessions, runs and workers and *)
(* every value of the bounds: type correctness, the lease of a running     *)
(* run, how the run, task and turn rows agree, delegations, and the action *)
(* properties.                                                             *)
(***************************************************************************)
EXTENDS WorkGraph, TLAPS

USE WorkGraphAssumption

-----------------------------------------------------------------------------
(* Type correctness. *)

LEMMA TypeInit == Init => TypeOK
  BY DEF Init, TypeOK, RunStatus, TaskStatus, TurnStatus, DelegationState

LEMMA TypeStep == TypeOK /\ [Next]_vars => TypeOK'
  <1> SUFFICES ASSUME TypeOK, [Next]_vars PROVE TypeOK'
    BY Zenon
  <1> USE DEF TypeOK
  <1>1. ASSUME NEW s \in Sessions, NEW r \in Runs, PromoteNext(s, r)
        PROVE  TypeOK'
    BY <1>1, Zenon
       DEF PromoteNext, delegationVars, RunStatus, TaskStatus, TurnStatus
  <1>2. ASSUME NEW s \in Sessions, InterruptBeforeClaim(s) PROVE TypeOK'
    BY <1>2 DEF InterruptBeforeClaim, delegationVars, RunStatus, TaskStatus,
                TurnStatus, Terminal
  <1>3. ASSUME NEW s \in Sessions, InterruptRunning(s) PROVE TypeOK'
    BY <1>3, Zenon DEF InterruptRunning, delegationVars, TaskStatus
  <1>4. ASSUME NEW w \in Workers, NEW r \in Runs, ClaimNext(w, r) PROVE TypeOK'
    BY <1>4 DEF ClaimNext, RunStatus, TaskStatus, DelegationState, Fence, Lease
  <1>5. ASSUME NEW w \in Workers, NEW f \in held[w], WorkerStep(w, f)
        PROVE  TypeOK'
    <2> f \in Fence
      BY Zenon
    <2> USE DEF Fence
    <2>1. CASE Heartbeat(w, f)
      BY <2>1 DEF Heartbeat, LeasesOn, Lease, rowVars, delegationVars
    <2>2. ASSUME NEW st \in RunStatus, GiveBack(w, f, st)
          PROVE  /\ leases' \subseteq Lease
                 /\ run' \in [Runs -> RunStatus]
                 /\ token' \in [Runs -> Nat]
                 /\ held' \in [Workers -> SUBSET Fence]
      BY <2>2 DEF GiveBack
    <2>3. CASE Release(w, f)
      BY <2>2, <2>3, Zenon DEF Release, RunStatus, delegationVars
    <2>4. CASE RequeueProviderRetry(w, f)
      BY <2>2, <2>4 DEF RequeueProviderRetry, RunStatus, delegationVars
    <2>5. ASSUME NEW st \in Terminal, CompleteCanonicalRun(w, f, st)
          PROVE  TypeOK'
      BY <2>2, <2>5, Zenon
         DEF CompleteCanonicalRun, RunStatus, TaskStatus, TurnStatus,
                        Terminal, TurnOutcome, delegationVars
    <2>6. ASSUME NEW st \in Terminal, CompleteDelegatedRun(w, f, st)
          PROVE  TypeOK'
      BY <2>6 DEF CompleteDelegatedRun, RunStatus, TaskStatus, TurnStatus,
                  DelegationState, Terminal, TurnOutcome
    <2>7. CASE RecordAgentEffectProposal(w, f)
      BY <2>2, <2>7, Zenon DEF RecordAgentEffectProposal, RunStatus, TaskStatus,
                        delegationVars
    <2>8. CASE ParkAgentEffectRun(w, f)
      BY <2>2, <2>8, Zenon DEF ParkAgentEffectRun, RunStatus, TaskStatus,
                        delegationVars
    <2>9. ASSUME NEW c \in Delegates, LaunchAgentDelegation(w, f, c)
          PROVE  TypeOK'
      BY <2>9 DEF LaunchAgentDelegation, RunStatus, TaskStatus, TurnStatus,
                  DelegationState
    <2>10. CASE GiveUp(w, f)
      BY <2>10, Zenon DEF GiveUp, rowVars, delegationVars
    <2> QED
      BY <1>5, <2>1, <2>3, <2>4, <2>5, <2>6, <2>7, <2>8, <2>9, <2>10, Zenon
      DEF WorkerStep
  <1>6. ASSUME NEW r \in Runs, ResumeAgentEffectRun(r) PROVE TypeOK'
    BY <1>6 DEF ResumeAgentEffectRun, RunStatus, TaskStatus, delegationVars
  <1>7. ASSUME NEW r \in Runs, RequestTaskCancellation(r) PROVE TypeOK'
    BY <1>7 DEF RequestTaskCancellation, RunStatus, TaskStatus, delegationVars
  <1>8. ASSUME NEW r \in Runs, PauseIdleTask(r) PROVE TypeOK'
    BY <1>8, Zenon DEF PauseIdleTask, TaskStatus, delegationVars
  <1>9. ASSUME NEW r \in Runs, NEW parked \in SUBSET {r},
               PauseRunningTask(r, parked)
        PROVE  TypeOK'
    BY <1>9 DEF PauseRunningTask, RecoverLeases, RunStatus, TaskStatus,
                delegationVars
  <1>10. ASSUME NEW r \in Runs, ResumeTask(r) PROVE TypeOK'
    BY <1>10, Zenon DEF ResumeTask, TaskStatus, RunStatus, delegationVars
  <1>11. ASSUME NEW S \in SUBSET leases, NEW parked, RecoveryStep(S, parked)
         PROVE  TypeOK'
    BY <1>11 DEF RecoveryStep, RecoverExpiredLeases, RecoverStartup,
                 RecoverLeases, TaskToWaiting, RunStatus, TaskStatus,
                 delegationVars
  <1>12. CASE BecomeReady
    BY <1>12, Zenon DEF BecomeReady, rowVars, delegationVars
  <1>13. CASE Crash
    BY <1>13, Zenon DEF Crash, rowVars, delegationVars
  <1>14. CASE Tick
    BY <1>14 DEF Tick, Less, Lease
  <1>15. CASE UNCHANGED vars
    BY <1>15, Zenon DEF vars, rowVars, delegationVars
  <1> HIDE DEF TypeOK
  <1> QED
    BY <1>1, <1>2, <1>3, <1>4, <1>5, <1>6, <1>7, <1>8, <1>9, <1>10, <1>11,
       <1>12, <1>13, <1>14, <1>15, Zenon
    DEF Next, OwnerStep

\* Every variable keeps its type, whatever the bounds are.
THEOREM TypeCorrect == Spec => []TypeOK
  BY TypeInit, TypeStep, PTL DEF Spec

-----------------------------------------------------------------------------
(* The lease of a running run. *)

LEMMA LeasedInit == Init => LeasedWhileRunning
  BY Zenon DEF Init, LeasedWhileRunning, LeasesOn

LEMMA LeasedStep ==
    TypeOK /\ LeasedWhileRunning /\ [Next]_vars => LeasedWhileRunning'
  <1> SUFFICES ASSUME TypeOK, LeasedWhileRunning, [Next]_vars
               PROVE  LeasedWhileRunning'
    BY Zenon
  <1> USE DEF TypeOK, LeasedWhileRunning, RecoverableLease, LeasesOn
  <1> leases \subseteq Lease
    BY Zenon
  <1>1. ASSUME NEW s \in Sessions, NEW r \in Runs, PromoteNext(s, r)
        PROVE  LeasedWhileRunning'
    BY <1>1, Zenon DEF PromoteNext, Lease
  <1>2. ASSUME NEW s \in Sessions, InterruptBeforeClaim(s)
        PROVE  LeasedWhileRunning'
    BY <1>2 DEF InterruptBeforeClaim, Lease
  <1>3. ASSUME NEW s \in Sessions, InterruptRunning(s)
        PROVE  LeasedWhileRunning'
    BY <1>3, Zenon DEF InterruptRunning
  <1>4. ASSUME NEW w \in Workers, NEW r \in Runs, ClaimNext(w, r)
        PROVE  LeasedWhileRunning'
    <2> DEFINE new == [run |-> r, token |-> token[r] + 1, owner |-> w,
                       ttl |-> LeaseTtl]
    <2>1. /\ leases' = leases \cup {new}
          /\ run' = [run EXCEPT ![r] = "running"]
          /\ token' = [token EXCEPT ![r] = @ + 1]
          /\ \A l \in leases : l.run # r
      BY <1>4, Zenon DEF ClaimNext, Claimable
    <2>2. new.run = r /\ new.token = token[r] + 1
      BY Zenon
    <2> HIDE DEF new
    <2>3. \A l \in leases' : run'[l.run] = "running" /\ token'[l.run] = l.token
      BY <2>1, <2>2, Zenon DEF Lease
    <2>4. \A x \in Runs : run'[x] = "running" => \E l \in leases' : l.run = x
      BY <2>1, <2>2
    <2>5. \A l, m \in leases' : l.run = m.run => l = m
      BY <2>1, SMTT(20), <2>2
    <2> QED
      BY <2>3, <2>4, <2>5, Zenon
  <1>5. ASSUME NEW w \in Workers, NEW f \in held[w], WorkerStep(w, f)
        PROVE  LeasedWhileRunning'
    <2> f \in Fence
      BY Zenon
    <2> USE DEF Fence
    <2>1. CASE Heartbeat(w, f)
      <3>1. PICK l \in leases :
                leases' = (leases \ {l}) \cup {[l EXCEPT !.ttl = LeaseTtl]}
        BY <2>1, Zenon DEF Heartbeat
      <3> DEFINE k == [l EXCEPT !.ttl = LeaseTtl]
      <3>2. k.run = l.run /\ k.token = l.token
        BY DEF Lease
      <3>3. UNCHANGED <<run, token>>
        BY <2>1, Zenon DEF Heartbeat, rowVars
      <3>4. leases' = (leases \ {l}) \cup {k}
        BY <3>1, Zenon
      <3> HIDE DEF k
      <3> QED
        BY <3>2, <3>3, <3>4
    <2>2. ASSUME NEW st \in RunStatus \ {"running"}, GiveBack(w, f, st)
          PROVE  LeasedWhileRunning'
      BY <2>2 DEF GiveBack, Lease
    <2>3. CASE Release(w, f)
      BY <2>2, <2>3, Zenon DEF Release, RunStatus
    <2>4. CASE RequeueProviderRetry(w, f)
      BY <2>2, <2>4, Zenon DEF RequeueProviderRetry, RunStatus
    <2>5. ASSUME NEW st \in Terminal, CompleteCanonicalRun(w, f, st)
          PROVE  LeasedWhileRunning'
      BY <2>2, <2>5, Zenon DEF CompleteCanonicalRun, RunStatus, Terminal
    <2>6. ASSUME NEW st \in Terminal, CompleteDelegatedRun(w, f, st)
          PROVE  LeasedWhileRunning'
      BY <2>6 DEF CompleteDelegatedRun, Terminal, Lease, Fenced
    <2>7. CASE RecordAgentEffectProposal(w, f)
      BY <2>2, <2>7, Zenon DEF RecordAgentEffectProposal, RunStatus
    <2>8. CASE ParkAgentEffectRun(w, f)
      BY <2>2, <2>8, Zenon DEF ParkAgentEffectRun, RunStatus
    <2>9. ASSUME NEW c \in Delegates, LaunchAgentDelegation(w, f, c)
          PROVE  LeasedWhileRunning'
      BY <2>9 DEF LaunchAgentDelegation, Lease, Fenced
    <2>10. CASE GiveUp(w, f)
      BY <2>10, Zenon DEF GiveUp, rowVars
    <2> QED
      BY <1>5, <2>1, <2>3, <2>4, <2>5, <2>6, <2>7, <2>8, <2>9, <2>10, Zenon
      DEF WorkerStep
  <1>6. ASSUME NEW r \in Runs, ResumeAgentEffectRun(r)
        PROVE  LeasedWhileRunning'
    BY <1>6, Zenon DEF ResumeAgentEffectRun, Lease
  <1>7. ASSUME NEW r \in Runs, RequestTaskCancellation(r)
        PROVE  LeasedWhileRunning'
    BY <1>7, Zenon DEF RequestTaskCancellation, Lease
  <1>8. ASSUME NEW r \in Runs, PauseIdleTask(r) PROVE LeasedWhileRunning'
    BY <1>8, Zenon DEF PauseIdleTask
  <1>9. ASSUME NEW S \in SUBSET leases, NEW parked, RecoverLeases(S, parked)
        PROVE  LeasedWhileRunning'
    BY <1>9 DEF RecoverLeases, Lease
  <1>10. ASSUME NEW r \in Runs, NEW parked, PauseRunningTask(r, parked)
         PROVE  LeasedWhileRunning'
    BY <1>9, <1>10, Zenon DEF PauseRunningTask
  <1>11. ASSUME NEW r \in Runs, ResumeTask(r) PROVE LeasedWhileRunning'
    BY <1>11, Zenon DEF ResumeTask
  <1>12. ASSUME NEW S \in SUBSET leases, NEW parked, RecoveryStep(S, parked)
         PROVE  LeasedWhileRunning'
    BY <1>9, <1>12, Zenon DEF RecoveryStep, RecoverExpiredLeases, RecoverStartup
  <1>13. CASE BecomeReady \/ Crash
    BY <1>13, Zenon DEF BecomeReady, Crash, rowVars
  <1>14. CASE Tick
    <2> DEFINE older(l) == [l EXCEPT !.ttl = Less(l.ttl)]
    <2>1. leases' = {older(l) : l \in leases} /\ UNCHANGED <<run, token>>
      BY <1>14, Zenon DEF Tick
    <2>2. \A l \in leases : older(l).run = l.run /\ older(l).token = l.token
      BY DEF Lease
    <2> HIDE DEF older
    <2> QED
      BY <2>1, <2>2 DEF Lease
  <1>15. CASE UNCHANGED vars
    BY <1>15, Zenon DEF vars, rowVars
  <1> HIDE DEF TypeOK, LeasedWhileRunning, RecoverableLease, LeasesOn
  <1> QED
    BY <1>1, <1>2, <1>3, <1>4, <1>5, <1>6, <1>7, <1>8, <1>10, <1>11, <1>12,
       <1>13, <1>14, <1>15, Zenon
    DEF Next, OwnerStep

-----------------------------------------------------------------------------
(* The run row and the task row. *)

LEMMA RunTaskStep ==
    TypeOK /\ RunTaskAgree /\ [Next]_vars
        => RunTaskAgree'
  <1> SUFFICES ASSUME TypeOK, RunTaskAgree, [Next]_vars
               PROVE  RunTaskAgree'
    BY Zenon
  <1> USE DEF TypeOK, RunTaskAgree
  <1>1. ASSUME NEW s \in Sessions, NEW r \in Runs, PromoteNext(s, r)
        PROVE  RunTaskAgree'
    BY <1>1, Zenon DEF PromoteNext
  <1>2. ASSUME NEW s \in Sessions, InterruptBeforeClaim(s)
        PROVE  RunTaskAgree'
    BY <1>2 DEF InterruptBeforeClaim
  <1>3. ASSUME NEW s \in Sessions, InterruptRunning(s)
        PROVE  RunTaskAgree'
    BY <1>3, Zenon DEF InterruptRunning
  <1>4. ASSUME NEW w \in Workers, NEW r \in Runs, ClaimNext(w, r)
        PROVE  RunTaskAgree'
    BY <1>4, Zenon DEF ClaimNext, Claimable
  <1>5. ASSUME NEW w \in Workers, NEW f \in held[w], WorkerStep(w, f)
        PROVE  RunTaskAgree'
    <2> f.run \in Runs /\ f.token \in Nat
      BY DEF TypeOK, Fence
    <2>1. CASE Heartbeat(w, f) \/ GiveUp(w, f)
      BY <2>1, Zenon DEF Heartbeat, GiveUp, rowVars
    <2>2. CASE Release(w, f)
      BY <2>2, Zenon DEF Release, GiveBack, Fenced
    <2>3. CASE RequeueProviderRetry(w, f)
      BY <2>3, Zenon DEF RequeueProviderRetry, GiveBack, Fenced
    <2>4. ASSUME NEW st \in Terminal, CompleteCanonicalRun(w, f, st)
          PROVE  RunTaskAgree'
      BY <2>4, Zenon DEF CompleteCanonicalRun, CompletionStatus, GiveBack
    <2>5. ASSUME NEW st \in Terminal, CompleteDelegatedRun(w, f, st)
          PROVE  RunTaskAgree'
      BY <2>5 DEF CompleteDelegatedRun, CompletionStatus, Fenced
    <2>6. CASE RecordAgentEffectProposal(w, f)
      BY <2>6, Zenon DEF RecordAgentEffectProposal, GiveBack, Fenced
    <2>7. CASE ParkAgentEffectRun(w, f)
      BY <2>7, Zenon DEF ParkAgentEffectRun, GiveBack, Fenced
    <2>8. ASSUME NEW c \in Delegates, LaunchAgentDelegation(w, f, c)
          PROVE  RunTaskAgree'
      BY <2>8, Zenon DEF LaunchAgentDelegation, Fenced
    <2> QED
      BY <1>5, <2>1, <2>2, <2>3, <2>4, <2>5, <2>6, <2>7, <2>8, Zenon
         DEF WorkerStep
  <1>6. ASSUME NEW r \in Runs, ResumeAgentEffectRun(r)
        PROVE  RunTaskAgree'
    BY <1>6, Zenon DEF ResumeAgentEffectRun
  <1>7. ASSUME NEW r \in Runs, RequestTaskCancellation(r)
        PROVE  RunTaskAgree'
    BY <1>7, Zenon DEF RequestTaskCancellation
  <1>8. ASSUME NEW r \in Runs, PauseIdleTask(r)
        PROVE  RunTaskAgree'
    BY <1>8, Zenon DEF PauseIdleTask
  <1>9. ASSUME NEW r \in Runs, NEW parked, PauseRunningTask(r, parked)
        PROVE  RunTaskAgree'
    BY <1>9 DEF PauseRunningTask, RecoverLeases, RecoverableLease, LeasesOn
  <1>10. ASSUME NEW r \in Runs, ResumeTask(r)
         PROVE  RunTaskAgree'
    BY <1>10, Zenon DEF ResumeTask
  <1>11. ASSUME NEW S \in SUBSET leases, NEW parked, RecoveryStep(S, parked)
         PROVE  RunTaskAgree'
    BY <1>11 DEF RecoveryStep, RecoverExpiredLeases, RecoverStartup,
                 RecoverLeases, RecoverableLease, TaskToWaiting
  <1>12. CASE BecomeReady \/ Crash \/ Tick
    BY <1>12, Zenon DEF BecomeReady, Crash, Tick, rowVars
  <1>13. CASE UNCHANGED vars
    BY <1>13, Zenon DEF vars, rowVars
  <1> HIDE DEF TypeOK, RunTaskAgree
  <1> QED
    BY <1>1, <1>2, <1>3, <1>4, <1>5, <1>6, <1>7, <1>8, <1>9, <1>10, <1>11,
       <1>12, <1>13, Zenon
    DEF Next, OwnerStep

-----------------------------------------------------------------------------
(* The cancellation flag and the task row. *)

LEMMA CancellationStep ==
    TypeOK /\ RunTaskAgree /\ CancellationWins /\ [Next]_vars
        => CancellationWins'
  <1> SUFFICES ASSUME TypeOK, RunTaskAgree, CancellationWins, [Next]_vars
               PROVE  CancellationWins'
    BY Zenon
  <1> USE DEF TypeOK, CancellationWins, RunTaskAgree, Terminal
  <1>1. ASSUME NEW s \in Sessions, NEW r \in Runs, PromoteNext(s, r)
        PROVE  CancellationWins'
    BY <1>1, Zenon DEF PromoteNext
  <1>2. ASSUME NEW s \in Sessions, InterruptBeforeClaim(s)
        PROVE  CancellationWins'
    BY <1>2 DEF InterruptBeforeClaim
  <1>3. ASSUME NEW s \in Sessions, InterruptRunning(s)
        PROVE  CancellationWins'
    BY <1>3 DEF InterruptRunning
  <1>4. ASSUME NEW w \in Workers, NEW r \in Runs, ClaimNext(w, r)
        PROVE  CancellationWins'
    BY <1>4, Zenon DEF ClaimNext, Claimable
  <1>5. ASSUME NEW w \in Workers, NEW f \in held[w], WorkerStep(w, f)
        PROVE  CancellationWins'
    <2> f.run \in Runs /\ f.token \in Nat
      BY DEF TypeOK, Fence
    <2>1. CASE Heartbeat(w, f) \/ GiveUp(w, f)
      BY <2>1, Zenon DEF Heartbeat, GiveUp, rowVars
    <2>2. CASE Release(w, f)
      BY <2>2, Zenon DEF Release, GiveBack, Fenced
    <2>3. CASE RequeueProviderRetry(w, f)
      BY <2>3, Zenon DEF RequeueProviderRetry, GiveBack, Fenced
    <2>4. ASSUME NEW st \in Terminal, CompleteCanonicalRun(w, f, st)
          PROVE  CancellationWins'
      BY <2>4, Zenon DEF CompleteCanonicalRun, CompletionStatus, GiveBack
    <2>5. ASSUME NEW st \in Terminal, CompleteDelegatedRun(w, f, st)
          PROVE  CancellationWins'
      BY <2>5 DEF CompleteDelegatedRun, CompletionStatus, Fenced
    <2>6. CASE RecordAgentEffectProposal(w, f)
      BY <2>6, Zenon DEF RecordAgentEffectProposal, GiveBack, Fenced
    <2>7. CASE ParkAgentEffectRun(w, f)
      BY <2>7, Zenon DEF ParkAgentEffectRun, GiveBack, Fenced
    <2>8. ASSUME NEW c \in Delegates, LaunchAgentDelegation(w, f, c)
          PROVE  CancellationWins'
      BY <2>8, Zenon DEF LaunchAgentDelegation, Fenced
    <2> QED
      BY <1>5, <2>1, <2>2, <2>3, <2>4, <2>5, <2>6, <2>7, <2>8, Zenon
         DEF WorkerStep
  <1>6. ASSUME NEW r \in Runs, ResumeAgentEffectRun(r)
        PROVE  CancellationWins'
    BY <1>6, Zenon DEF ResumeAgentEffectRun
  <1>7. ASSUME NEW r \in Runs, RequestTaskCancellation(r)
        PROVE  CancellationWins'
    <2> DEFINE stopped == {r} \cup ActiveChildren(r)
    <2>1. /\ cancel' = [x \in Runs |-> cancel[x] \/ x \in stopped]
          /\ task' = [x \in Runs |->
                        IF x \in stopped THEN "cancelling" ELSE task[x]]
      BY <1>7, Zenon DEF RequestTaskCancellation
    <2> HIDE DEF stopped
    <2> QED
      BY <2>1, Zenon
  <1>8. ASSUME NEW r \in Runs, PauseIdleTask(r)
        PROVE  CancellationWins'
    BY <1>8, Zenon DEF PauseIdleTask
  <1>9. ASSUME NEW r \in Runs, NEW parked, PauseRunningTask(r, parked)
        PROVE  CancellationWins'
    BY <1>9, Zenon
       DEF PauseRunningTask, RecoverLeases, RecoverableLease, LeasesOn
  <1>10. ASSUME NEW r \in Runs, ResumeTask(r)
         PROVE  CancellationWins'
    BY <1>10, Zenon DEF ResumeTask
  <1>11. ASSUME NEW S \in SUBSET leases, NEW parked, RecoveryStep(S, parked)
         PROVE  CancellationWins'
    BY <1>11 DEF RecoveryStep, RecoverExpiredLeases, RecoverStartup,
                 RecoverLeases, RecoverableLease, TaskToWaiting
  <1>12. CASE BecomeReady \/ Crash \/ Tick
    BY <1>12, Zenon DEF BecomeReady, Crash, Tick, rowVars
  <1>13. CASE UNCHANGED vars
    BY <1>13, Zenon DEF vars, rowVars
  <1> HIDE DEF TypeOK, CancellationWins, RunTaskAgree, Terminal
  <1> QED
    BY <1>1, <1>2, <1>3, <1>4, <1>5, <1>6, <1>7, <1>8, <1>9, <1>10, <1>11,
       <1>12, <1>13, Zenon
    DEF Next, OwnerStep

-----------------------------------------------------------------------------
(* The active turn of a session. *)

LEMMA ActiveTurnStep ==
    TypeOK /\ ActiveTurnAgree /\ [Next]_vars
        => ActiveTurnAgree'
  <1> SUFFICES ASSUME TypeOK, ActiveTurnAgree, [Next]_vars
               PROVE  ActiveTurnAgree'
    BY Zenon
  <1> USE DEF TypeOK, ActiveTurnAgree, Canonical
  <1>1. ASSUME NEW s \in Sessions, NEW r \in Runs, PromoteNext(s, r)
        PROVE  ActiveTurnAgree'
    BY <1>1 DEF PromoteNext
  <1>2. ASSUME NEW s \in Sessions, InterruptBeforeClaim(s)
        PROVE  ActiveTurnAgree'
    BY <1>2 DEF InterruptBeforeClaim
  <1>3. ASSUME NEW s \in Sessions, InterruptRunning(s)
        PROVE  ActiveTurnAgree'
    BY <1>3, Zenon DEF InterruptRunning
  <1>4. ASSUME NEW w \in Workers, NEW r \in Runs, ClaimNext(w, r)
        PROVE  ActiveTurnAgree'
    BY <1>4, SMTT(20) DEF ClaimNext, Claimable
  <1>5. ASSUME NEW w \in Workers, NEW f \in held[w], WorkerStep(w, f)
        PROVE  ActiveTurnAgree'
    <2> f.run \in Runs /\ f.token \in Nat
      BY DEF TypeOK, Fence
    <2>1. CASE Heartbeat(w, f) \/ GiveUp(w, f)
      BY <2>1, SMTT(20) DEF Heartbeat, GiveUp, rowVars
    <2>2. CASE Release(w, f)
      BY <2>2 DEF Release, GiveBack, Fenced
    <2>3. CASE RequeueProviderRetry(w, f)
      BY <2>3 DEF RequeueProviderRetry, GiveBack, Fenced
    <2>4. ASSUME NEW st \in Terminal, CompleteCanonicalRun(w, f, st)
          PROVE  ActiveTurnAgree'
      BY <2>4 DEF CompleteCanonicalRun, GiveBack, Fenced, TurnOutcome, Terminal
    <2>5. ASSUME NEW st \in Terminal, CompleteDelegatedRun(w, f, st)
          PROVE  ActiveTurnAgree'
      BY <2>5 DEF CompleteDelegatedRun, Fenced, TurnOutcome, Terminal
    <2>6. CASE RecordAgentEffectProposal(w, f)
      BY <2>6 DEF RecordAgentEffectProposal, GiveBack, Fenced
    <2>7. CASE ParkAgentEffectRun(w, f)
      BY <2>7 DEF ParkAgentEffectRun, GiveBack, Fenced
    <2>8. ASSUME NEW c \in Delegates, LaunchAgentDelegation(w, f, c)
          PROVE  ActiveTurnAgree'
      BY <2>8 DEF LaunchAgentDelegation, Fenced
    <2> QED
      BY <1>5, <2>1, <2>2, <2>3, <2>4, <2>5, <2>6, <2>7, <2>8, Zenon
         DEF WorkerStep
  <1>6. ASSUME NEW r \in Runs, ResumeAgentEffectRun(r)
        PROVE  ActiveTurnAgree'
    BY <1>6 DEF ResumeAgentEffectRun
  <1>7. ASSUME NEW r \in Runs, RequestTaskCancellation(r)
        PROVE  ActiveTurnAgree'
    BY <1>7, Zenon DEF RequestTaskCancellation
  <1>8. ASSUME NEW r \in Runs, PauseIdleTask(r)
        PROVE  ActiveTurnAgree'
    BY <1>8, Zenon DEF PauseIdleTask
  <1>9. ASSUME NEW r \in Runs, NEW parked, PauseRunningTask(r, parked)
        PROVE  ActiveTurnAgree'
    BY <1>9 DEF PauseRunningTask, RecoverLeases, RecoverableLease, LeasesOn
  <1>10. ASSUME NEW r \in Runs, ResumeTask(r)
         PROVE  ActiveTurnAgree'
    BY <1>10, Zenon DEF ResumeTask
  <1>11. ASSUME NEW S \in SUBSET leases, NEW parked, RecoveryStep(S, parked)
         PROVE  ActiveTurnAgree'
    BY <1>11 DEF RecoveryStep, RecoverExpiredLeases, RecoverStartup,
                 RecoverLeases, RecoverableLease, TaskToWaiting
  <1>12. CASE BecomeReady \/ Crash \/ Tick
    BY <1>12, Zenon DEF BecomeReady, Crash, Tick, rowVars
  <1>13. CASE UNCHANGED vars
    BY <1>13, Zenon DEF vars, rowVars
  <1> HIDE DEF TypeOK, ActiveTurnAgree, Canonical
  <1> QED
    BY <1>1, <1>2, <1>3, <1>4, <1>5, <1>6, <1>7, <1>8, <1>9, <1>10, <1>11,
       <1>12, <1>13, Zenon
    DEF Next, OwnerStep

-----------------------------------------------------------------------------
(* A finished run. *)

LEMMA FinalStep ==
    TypeOK /\ RunTaskAgree /\ [Next]_vars
        => KeepsTerminal
  <1> SUFFICES ASSUME TypeOK, RunTaskAgree, [Next]_vars
               PROVE  KeepsTerminal
    BY Zenon
  <1> USE DEF TypeOK, RunTaskAgree, Terminal, KeepsTerminal
  <1>1. ASSUME NEW s \in Sessions, NEW r \in Runs, PromoteNext(s, r)
        PROVE  KeepsTerminal
    BY <1>1, Zenon DEF PromoteNext
  <1>2. ASSUME NEW s \in Sessions, InterruptBeforeClaim(s)
        PROVE  KeepsTerminal
    BY <1>2 DEF InterruptBeforeClaim
  <1>3. ASSUME NEW s \in Sessions, InterruptRunning(s)
        PROVE  KeepsTerminal
    BY <1>3, Zenon DEF InterruptRunning
  <1>4. ASSUME NEW w \in Workers, NEW r \in Runs, ClaimNext(w, r)
        PROVE  KeepsTerminal
    BY <1>4, SMTT(20) DEF ClaimNext, Claimable
  <1>5. ASSUME NEW w \in Workers, NEW f \in held[w], WorkerStep(w, f)
        PROVE  KeepsTerminal
    <2> f.run \in Runs /\ f.token \in Nat
      BY DEF TypeOK, Fence
    <2>1. CASE Heartbeat(w, f) \/ GiveUp(w, f)
      BY <2>1, SMTT(20) DEF Heartbeat, GiveUp, rowVars
    <2>2. CASE Release(w, f)
      BY <2>2, Zenon DEF Release, GiveBack, Fenced
    <2>3. CASE RequeueProviderRetry(w, f)
      BY <2>3, Zenon DEF RequeueProviderRetry, GiveBack, Fenced
    <2>4. ASSUME NEW st \in Terminal, CompleteCanonicalRun(w, f, st)
          PROVE  KeepsTerminal
      BY <2>4, Zenon DEF CompleteCanonicalRun, CompletionStatus, GiveBack
    <2>5. ASSUME NEW st \in Terminal, CompleteDelegatedRun(w, f, st)
          PROVE  KeepsTerminal
      BY <2>5 DEF CompleteDelegatedRun, CompletionStatus, Fenced
    <2>6. CASE RecordAgentEffectProposal(w, f)
      BY <2>6, Zenon DEF RecordAgentEffectProposal, GiveBack, Fenced
    <2>7. CASE ParkAgentEffectRun(w, f)
      BY <2>7, Zenon DEF ParkAgentEffectRun, GiveBack, Fenced
    <2>8. ASSUME NEW c \in Delegates, LaunchAgentDelegation(w, f, c)
          PROVE  KeepsTerminal
      BY <2>8, Zenon DEF LaunchAgentDelegation, Fenced
    <2> QED
      BY <1>5, <2>1, <2>2, <2>3, <2>4, <2>5, <2>6, <2>7, <2>8, Zenon
         DEF WorkerStep
  <1>6. ASSUME NEW r \in Runs, ResumeAgentEffectRun(r)
        PROVE  KeepsTerminal
    BY <1>6, Zenon DEF ResumeAgentEffectRun
  <1>7. ASSUME NEW r \in Runs, RequestTaskCancellation(r)
        PROVE  KeepsTerminal
    BY <1>7, Zenon DEF RequestTaskCancellation
  <1>8. ASSUME NEW r \in Runs, PauseIdleTask(r)
        PROVE  KeepsTerminal
    BY <1>8, SMTT(20) DEF PauseIdleTask
  <1>9. ASSUME NEW r \in Runs, NEW parked, PauseRunningTask(r, parked)
        PROVE  KeepsTerminal
    BY <1>9, Zenon
       DEF PauseRunningTask, RecoverLeases, RecoverableLease, LeasesOn
  <1>10. ASSUME NEW r \in Runs, ResumeTask(r)
         PROVE  KeepsTerminal
    BY <1>10, SMTT(20) DEF ResumeTask
  <1>11. ASSUME NEW S \in SUBSET leases, NEW parked, RecoveryStep(S, parked)
         PROVE  KeepsTerminal
    BY <1>11 DEF RecoveryStep, RecoverExpiredLeases, RecoverStartup,
                 RecoverLeases, RecoverableLease, TaskToWaiting
  <1>12. CASE BecomeReady \/ Crash \/ Tick
    BY <1>12, Zenon DEF BecomeReady, Crash, Tick, rowVars
  <1>13. CASE UNCHANGED vars
    BY <1>13, Zenon DEF vars, rowVars
  <1> HIDE DEF TypeOK, RunTaskAgree, Terminal, KeepsTerminal
  <1> QED
    BY <1>1, <1>2, <1>3, <1>4, <1>5, <1>6, <1>7, <1>8, <1>9, <1>10, <1>11,
       <1>12, <1>13, Zenon
    DEF Next, OwnerStep

-----------------------------------------------------------------------------
(* A waiting parent and its child. *)

LEMMA ParentStep ==
    TypeOK /\ ActiveTurnAgree /\ ParentAwaitsChild /\ [Next]_vars
        => ParentAwaitsChild'
  <1> SUFFICES ASSUME TypeOK, ActiveTurnAgree, ParentAwaitsChild, [Next]_vars
               PROVE  ParentAwaitsChild'
    BY Zenon
  <1> USE DEF TypeOK, ParentAwaitsChild, ActiveTurnAgree, ActiveChildren,
              Canonical
  <1>1. ASSUME NEW s \in Sessions, NEW r \in Runs, PromoteNext(s, r)
        PROVE  ParentAwaitsChild'
    BY <1>1 DEF PromoteNext, delegationVars
  <1>2. ASSUME NEW s \in Sessions, InterruptBeforeClaim(s)
        PROVE  ParentAwaitsChild'
    BY <1>2 DEF InterruptBeforeClaim, delegationVars
  <1>3. ASSUME NEW s \in Sessions, InterruptRunning(s)
        PROVE  ParentAwaitsChild'
    BY <1>3 DEF InterruptRunning, delegationVars
  <1>4. ASSUME NEW w \in Workers, NEW r \in Runs, ClaimNext(w, r)
        PROVE  ParentAwaitsChild'
    BY <1>4 DEF ClaimNext, Claimable
  <1>5. ASSUME NEW w \in Workers, NEW f \in held[w], WorkerStep(w, f)
        PROVE  ParentAwaitsChild'
    <2> f.run \in Runs /\ f.token \in Nat
      BY DEF TypeOK, Fence
    <2>1. CASE Heartbeat(w, f) \/ GiveUp(w, f)
      BY <2>1 DEF Heartbeat, GiveUp, rowVars, delegationVars
    <2>2. CASE Release(w, f)
      BY <2>2 DEF Release, GiveBack, Fenced, delegationVars
    <2>3. CASE RequeueProviderRetry(w, f)
      BY <2>3 DEF RequeueProviderRetry, GiveBack, Fenced, delegationVars
    <2>4. ASSUME NEW st \in Terminal, CompleteCanonicalRun(w, f, st)
          PROVE  ParentAwaitsChild'
      BY <2>4 DEF CompleteCanonicalRun, GiveBack, Fenced, Terminal,
                  delegationVars
    <2>5. ASSUME NEW st \in Terminal, CompleteDelegatedRun(w, f, st)
          PROVE  ParentAwaitsChild'
      BY <2>5 DEF CompleteDelegatedRun, Fenced, Terminal
    <2>6. CASE RecordAgentEffectProposal(w, f)
      BY <2>6 DEF RecordAgentEffectProposal, GiveBack, Fenced, delegationVars
    <2>7. CASE ParkAgentEffectRun(w, f)
      BY <2>7 DEF ParkAgentEffectRun, GiveBack, Fenced, delegationVars
    <2>8. ASSUME NEW c \in Delegates, LaunchAgentDelegation(w, f, c)
          PROVE  ParentAwaitsChild'
      BY <2>8 DEF LaunchAgentDelegation, Fenced
    <2> QED
      BY <1>5, <2>1, <2>2, <2>3, <2>4, <2>5, <2>6, <2>7, <2>8, Zenon
         DEF WorkerStep
  <1>6. ASSUME NEW r \in Runs, ResumeAgentEffectRun(r)
        PROVE  ParentAwaitsChild'
    BY <1>6 DEF ResumeAgentEffectRun, delegationVars
  <1>7. ASSUME NEW r \in Runs, RequestTaskCancellation(r)
        PROVE  ParentAwaitsChild'
    BY <1>7 DEF RequestTaskCancellation, delegationVars
  <1>8. ASSUME NEW r \in Runs, PauseIdleTask(r)
        PROVE  ParentAwaitsChild'
    BY <1>8 DEF PauseIdleTask, delegationVars
  <1>9. ASSUME NEW r \in Runs, NEW parked, PauseRunningTask(r, parked)
        PROVE  ParentAwaitsChild'
    BY <1>9 DEF PauseRunningTask, RecoverLeases, RecoverableLease, LeasesOn,
                delegationVars
  <1>10. ASSUME NEW r \in Runs, ResumeTask(r)
         PROVE  ParentAwaitsChild'
    BY <1>10 DEF ResumeTask, delegationVars
  <1>11. ASSUME NEW S \in SUBSET leases, NEW parked, RecoveryStep(S, parked)
         PROVE  ParentAwaitsChild'
    BY <1>11 DEF RecoveryStep, RecoverExpiredLeases, RecoverStartup,
                 RecoverLeases, RecoverableLease, TaskToWaiting, delegationVars
  <1>12. CASE BecomeReady \/ Crash \/ Tick
    BY <1>12 DEF BecomeReady, Crash, Tick, rowVars, delegationVars
  <1>13. CASE UNCHANGED vars
    BY <1>13 DEF vars, rowVars, delegationVars
  <1> HIDE DEF TypeOK, ParentAwaitsChild, ActiveTurnAgree, ActiveChildren,
               Canonical
  <1> QED
    BY <1>1, <1>2, <1>3, <1>4, <1>5, <1>6, <1>7, <1>8, <1>9, <1>10, <1>11,
       <1>12, <1>13, Zenon
    DEF Next, OwnerStep

-----------------------------------------------------------------------------
(* The cancellation of a waiting parent. *)

LEMMA ReachesChildStep ==
    TypeOK /\ ParentAwaitsChild /\ CancellationReachesChild /\ [Next]_vars
        => CancellationReachesChild'
  <1> SUFFICES ASSUME TypeOK, ParentAwaitsChild, CancellationReachesChild,
                      [Next]_vars
               PROVE  CancellationReachesChild'
    BY Zenon
  <1> USE DEF TypeOK, ParentAwaitsChild, CancellationReachesChild,
              ActiveChildren, Canonical
  <1>1. ASSUME NEW s \in Sessions, NEW r \in Runs, PromoteNext(s, r)
        PROVE  CancellationReachesChild'
    BY <1>1, Zenon DEF PromoteNext, delegationVars
  <1>2. ASSUME NEW s \in Sessions, InterruptBeforeClaim(s)
        PROVE  CancellationReachesChild'
    BY <1>2 DEF InterruptBeforeClaim, delegationVars
  <1>3. ASSUME NEW s \in Sessions, InterruptRunning(s)
        PROVE  CancellationReachesChild'
    BY <1>3, Zenon DEF InterruptRunning, delegationVars
  <1>4. ASSUME NEW w \in Workers, NEW r \in Runs, ClaimNext(w, r)
        PROVE  CancellationReachesChild'
    BY <1>4, Zenon DEF ClaimNext, Claimable
  <1>5. ASSUME NEW w \in Workers, NEW f \in held[w], WorkerStep(w, f)
        PROVE  CancellationReachesChild'
    <2> f.run \in Runs /\ f.token \in Nat
      BY DEF TypeOK, Fence
    <2>1. CASE Heartbeat(w, f) \/ GiveUp(w, f)
      BY <2>1 DEF Heartbeat, GiveUp, rowVars, delegationVars
    <2>2. CASE Release(w, f)
      BY <2>2, Zenon DEF Release, GiveBack, Fenced, delegationVars
    <2>3. CASE RequeueProviderRetry(w, f)
      BY <2>3, Zenon DEF RequeueProviderRetry, GiveBack, Fenced, delegationVars
    <2>4. ASSUME NEW st \in Terminal, CompleteCanonicalRun(w, f, st)
          PROVE  CancellationReachesChild'
      BY <2>4, Zenon DEF CompleteCanonicalRun, GiveBack, delegationVars
    <2>5. ASSUME NEW st \in Terminal, CompleteDelegatedRun(w, f, st)
          PROVE  CancellationReachesChild'
      BY <2>5 DEF CompleteDelegatedRun
    <2>6. CASE RecordAgentEffectProposal(w, f)
      BY <2>6, Zenon
         DEF RecordAgentEffectProposal, GiveBack, Fenced, delegationVars
    <2>7. CASE ParkAgentEffectRun(w, f)
      BY <2>7, Zenon DEF ParkAgentEffectRun, GiveBack, Fenced, delegationVars
    <2>8. ASSUME NEW c \in Delegates, LaunchAgentDelegation(w, f, c)
          PROVE  CancellationReachesChild'
      BY <2>8, Zenon DEF LaunchAgentDelegation, Fenced
    <2> QED
      BY <1>5, <2>1, <2>2, <2>3, <2>4, <2>5, <2>6, <2>7, <2>8, Zenon
         DEF WorkerStep
  <1>6. ASSUME NEW r \in Runs, ResumeAgentEffectRun(r)
        PROVE  CancellationReachesChild'
    BY <1>6, Zenon DEF ResumeAgentEffectRun, delegationVars
  <1>7. ASSUME NEW r \in Runs, RequestTaskCancellation(r)
        PROVE  CancellationReachesChild'
    BY <1>7, Zenon DEF RequestTaskCancellation, delegationVars
  <1>8. ASSUME NEW r \in Runs, PauseIdleTask(r)
        PROVE  CancellationReachesChild'
    BY <1>8, Zenon DEF PauseIdleTask, delegationVars
  <1>9. ASSUME NEW r \in Runs, NEW parked, PauseRunningTask(r, parked)
        PROVE  CancellationReachesChild'
    BY <1>9, Zenon
       DEF PauseRunningTask, RecoverLeases, RecoverableLease, LeasesOn,
                delegationVars
  <1>10. ASSUME NEW r \in Runs, ResumeTask(r)
         PROVE  CancellationReachesChild'
    BY <1>10, Zenon DEF ResumeTask, delegationVars
  <1>11. ASSUME NEW S \in SUBSET leases, NEW parked, RecoveryStep(S, parked)
         PROVE  CancellationReachesChild'
    BY <1>11 DEF RecoveryStep, RecoverExpiredLeases, RecoverStartup,
                 RecoverLeases, RecoverableLease, TaskToWaiting, delegationVars
  <1>12. CASE BecomeReady \/ Crash \/ Tick
    BY <1>12 DEF BecomeReady, Crash, Tick, rowVars, delegationVars
  <1>13. CASE UNCHANGED vars
    BY <1>13, SMTT(20) DEF vars, rowVars, delegationVars
  <1> HIDE DEF TypeOK, ParentAwaitsChild, CancellationReachesChild,
               ActiveChildren, Canonical
  <1> QED
    BY <1>1, <1>2, <1>3, <1>4, <1>5, <1>6, <1>7, <1>8, <1>9, <1>10, <1>11,
       <1>12, <1>13, Zenon
    DEF Next, OwnerStep

-----------------------------------------------------------------------------
(* The fence of a run that stops running. *)

LEMMA FenceStep ==
    TypeOK /\ LeasedWhileRunning /\ [Next]_vars
        => RetiresFences
  <1> SUFFICES ASSUME TypeOK, LeasedWhileRunning, [Next]_vars
               PROVE  RetiresFences
    BY Zenon
  <1> USE DEF TypeOK, LeasedWhileRunning, RecoverableLease, RetiresFences
  <1>1. ASSUME NEW s \in Sessions, NEW r \in Runs, PromoteNext(s, r)
        PROVE  RetiresFences
    BY <1>1 DEF PromoteNext
  <1>2. ASSUME NEW s \in Sessions, InterruptBeforeClaim(s)
        PROVE  RetiresFences
    BY <1>2 DEF InterruptBeforeClaim
  <1>3. ASSUME NEW s \in Sessions, InterruptRunning(s)
        PROVE  RetiresFences
    BY <1>3 DEF InterruptRunning
  <1>4. ASSUME NEW w \in Workers, NEW r \in Runs, ClaimNext(w, r)
        PROVE  RetiresFences
    BY <1>4, SMTT(20) DEF ClaimNext, Claimable
  <1>5. ASSUME NEW w \in Workers, NEW f \in held[w], WorkerStep(w, f)
        PROVE  RetiresFences
    <2> f.run \in Runs /\ f.token \in Nat
      BY DEF TypeOK, Fence
    <2>1. CASE Heartbeat(w, f) \/ GiveUp(w, f)
      BY <2>1, SMTT(20) DEF Heartbeat, GiveUp, rowVars
    <2>2. CASE Release(w, f)
      BY <2>2 DEF Release, GiveBack, Fenced, HoldsLease
    <2>3. CASE RequeueProviderRetry(w, f)
      BY <2>3 DEF RequeueProviderRetry, GiveBack, Fenced, HoldsLease
    <2>4. ASSUME NEW st \in Terminal, CompleteCanonicalRun(w, f, st)
          PROVE  RetiresFences
      BY <2>4 DEF CompleteCanonicalRun, GiveBack, Fenced, HoldsLease
    <2>5. ASSUME NEW st \in Terminal, CompleteDelegatedRun(w, f, st)
          PROVE  RetiresFences
      BY <2>5 DEF CompleteDelegatedRun, CompletionStatus, Fenced, HoldsLease
    <2>6. CASE RecordAgentEffectProposal(w, f)
      BY <2>6 DEF RecordAgentEffectProposal, GiveBack, Fenced, HoldsLease
    <2>7. CASE ParkAgentEffectRun(w, f)
      BY <2>7 DEF ParkAgentEffectRun, GiveBack, Fenced, HoldsLease
    <2>8. ASSUME NEW c \in Delegates, LaunchAgentDelegation(w, f, c)
          PROVE  RetiresFences
      BY <2>8 DEF LaunchAgentDelegation, Fenced, HoldsLease
    <2> QED
      BY <1>5, <2>1, <2>2, <2>3, <2>4, <2>5, <2>6, <2>7, <2>8, SMTT(20)
      DEF WorkerStep
  <1>6. ASSUME NEW r \in Runs, ResumeAgentEffectRun(r)
        PROVE  RetiresFences
    BY <1>6 DEF ResumeAgentEffectRun
  <1>7. ASSUME NEW r \in Runs, RequestTaskCancellation(r)
        PROVE  RetiresFences
    BY <1>7 DEF RequestTaskCancellation
  <1>8. ASSUME NEW r \in Runs, PauseIdleTask(r)
        PROVE  RetiresFences
    BY <1>8 DEF PauseIdleTask
  <1>9. ASSUME NEW r \in Runs, NEW parked, PauseRunningTask(r, parked)
        PROVE  RetiresFences
    BY <1>9 DEF PauseRunningTask, RecoverLeases, LeasesOn
  <1>10. ASSUME NEW r \in Runs, ResumeTask(r)
         PROVE  RetiresFences
    BY <1>10 DEF ResumeTask
  <1>11. ASSUME NEW S \in SUBSET leases, NEW parked, RecoveryStep(S, parked)
         PROVE  RetiresFences
    BY <1>11 DEF RecoveryStep, RecoverExpiredLeases, RecoverStartup,
                 RecoverLeases, TaskToWaiting
  <1>12. CASE BecomeReady \/ Crash \/ Tick
    BY <1>12 DEF BecomeReady, Crash, Tick, rowVars
  <1>13. CASE UNCHANGED vars
    BY <1>13 DEF vars, rowVars
  <1> HIDE DEF TypeOK, LeasedWhileRunning, RecoverableLease, RetiresFences
  <1> QED
    BY <1>1, <1>2, <1>3, <1>4, <1>5, <1>6, <1>7, <1>8, <1>9, <1>10, <1>11,
       <1>12, <1>13, Zenon
    DEF Next, OwnerStep

-----------------------------------------------------------------------------
(* The inductive invariant, and what follows from it. *)

WorkGraphInv ==
    /\ TypeOK
    /\ LeasedWhileRunning
    /\ RunTaskAgree
    /\ ActiveTurnAgree
    /\ CancellationWins
    /\ ParentAwaitsChild
    /\ CancellationReachesChild

LEMMA WorkGraphInvInit == Init => WorkGraphInv
  <1> SUFFICES ASSUME Init PROVE WorkGraphInv
    BY Zenon
  <1>1. TypeOK /\ LeasedWhileRunning
    BY TypeInit, LeasedInit, Zenon
  <1>2. RunTaskAgree /\ CancellationWins
    BY Zenon DEF Init, RunTaskAgree, CancellationWins
  <1>3. ActiveTurnAgree
    BY Zenon DEF Init, ActiveTurnAgree, Canonical
  <1>4. ParentAwaitsChild /\ CancellationReachesChild
    BY Zenon DEF Init, ParentAwaitsChild, CancellationReachesChild
  <1> QED
    BY <1>1, <1>2, <1>3, <1>4, Zenon DEF WorkGraphInv

LEMMA WorkGraphInvStep == WorkGraphInv /\ [Next]_vars => WorkGraphInv'
  BY TypeStep, LeasedStep, RunTaskStep, ActiveTurnStep, CancellationStep,
     ParentStep, ReachesChildStep, Zenon
  DEF WorkGraphInv

LEMMA WorkGraphInvariant == Spec => []WorkGraphInv
  BY WorkGraphInvInit, WorkGraphInvStep, PTL DEF Spec

\* A run is running exactly while one active lease with its current fencing
\* token exists, so recovery accepts every lease row it finds after a crash.
THEOREM LeaseSafety == Spec => []LeasedWhileRunning
  BY WorkGraphInvariant, PTL DEF WorkGraphInv

\* The store accepts the fence of at most one worker for each run, for any
\* number of workers and any stall between their transactions.
THEOREM FencingSafety == Spec => []OneFencedWorker
  <1>1. WorkGraphInv => OneFencedWorker
    <2> SUFFICES ASSUME WorkGraphInv,
                        NEW v \in Workers, NEW w \in Workers,
                        NEW e \in held[v], NEW f \in held[w],
                        Fenced(v, e), Fenced(w, f), e.run = f.run
                 PROVE  v = w /\ e = f
      BY Zenon DEF OneFencedWorker
    <2>1. e \in Fence /\ f \in Fence
      BY Zenon DEF WorkGraphInv, TypeOK
    <2>2. e = f
      BY <2>1 DEF Fenced, HoldsLease, Fence
    <2>3. v = w
      BY Zenon
         DEF Fenced, HoldsLease, LeasesOn, WorkGraphInv, LeasedWhileRunning
    <2> QED
      BY <2>2, <2>3, Zenon
  <1> QED
    BY <1>1, WorkGraphInvariant, PTL

\* The run row and the task row stay in the combinations that some
\* transaction accepts.
THEOREM RowSafety == Spec => []RunTaskAgree
  BY WorkGraphInvariant, PTL DEF WorkGraphInv

\* A session points at a turn exactly while that turn can still make
\* progress, so it is freed by every way a turn can end.
THEOREM TurnSafety == Spec => []ActiveTurnAgree
  BY WorkGraphInvariant, PTL DEF WorkGraphInv

\* A run whose cancellation is recorded can only end as cancelled.
THEOREM CancellationSafety == Spec => []CancellationWins
  BY WorkGraphInvariant, PTL DEF WorkGraphInv

\* The parent of an open delegation waits for exactly that child.
THEOREM DelegationSafety == Spec => []ParentAwaitsChild
  BY WorkGraphInvariant, PTL DEF WorkGraphInv

\* A cancelled parent never waits for a child that was not told to stop.
THEOREM CascadeSafety == Spec => []CancellationReachesChild
  BY WorkGraphInvariant, PTL DEF WorkGraphInv

\* Every step that takes a run out of 'running' moves its fencing token on.
THEOREM FencesAreRetired == Spec => FenceRetired
  <1>1. WorkGraphInv /\ [Next]_vars => [RetiresFences]_vars
    BY FenceStep, Zenon DEF WorkGraphInv
  <1> QED
    BY <1>1, WorkGraphInvariant, PTL DEF Spec, FenceRetired

\* No step changes the status, task or turn of a finished run.
THEOREM FinishedIsFinal == Spec => TerminalIsFinal
  <1>1. WorkGraphInv /\ [Next]_vars => [KeepsTerminal]_vars
    BY FinalStep, Zenon DEF WorkGraphInv
  <1> QED
    BY <1>1, WorkGraphInvariant, PTL DEF Spec, TerminalIsFinal

-----------------------------------------------------------------------------
(***************************************************************************)
(* What a step of the graph may do to a run without consequence for its    *)
(* effects: it does not make it wait, or change whether children are what  *)
(* it waits for; it keeps the leases of a run that does not end; it leaves *)
(* a run waiting that waits uncancelled.                                   *)
(***************************************************************************)
KeepsWait(r) ==
    run'[r] = "waiting" =>
        run[r] = "waiting" /\ (ActiveChildren(r)' = {} <=> ActiveChildren(r) = {})

KeepsLeases(r) ==
    run'[r] \notin Terminal =>
        /\ run[r] \notin Terminal
        /\ \A l \in leases : l.run = r =>
                \E m \in leases' : m.run = r /\ m.token = l.token

KeepsPending(r) ==
    run[r] = "waiting" /\ ~ cancel[r] => run'[r] = "waiting" /\ ~ cancel'[r]

KeepsRun(r) == KeepsWait(r) /\ KeepsLeases(r) /\ KeepsPending(r)
KeepsRuns == \A r \in Canonical : KeepsRun(r)

LEMMA UnchangedKeepsRuns == UNCHANGED vars => KeepsRuns
  BY Zenon DEF vars, rowVars, delegationVars, KeepsRuns, KeepsRun, KeepsWait,
         KeepsLeases, KeepsPending, ActiveChildren

LEMMA RunUntouched ==
    ASSUME NEW r, run'[r] = run[r], cancel'[r] = cancel[r],
           ActiveChildren(r)' = ActiveChildren(r),
           \A l \in leases : l.run = r =>
                \E m \in leases' : m.run = r /\ m.token = l.token
    PROVE  KeepsRun(r)
  BY Zenon DEF KeepsRun, KeepsWait, KeepsLeases, KeepsPending

\* Steps of the graph that no effect notices.
LEMMA QuietGraphSteps ==
    ASSUME WorkGraphInv,
           \/ \E w \in Workers, r \in Runs : ClaimNext(w, r)
           \/ \E w \in Workers : \E f \in held[w] :
                \/ Heartbeat(w, f) \/ GiveUp(w, f)
                \/ \E status \in Terminal : CompleteCanonicalRun(w, f, status)
           \/ \E r \in Runs : PauseIdleTask(r) \/ ResumeTask(r)
           \/ \E s \in Sessions :
                \/ \E r \in Runs : PromoteNext(s, r)
                \/ InterruptBeforeClaim(s) \/ InterruptRunning(s)
           \/ BecomeReady \/ Crash \/ Tick
    PROVE  KeepsRuns
  <1> TypeOK
    BY Zenon DEF WorkGraphInv
  <1> USE DEF KeepsRuns, KeepsRun, KeepsWait, KeepsLeases, KeepsPending,
              ActiveChildren, Canonical, TypeOK
  <1>1. ASSUME NEW w \in Workers, NEW r \in Runs, ClaimNext(w, r)
        PROVE  KeepsRuns
    <2> SUFFICES ASSUME NEW x \in Canonical PROVE KeepsRun(x)
      BY Zenon
    <2>1. x \in Runs /\ cancel'[x] = cancel[x] /\ leases \subseteq leases'
      BY <1>1, Zenon DEF ClaimNext
    <2>2. CASE x = r
      BY <1>1, <2>1, <2>2, Zenon DEF ClaimNext, Claimable, Terminal
    <2>3. CASE x # r
      <3>1. run'[x] = run[x]
        BY <1>1, <2>1, <2>3, Zenon DEF ClaimNext
      <3>2. ActiveChildren(x)' = ActiveChildren(x)
        <4>1. /\ parent' = parent
              /\ \A c \in Delegates : delegation'[c] \in {"queued", "running"}
                                    <=> delegation[c] \in {"queued", "running"}
          BY <1>1, Zenon DEF ClaimNext, Claimable
        <4> QED
          BY <4>1, Zenon
      <3> HIDE DEF KeepsRun, ActiveChildren
      <3> QED
        BY <2>1, <3>1, <3>2, RunUntouched, Zenon
    <2> QED
      BY <2>2, <2>3, Zenon
  <1>2. ASSUME NEW w \in Workers, NEW f \in held[w],
               Heartbeat(w, f) \/ GiveUp(w, f)
        PROVE  KeepsRuns
    <2>1. CASE Heartbeat(w, f)
      <3> SUFFICES ASSUME NEW x \in Canonical PROVE KeepsRun(x)
        BY Zenon
      <3>1. PICK l \in leases :
                leases' = (leases \ {l}) \cup {[l EXCEPT !.ttl = LeaseTtl]}
        BY <2>1, Zenon DEF Heartbeat, LeasesOn
      <3>2. \A k \in leases : \E m \in leases' :
                m.run = k.run /\ m.token = k.token
        <4> DEFINE n == [l EXCEPT !.ttl = LeaseTtl]
        <4>1. l \in Lease
          BY Zenon
        <4>2. n.run = l.run /\ n.token = l.token
          BY <4>1, Zenon DEF Lease
        <4>3. n \in leases' /\ \A k \in leases : k # l => k \in leases'
          BY <3>1, Zenon
        <4> HIDE DEF n
        <4> QED
          BY <4>2, <4>3, Zenon
      <3>3. /\ run'[x] = run[x] /\ cancel'[x] = cancel[x]
            /\ ActiveChildren(x)' = ActiveChildren(x)
        BY <2>1, Zenon DEF Heartbeat, rowVars, delegationVars
      <3> HIDE DEF KeepsRun, ActiveChildren
      <3> QED
        BY <3>2, <3>3, RunUntouched, Zenon
    <2>2. CASE GiveUp(w, f)
      BY <2>2, Zenon DEF GiveUp, rowVars, delegationVars
    <2> QED
      BY <1>2, <2>1, <2>2, Zenon
  <1>3. ASSUME NEW w \in Workers, NEW f \in held[w], NEW st \in Terminal,
               CompleteCanonicalRun(w, f, st)
        PROVE  KeepsRuns
    <2> SUFFICES ASSUME NEW x \in Canonical PROVE KeepsRun(x)
      BY Zenon
    <2>1. /\ f.run \in Runs /\ run[f.run] = "running"
          /\ run' = [run EXCEPT ![f.run] = st]
          /\ leases' = leases \ LeasesOn(f.run)
          /\ UNCHANGED <<cancel, delegationVars>>
      BY <1>3, Zenon DEF CompleteCanonicalRun, GiveBack, Fenced, Fence
    <2>2. CASE x = f.run
      BY <2>1, <2>2, Zenon DEF Terminal
    <2>3. CASE x # f.run
      <3>1. run'[x] = run[x] /\ cancel'[x] = cancel[x]
        BY <2>1, <2>3, Zenon
      <3>2. ActiveChildren(x)' = ActiveChildren(x)
        BY <2>1, Zenon DEF delegationVars
      <3>3. \A l \in leases : l.run = x => l \in leases'
        BY <2>1, <2>3, Zenon DEF LeasesOn
      <3> HIDE DEF KeepsRun, ActiveChildren
      <3> QED
        BY <3>1, <3>2, <3>3, RunUntouched, Zenon
    <2> QED
      BY <2>2, <2>3, Zenon
  <1>4. ASSUME NEW r \in Runs, PauseIdleTask(r) \/ ResumeTask(r)
        PROVE  KeepsRuns
    BY <1>4, Zenon DEF PauseIdleTask, ResumeTask, delegationVars
  <1>5. ASSUME NEW s \in Sessions, NEW r \in Runs, PromoteNext(s, r)
        PROVE  KeepsRuns
    BY <1>5, Zenon DEF PromoteNext, Terminal, delegationVars
  <1>6. ASSUME NEW s \in Sessions,
               InterruptBeforeClaim(s) \/ InterruptRunning(s)
        PROVE  KeepsRuns
    BY <1>6 DEF InterruptBeforeClaim, InterruptRunning, Terminal, delegationVars
  <1>7. CASE BecomeReady \/ Crash
    BY <1>7, Zenon DEF BecomeReady, Crash, rowVars, delegationVars
  <1>8. CASE Tick
    <2>1. \A l \in leases : \E m \in leases' :
            m.run = l.run /\ m.token = l.token
      <3> SUFFICES ASSUME NEW l \in leases
                   PROVE  \E m \in leases' : m.run = l.run /\ m.token = l.token
        BY Zenon
      <3> DEFINE k == [l EXCEPT !.ttl = Less(@)]
      <3>1. leases' = {[x EXCEPT !.ttl = Less(@)] : x \in leases}
        BY <1>8, Zenon DEF Tick
      <3>2. k \in leases'
        BY <3>1, Zenon
      <3>3. l \in Lease
        BY Zenon
      <3>4. k.run = l.run /\ k.token = l.token
        BY <3>3, Zenon DEF Lease
      <3> HIDE DEF k
      <3> QED
        BY <3>2, <3>4, Zenon
    <2> SUFFICES ASSUME NEW x \in Canonical PROVE KeepsRun(x)
      BY Zenon
    <2>2. /\ run'[x] = run[x] /\ cancel'[x] = cancel[x]
          /\ ActiveChildren(x)' = ActiveChildren(x)
      BY <1>8, Zenon DEF Tick
    <2> HIDE DEF KeepsRun, ActiveChildren
    <2> QED
      BY <2>1, <2>2, RunUntouched, Zenon
  <1> HIDE DEF KeepsRuns
  <1> QED
    BY <1>1, <1>2, <1>3, <1>4, <1>5, <1>6, <1>7, <1>8, Zenon

\* A run that executes has no open child.
LEMMA RunningHasNoChild ==
    ASSUME WorkGraphInv, NEW r \in Runs, run[r] = "running"
    PROVE  ActiveChildren(r) = {}
  BY Zenon DEF WorkGraphInv, ParentAwaitsChild, ActiveChildren

LEMMA GiveBackKeeps ==
    ASSUME WorkGraphInv, NEW w \in Workers, NEW f \in held[w],
           NEW st \in {"queued", "waiting"}, GiveBack(w, f, st),
           UNCHANGED <<cancel, delegationVars>>
    PROVE  /\ f.run \in Runs /\ run[f.run] = "running" /\ run'[f.run] = st
           /\ ActiveChildren(f.run)' = {}
           /\ KeepsPending(f.run)
           /\ \A r \in Canonical : r # f.run => KeepsRun(r)
  <1>1. TypeOK /\ f.run \in Runs
    BY DEF WorkGraphInv, TypeOK, Fence
  <1>2. run[f.run] = "running" /\ run' = [run EXCEPT ![f.run] = st]
    BY Zenon DEF GiveBack, Fenced
  <1>3. ActiveChildren(f.run)' = {}
    BY <1>1, <1>2, RunningHasNoChild, Zenon DEF ActiveChildren, delegationVars
  <1>4. \A r \in Canonical : r # f.run => KeepsRun(r)
    BY <1>1, <1>2 DEF GiveBack, KeepsRun, KeepsWait, KeepsLeases, KeepsPending,
                      LeasesOn, ActiveChildren, Canonical, TypeOK, delegationVars
  <1> QED
    BY <1>1, <1>2, <1>3, <1>4, Zenon DEF KeepsPending, TypeOK

LEMMA LaunchKeeps ==
    ASSUME WorkGraphInv, NEW w \in Workers, NEW f \in held[w],
           NEW c \in Delegates, LaunchAgentDelegation(w, f, c)
    PROVE  /\ f.run \in Runs /\ run[f.run] = "running"
           /\ ActiveChildren(f.run)' # {}
           /\ KeepsPending(f.run)
           /\ \A r \in Canonical : r # f.run => KeepsRun(r)
  <1>1. TypeOK /\ f.run \in Runs /\ f.run \notin Delegates /\ c # f.run
    BY Zenon DEF WorkGraphInv, TypeOK, Fence, LaunchAgentDelegation, Canonical
  <1>2. run[f.run] = "running"
    BY Zenon DEF LaunchAgentDelegation, Fenced
  <1>3. c \in ActiveChildren(f.run)'
    BY <1>1, Zenon DEF LaunchAgentDelegation, ActiveChildren, TypeOK
  <1>4. delegation[c] \notin {"queued", "running"}
    BY Zenon DEF LaunchAgentDelegation, WorkGraphInv, ParentAwaitsChild
  <1>5. \A r \in Canonical : r # f.run => KeepsRun(r)
    <2> SUFFICES ASSUME NEW r \in Canonical, r # f.run PROVE KeepsRun(r)
      BY Zenon
    <2>1. r \in Runs /\ r # c /\ run'[r] = run[r] /\ cancel'[r] = cancel[r]
      BY <1>1, Zenon DEF LaunchAgentDelegation, Canonical, TypeOK
    <2>2. ActiveChildren(r)' = ActiveChildren(r)
      BY <1>1, <1>4, Zenon DEF LaunchAgentDelegation, ActiveChildren, TypeOK
    <2>3. \A l \in leases : l.run = r => l \in leases'
      BY Zenon DEF LaunchAgentDelegation, LeasesOn
    <2> QED
      BY <2>1, <2>2, <2>3, Zenon
         DEF KeepsRun, KeepsWait, KeepsLeases, KeepsPending
  <1> QED
    BY <1>1, <1>2, <1>3, <1>5, Zenon DEF KeepsPending

LEMMA ChildCompletionKeeps ==
    ASSUME WorkGraphInv, NEW w \in Workers, NEW f \in held[w],
           NEW st \in Terminal, CompleteDelegatedRun(w, f, st)
    PROVE  \E p \in Runs :
            /\ run[p] = "waiting" /\ ActiveChildren(p) # {}
            /\ KeepsWait(p) /\ KeepsLeases(p)
            /\ \A r \in Canonical : r # p => KeepsRun(r)
  <1>1. /\ TypeOK /\ f.run \in Runs /\ f.run \in Delegates
        /\ delegation[f.run] = "running"
    BY Zenon DEF WorkGraphInv, TypeOK, Fence, CompleteDelegatedRun
  <1>2. PICK p \in Runs :
            /\ p = parent[f.run] /\ run[p] = "waiting"
            /\ run' = [run EXCEPT ![f.run] = st, ![p] = "queued"]
    BY Zenon DEF CompleteDelegatedRun
  <1>3. f.run \in ActiveChildren(p)
    BY <1>1, <1>2, Zenon DEF ActiveChildren
  <1>4. p # f.run /\ p \in Canonical
    BY <1>1, <1>2, Zenon DEF WorkGraphInv, ParentAwaitsChild, Canonical
  <1>5. \A l \in leases : l.run # f.run => l \in leases'
    BY Zenon DEF CompleteDelegatedRun, LeasesOn
  <1>6. run'[p] = "queued"
    BY <1>2, <1>4, Zenon DEF TypeOK, WorkGraphInv
  <1>7. ASSUME NEW r \in Canonical, r # p PROVE KeepsRun(r)
    <2>1. r \in Runs /\ r # f.run
      BY <1>1, Zenon DEF Canonical
    <2>2. run'[r] = run[r] /\ cancel'[r] = cancel[r]
      BY <1>1, <1>2, <1>7, <2>1, Zenon DEF CompleteDelegatedRun, TypeOK
    <2>3. ActiveChildren(r)' = ActiveChildren(r)
      BY <1>1, <1>2, <1>7, Zenon
         DEF CompleteDelegatedRun, ActiveChildren, TypeOK
    <2> QED
      BY <1>5, <2>1, <2>2, <2>3, Zenon
         DEF KeepsRun, KeepsWait, KeepsLeases, KeepsPending
  <1> QED
    BY <1>2, <1>3, <1>4, <1>5, <1>6, <1>7, Zenon
       DEF KeepsWait, KeepsLeases, Terminal

LEMMA ResumeKeeps ==
    ASSUME WorkGraphInv, NEW r0 \in Runs,
           ResumeAgentEffectRun(r0) \/ RequestTaskCancellation(r0)
    PROVE  /\ KeepsWait(r0) /\ KeepsLeases(r0)
           /\ \A r \in Canonical : r # r0 => KeepsRun(r)
  <1> TypeOK
    BY Zenon DEF WorkGraphInv
  <1>1. UNCHANGED <<leases, delegationVars>>
    BY Zenon DEF ResumeAgentEffectRun, RequestTaskCancellation
  <1>2. \A r \in Runs : ActiveChildren(r)' = ActiveChildren(r)
    BY <1>1, Zenon DEF ActiveChildren, delegationVars
  <1>3. run'[r0] = run[r0] \/ (run[r0] = "waiting" /\ run'[r0] = "queued")
    BY Zenon DEF ResumeAgentEffectRun, RequestTaskCancellation, TypeOK
  <1>4. \A r \in Canonical : r # r0 => run'[r] = run[r] /\ cancel'[r] = cancel[r]
    <2> SUFFICES ASSUME NEW r \in Canonical, r # r0
                 PROVE  run'[r] = run[r] /\ cancel'[r] = cancel[r]
      BY Zenon
    <2>1. r \in Runs /\ r \notin ActiveChildren(r0)
      BY Zenon DEF Canonical, ActiveChildren
    <2>2. CASE ResumeAgentEffectRun(r0)
      BY <2>1, <2>2, Zenon DEF ResumeAgentEffectRun, TypeOK
    <2>3. CASE RequestTaskCancellation(r0)
      BY <2>1, <2>3, Zenon DEF RequestTaskCancellation, TypeOK
    <2> QED
      BY <2>2, <2>3, Zenon
  <1> QED
    BY <1>1, <1>2, <1>3, <1>4, Zenon DEF KeepsRun, KeepsWait, KeepsLeases,
            KeepsPending, Terminal, Canonical

LEMMA RecoveryKeeps ==
    ASSUME WorkGraphInv, NEW S \in SUBSET leases, NEW parked,
           RecoverLeases(S, parked), UNCHANGED <<cancel, delegationVars>>
    PROVE  /\ \A r \in Canonical : r \notin parked => KeepsWait(r)
           /\ \A r \in Canonical : KeepsPending(r)
           /\ \A r \in Canonical : (\A l \in S : l.run # r) => KeepsLeases(r)
           /\ \A r \in Canonical : (\E l \in S : l.run = r) => run[r] = "running"
           /\ \A r \in parked : ActiveChildren(r)' = {}
  <1> TypeOK
    BY Zenon DEF WorkGraphInv
  <1>1. \A l \in S : l.run \in Runs /\ run[l.run] = "running"
    BY DEF RecoverLeases, RecoverableLease, TypeOK, Lease
  <1>2. \A r \in Runs : ActiveChildren(r)' = ActiveChildren(r)
    BY Zenon DEF ActiveChildren, delegationVars
  <1>3. \A r \in parked : r \in Runs /\ run[r] = "running" /\ \E l \in S : l.run = r
    BY <1>1 DEF RecoverLeases
  <1>4. \A r \in parked : ActiveChildren(r)' = {}
    BY <1>2, <1>3, RunningHasNoChild, Zenon
  <1>5. \A r \in Runs : run'[r] = IF r \in parked THEN "waiting"
                              ELSE IF \E l \in S : l.run = r THEN "queued"
                              ELSE run[r]
    BY Zenon DEF RecoverLeases
  <1>6. \A l \in leases : l \notin S => l \in leases'
    BY Zenon DEF RecoverLeases
  <1>7. ASSUME NEW r \in Canonical, r \notin parked PROVE KeepsWait(r)
    BY <1>2, <1>5, <1>7, Zenon DEF KeepsWait, Canonical
  <1>8. ASSUME NEW r \in Canonical PROVE KeepsPending(r)
    BY <1>1, <1>3, <1>5, Zenon DEF KeepsPending, Canonical
  <1>9. ASSUME NEW r \in Canonical, \A l \in S : l.run # r PROVE KeepsLeases(r)
    BY <1>3, <1>5, <1>6, <1>9, Zenon DEF KeepsLeases, Canonical
  <1> QED
    BY <1>1, <1>4, <1>7, <1>8, <1>9, Zenon

=============================================================================
