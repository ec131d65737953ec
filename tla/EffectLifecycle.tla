-------------------------- MODULE EffectLifecycle --------------------------
(***************************************************************************)
(* The lifecycle that the domain crate gives an effect (EffectState): what *)
(* the effect ledger promises, without workers, leases, approvals or time. *)
(* Module EffectLedger is shown to implement it.  One step may move any    *)
(* number of effects, each along one edge.                                 *)
(***************************************************************************)
CONSTANT Effects

VARIABLE status

\* EffectState::new
Init == status = [e \in Effects |-> "proposed"]

Move(e, from, to) == status[e] \in from /\ status'[e] = to

request_approval(e) == Move(e, {"proposed"}, "awaiting_approval")
authorize(e) == Move(e, {"proposed", "awaiting_approval"}, "authorized")
deny(e) == Move(e, {"proposed", "awaiting_approval"}, "denied")
begin_dispatch(e) == Move(e, {"authorized"}, "dispatching")
succeed(e) == Move(e, {"dispatching", "outcome_unknown"}, "succeeded")
fail(e) == Move(e, {"dispatching", "outcome_unknown"}, "failed")
mark_unknown(e) == Move(e, {"dispatching"}, "outcome_unknown")
compensate(e) == Move(e, {"outcome_unknown"}, "compensated")

Next ==
    \A e \in Effects :
        \/ status'[e] = status[e]
        \/ request_approval(e) \/ authorize(e) \/ deny(e)
        \/ begin_dispatch(e) \/ succeed(e) \/ fail(e) \/ mark_unknown(e)
        \/ compensate(e)

Spec == Init /\ [][Next]_status
=============================================================================
