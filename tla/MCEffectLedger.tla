--------------------------- MODULE MCEffectLedger ---------------------------
(***************************************************************************)
(* One session with a canonical run that proposes effects, one delegated   *)
(* run, two workers.                                                       *)
(***************************************************************************)
EXTENDS EffectLedger

CONSTANTS s1, r1, c1, w1, w2, e1, e2, p1

MCSessionOf == [r \in Runs |-> s1]
MCPrincipalOf == [s \in Sessions |-> p1]
MCRunOf == [e \in Effects |-> r1]
=============================================================================
