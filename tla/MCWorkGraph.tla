---------------------------- MODULE MCWorkGraph ----------------------------
(***************************************************************************)
(* Instances of WorkGraph for TLC: two sessions of one principal, two      *)
(* successive turns in the first one, one delegated child, two workers.    *)
(***************************************************************************)
EXTENDS WorkGraph

CONSTANTS s1, s2, r1, r2, r3, c1, w1, w2

MCSessionOf == [r \in {r1, r2, r3, c1} |-> IF r = r3 THEN s2 ELSE s1]
MCPrincipalOf == [s \in {s1, s2} |-> "owner"]
=============================================================================
