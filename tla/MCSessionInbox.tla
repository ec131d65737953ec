--------------------------- MODULE MCSessionInbox ---------------------------
(***************************************************************************)
(* One session with two deliveries, two canonical runs and, where the      *)
(* configuration has one, a delegated child.                               *)
(***************************************************************************)
EXTENDS SessionInbox, TLC

CONSTANTS s1, r1, r2, c1, w1, k1, k2, x

MCSessionOf == [r \in Runs |-> s1]
\* Deliveries differ only by their key.
KeySymmetry == Permutations(Keys)
MCPrincipalOf == [s \in Sessions |-> "owner"]
=============================================================================
