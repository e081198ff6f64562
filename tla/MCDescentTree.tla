----------------------------- MODULE MCDescentTree -----------------------------
(* Instances of DescentTree: relations with two, one and no outstanding    *)
(* special-q's; nobody knows the time the first one needs.  The inputs are *)
(* one special-q with one retry and two special-q's without.               *)
EXTENDS DescentTree

CONSTANTS r2, r1, r0, q0

MCOutstanding == [r \in Rels |-> CASE r = r2 -> 2 [] r = r1 -> 1 [] OTHER -> 0]
MCTimeLeft == MCOutstanding
MCOneRetry == {<<1, 1>>}
MCInputs == MCOneRetry \cup {<<2, 0>>}
================================================================================
