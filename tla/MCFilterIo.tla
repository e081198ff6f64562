------------------------------- MODULE MCFilterIo -------------------------------
(* Two functions with two threads each.                                    *)
EXTENDS FilterIo

CONSTANTS a1, a2, b1, b2

MCLevelOf == [t \in Workers |-> IF t \in {a1, a2} THEN 1 ELSE 2]
================================================================================
