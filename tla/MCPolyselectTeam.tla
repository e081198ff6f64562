-------------------------- MODULE MCPolyselectTeam --------------------------
EXTENDS PolyselectTeam
(* The roots, then the search for collisions.                              *)
MCScript == <<"plain", "barrier">>
=============================================================================
