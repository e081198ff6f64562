--------------------------- MODULE MCPiCollective ---------------------------
(* One job with three threads that makes calls of every kind in a row.     *)
EXTENDS PiCollective

MCCalls == <<"bcast", "allreduce", "allreduce", "wait", "wait">>

(* barrier_wait() is called once for a broadcast or a bare wait and twice  *)
(* for a reduction.                                                        *)
MCMaxRounds == 7
=============================================================================
