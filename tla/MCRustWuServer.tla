--------------------------- MODULE MCRustWuServer ---------------------------
(* Small instances of RustWuServer: the values of its constants.           *)
EXTENDS RustWuServer, TLC

MCRanges == 0 .. qmax - 1
MCWuids  == MCRanges \X Attempts
MCPaths  == MCWuids \X Outputs

(* The driver takes a failing answer for a good one when no failed command *)
(* is stored: run sieve has those.                                         *)
MCAnswers == {[output |-> 2, errorcode |-> NONE, failed |-> NONE]}

MCSymmetry == Permutations(Clients)
=============================================================================
