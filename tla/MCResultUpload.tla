--------------------------- MODULE MCResultUpload ---------------------------
(* Small instances of ResultUpload: the values of its constants.           *)
EXTENDS ResultUpload, TLC

MCWuids == Ranges \X Attempts
MCPaths == Dirs \X Ranges

MCSymmetry == Permutations(Clients) \cup Permutations(Ranges)
=============================================================================
