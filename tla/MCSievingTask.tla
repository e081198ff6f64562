--------------------------- MODULE MCSievingTask ---------------------------
(* Small instances of SievingTask: the values of its constants.            *)
EXTENDS SievingInv

MCRanges == 0 .. qmax - 1
MCWuids  == MCRanges \X Attempts
MCPaths  == MCWuids \X Outputs

(* What clients answer.  The shipped Python client leaves `failedcommand'  *)
(* out when the first command failed (prepare_answer: `if                  *)
(* self.failedcommand', which is 0), and every work-unit has one command.  *)
(* The upload form would take it, as it would a result without a file.  A  *)
(* file that is refused as corrupt is settled in the same way with and     *)
(* without an error code (FailedPy).                                       *)
Good     == [output |-> 2, errorcode |-> NONE, failed |-> NONE]
FailedPy == [output |-> CORRUPT, errorcode |-> 1, failed |-> NONE]
Failed   == [output |-> CORRUPT, errorcode |-> 1, failed |-> 0]
NoFile   == [output |-> NONE, errorcode |-> NONE, failed |-> NONE]

PythonAnswers == {Good, FailedPy}
AnyAnswers    == PythonAnswers \cup {Failed, NoFile}
=============================================================================
