------------------------------ MODULE MCThreadPool ------------------------------
(* A pool with one or two tasks in each phase of a special-q.              *)
EXTENDS ThreadPool

MCNTasks == [p \in Phases |-> IF p = "alloc" THEN 1 ELSE 2]
================================================================================
