------------------------------ MODULE DescentTree ------------------------------
(***************************************************************************)
(* The special-q tree of the individual-logarithm descent of las: several  *)
(* subjobs pull special-q tasks, sieve them, and decide or abandon them in *)
(* one tree that a mutex (tree_lock) protects and one condition variable   *)
(* (work_to_do) announces.  sieve/las-special-q-task-collection.cpp with   *)
(* the loop of las_subjob (sieve/las.cpp).                                 *)
(*                                                                         *)
(* A node is a number in the order of creation, 0 is the forest.  The      *)
(* lists children_by_status are derived from status and parent.  A         *)
(* relation is a constant; what matters of it is the number of its         *)
(* outstanding special-q's and the time they are expected to take.         *)
(***************************************************************************)
EXTENDS Integers, Sequences, FiniteSets

CONSTANTS
    Subjobs,       \* the subjobs of las
    Rels,          \* the relations the sieve can find
    NoRel,         \* a contender or candidate that holds no relation
    Outstanding,   \* [Rels -> Nat]: special-q's a relation leaves to descend
    TimeLeft,      \* [Rels -> 0..Infinity]: the expected time for them
    Infinity,      \* the time_left of a relation with an unknown factor size
    Inputs,        \* what may be run: pairs of the number of special-q's in
                   \* the todo file and max_descent_attempts_allowed
    MaxDepth       \* special-q's at this depth are small: no outstanding ones

ASSUME DescentAssumption ==
    /\ NoRel \notin Rels
    /\ Outstanding \in [Rels -> Nat]
    /\ TimeLeft \in [Rels -> 0..Infinity]
    /\ Inputs \subseteq Nat \X Nat
    /\ Infinity \in Nat /\ MaxDepth \in Nat

VARIABLES
    status,        \* special_q_task::status, by node
    parent,        \* special_q_task_tree::parent
    try_again,     \* special_q_task_tree::try_again
    contender,     \* special_q_task_tree::contender.rel
    all_pending,   \* the queue of pending nodes
    visited,       \* the relations that were taken
    created, pulled, done, abandoned,   \* the counters of the collection
    todo,          \* special-q's left in the todo list
    max_attempts,  \* max_descent_attempts_allowed
    pc,            \* where each subjob is: pull, wait, sieve, end
    task,          \* the node each subjob sieves
    cand,          \* the relation a subjob found and has not registered yet
    discarded      \* nodes given up by do_one_special_q

tree == <<status, parent, try_again, contender, visited>>
counters == <<created, pulled, done, abandoned, todo, max_attempts>>
jobs == <<pc, task, cand, discarded>>
vars == <<tree, all_pending, counters, jobs>>

Forest == 0
Nodes == 0..created
PENDING == "PENDING"
IN_PROGRESS == "IN_PROGRESS"
IN_RECURSION == "IN_RECURSION"
DONE == "DONE"
ABANDONED == "ABANDONED"
Statuses == {PENDING, IN_PROGRESS, IN_RECURSION, DONE, ABANDONED}

(***************************************************************************)
(* The sets children_by_status are ordered by the special-q, so that two   *)
(* equal siblings would be one element; the model assumes that the         *)
(* special-q's a relation leaves differ.                                   *)
(***************************************************************************)
Children(n) == {m \in Nodes \ {Forest} : parent[m] = n}

(***************************************************************************)
(* The three lists that done_node_unlocked and abandon_node_unlocked look  *)
(* at: the children for which there is still something to do.              *)
(***************************************************************************)
Unfinished(n) == status[n] \in {PENDING, IN_PROGRESS, IN_RECURSION}

DepthOf(n) ==
    LET d[m \in Nodes] == IF m = Forest THEN 0 ELSE 1 + d[parent[m]] IN d[n]

Init ==
    /\ status = [n \in {Forest} |-> IN_RECURSION]
    /\ parent = [n \in {Forest} |-> Forest]
    /\ try_again = [n \in {Forest} |-> 0]
    /\ contender = [n \in {Forest} |-> NoRel]
    /\ all_pending = <<>>
    /\ visited = {}
    /\ created = 0 /\ pulled = 0 /\ done = 0 /\ abandoned = 0
    /\ \E i \in Inputs : todo = i[1] /\ max_attempts = i[2]
    /\ pc = [s \in Subjobs |-> "pull"]
    /\ task = [s \in Subjobs |-> Forest]
    /\ cand = [s \in Subjobs |-> NoRel]
    /\ discarded = {}

(***************************************************************************)
(* new_node_unlocked, k times below p, in a tree whose nodes have the      *)
(* statuses old: the newcomers have no contender and their status is st.   *)
(***************************************************************************)
NewNodes(k, p, st, old) ==
    LET New == created + 1 .. created + k
        Add(f, v) == [n \in 0..created + k |-> IF n \in New THEN v ELSE f[n]]
    IN  /\ created' = created + k
        /\ status' = Add(old, st)
        /\ parent' = Add(parent, p)
        /\ try_again' = Add(try_again, 0)
        /\ contender' = Add(contender, NoRel)

(***************************************************************************)
(* The subjob goes on to its next pull, without or with a notify_all of    *)
(* those that wait for work_to_do.                                         *)
(***************************************************************************)
(* Mutant: the subjob goes to sleep without a look at the queue.           *)
ResumeAsleep(s) == pc' = [pc EXCEPT ![s] = "wait"]

Resume(s) == pc' = [pc EXCEPT ![s] = "pull"]

(* Mutant: nobody is notified.                                             *)
NotifyNobody(s) == pc' = [pc EXCEPT ![s] = "pull"]

NotifyAll(s) ==
    pc' = [t \in Subjobs |-> IF t = s \/ pc[t] = "wait" THEN "pull" ELSE pc[t]]

(***************************************************************************)
(* pull_internal drops the abandoned nodes at the head of all_pending.     *)
(***************************************************************************)
Skipped(q) == CHOOSE k \in 0..Len(q) :
    /\ \A i \in 1..k : status[q[i]] = ABANDONED
    /\ k < Len(q) => status[q[k + 1]] # ABANDONED

Start(s, n) ==
    /\ task' = [task EXCEPT ![s] = n]
    /\ pc' = [pc EXCEPT ![s] = "sieve"]
    /\ UNCHANGED <<cand, discarded>>

(* Mutant: the node stays at the head of the queue.                        *)
PullAndKeep(s) ==
    LET k == Skipped(all_pending) IN
    /\ pc[s] = "pull"
    /\ k < Len(all_pending)
    /\ pulled' = pulled + k + 1
    /\ all_pending' = SubSeq(all_pending, k + 1, Len(all_pending))
    /\ status' = [status EXCEPT ![all_pending[k + 1]] = IN_PROGRESS]
    /\ Start(s, all_pending[k + 1])
    /\ UNCHANGED <<parent, try_again, contender, visited,
                   created, done, abandoned, todo, max_attempts>>

PullPending(s) ==
    LET k == Skipped(all_pending) IN
    /\ pc[s] = "pull"
    /\ k < Len(all_pending)
    /\ pulled' = pulled + k + 1
    /\ all_pending' = SubSeq(all_pending, k + 2, Len(all_pending))
    /\ status' = [status EXCEPT ![all_pending[k + 1]] = IN_PROGRESS]
    /\ Start(s, all_pending[k + 1])
    /\ UNCHANGED <<parent, try_again, contender, visited,
                   created, done, abandoned, todo, max_attempts>>

PullFresh(s) ==
    LET k == Skipped(all_pending) IN
    /\ pc[s] = "pull"
    /\ k = Len(all_pending)
    /\ todo > 0
    /\ todo' = todo - 1
    /\ pulled' = pulled + k + 1
    /\ all_pending' = <<>>
    /\ NewNodes(1, Forest, IN_PROGRESS, status)
    /\ Start(s, created + 1)
    /\ UNCHANGED <<visited, done, abandoned, max_attempts>>

(* Mutant: the abandoned nodes that are dropped are not counted.           *)
PullNothingUncounted(s) ==
    /\ pc[s] = "pull"
    /\ Skipped(all_pending) = Len(all_pending)
    /\ todo = 0
    /\ all_pending' = <<>>
    /\ pc' = [pc EXCEPT ![s] = IF done + abandoned < created
                               THEN "wait" ELSE "end"]
    /\ UNCHANGED <<tree, counters, task, cand, discarded>>

(***************************************************************************)
(* Nothing to pull: wait if some node is not settled, else leave.          *)
(***************************************************************************)
PullNothing(s) ==
    LET k == Skipped(all_pending) IN
    /\ pc[s] = "pull"
    /\ k = Len(all_pending)
    /\ todo = 0
    /\ pulled' = pulled + k
    /\ all_pending' = <<>>
    /\ pc' = [pc EXCEPT ![s] = IF done + abandoned < created
                               THEN "wait" ELSE "end"]
    /\ UNCHANGED <<tree, created, done, abandoned, todo, max_attempts,
                   task, cand, discarded>>

SpuriousWakeup(s) ==
    /\ pc[s] = "wait"
    /\ pc' = [pc EXCEPT ![s] = "pull"]
    /\ UNCHANGED <<tree, all_pending, counters, task, cand, discarded>>

(***************************************************************************)
(* A survivor of the sieve turns out to be a relation.  must_avoid is      *)
(* asked when the survivor is examined and again when the relation comes   *)
(* in; visited only grows, so that the second answer decides.  It takes    *)
(* the lock for the look-up only; the relation is registered later.        *)
(***************************************************************************)
(* Mutant: nothing is avoided.                                             *)
AvoidNothing(r) == FALSE

must_avoid(r) == r \in visited

FindRelation(s, r) ==
    /\ pc[s] = "sieve" /\ cand[s] = NoRel
    /\ ~must_avoid(r)
    /\ DepthOf(task[s]) >= MaxDepth => Outstanding[r] = 0
    /\ cand' = [cand EXCEPT ![s] = r]
    /\ UNCHANGED <<tree, all_pending, counters, pc, task, discarded>>

Better(r, c) ==
    \/ c = NoRel
    \/ TimeLeft[r] < Infinity /\ TimeLeft[r] < TimeLeft[c]
    \/ TimeLeft[r] = Infinity /\ Outstanding[r] < Outstanding[c]

new_candidate_relation(s) ==
    /\ pc[s] = "sieve" /\ cand[s] # NoRel
    /\ contender' = [contender EXCEPT ![task[s]] =
                       IF Better(cand[s], @) THEN cand[s] ELSE @]
    /\ cand' = [cand EXCEPT ![s] = NoRel]
    /\ UNCHANGED <<status, parent, try_again, visited, all_pending, counters,
                   pc, task, discarded>>

(***************************************************************************)
(* do_one_special_q finds no sieve area: the task is never postprocessed.  *)
(***************************************************************************)
Discard(s) ==
    /\ pc[s] = "sieve" /\ cand[s] = NoRel
    /\ discarded' = discarded \cup {task[s]}
    /\ Resume(s)
    /\ UNCHANGED <<tree, all_pending, counters, task, cand>>

(***************************************************************************)
(* done_node_unlocked: the nodes that are done once n is, going up as long *)
(* as the parent has no unfinished child left.                             *)
(***************************************************************************)
(* Mutant: children that nobody has pulled yet are overlooked.             *)
NowDoneTooEarly(n) ==
    LET up[m \in Nodes] ==
          IF m = Forest THEN {}
          ELSE {m} \cup (IF {c \in Children(parent[m]) : Unfinished(c)
                                /\ status[c] # PENDING} \subseteq {m}
                         THEN up[parent[m]] ELSE {})
    IN  up[n]

NowDone(n) ==
    LET up[m \in Nodes] ==
          IF m = Forest THEN {}
          ELSE {m} \cup (IF {c \in Children(parent[m]) : Unfinished(c)} \subseteq {m}
                         THEN up[parent[m]] ELSE {})
    IN  up[n]

(***************************************************************************)
(* take_decision with a relation that leaves nothing to descend: the node  *)
(* and maybe ancestors of it are done.                                     *)
(***************************************************************************)
Split(s) ==
    LET n == task[s]
        D == NowDone(n)
    IN  /\ visited' = visited \cup {contender[n]}
        /\ status' = [m \in Nodes |-> IF m \in D THEN DONE ELSE status[m]]
        /\ done' = done + Cardinality(D)
        /\ IF \E m \in D : parent[m] = Forest THEN NotifyAll(s) ELSE Resume(s)
        /\ UNCHANGED <<parent, try_again, contender, all_pending,
                       created, pulled, abandoned, todo, max_attempts>>

(***************************************************************************)
(* take_decision with outstanding special-q's: they become pending nodes.  *)
(***************************************************************************)
Recurse(s) ==
    LET n == task[s]
        k == Outstanding[contender[n]]
    IN  /\ visited' = visited \cup {contender[n]}
        /\ NewNodes(k, n, PENDING, [status EXCEPT ![n] = IN_RECURSION])
        /\ all_pending' = all_pending \o [i \in 1..k |-> created + i]
        /\ NotifyAll(s)
        /\ UNCHANGED <<pulled, done, abandoned, todo, max_attempts>>

(***************************************************************************)
(* abandon_node_unlocked(n): the node fails; when it is out of attempts so *)
(* does its parent, and so on.  Failing(n) are the nodes that fail, and    *)
(* UnfinishedBelow what is recursively abandoned under them.               *)
(***************************************************************************)
MayRetry(m) == m # Forest /\ try_again[m] < max_attempts

Failing(n) ==
    LET f[m \in Nodes] ==
          IF status[m] = ABANDONED THEN {}
          ELSE {m} \cup (IF m = Forest \/ MayRetry(m) THEN {} ELSE f[parent[m]])
    IN  f[n]

UnfinishedBelow(F) ==
    LET below[m \in Nodes] ==
          /\ m # Forest
          /\ Unfinished(m)
          /\ parent[m] \in F \/ below[parent[m]]
    IN  {m \in Nodes : below[m]}

Abandon(s) ==
    LET F == Failing(task[s])
        Retried == {m \in F : MayRetry(m)}
        Dead == (F \cup UnfinishedBelow(F)) \ Retried
    IN  /\ status' = [m \in Nodes |-> IF m \in Dead THEN ABANDONED
                                      ELSE IF m \in Retried THEN PENDING
                                      ELSE status[m]]
        /\ abandoned' = abandoned + Cardinality(Dead \ {Forest})
        /\ try_again' = [m \in Nodes |-> IF m \in Retried THEN try_again[m] + 1
                                         ELSE try_again[m]]
        /\ all_pending' = IF Retried = {} THEN all_pending
                          ELSE Append(all_pending, CHOOSE m \in Retried : TRUE)
        /\ Resume(s)
        /\ UNCHANGED <<parent, contender, visited,
                       created, pulled, done, todo, max_attempts>>

(***************************************************************************)
(* postprocess, at the end of the sieve.                                   *)
(***************************************************************************)
Ready(s) == pc[s] = "sieve" /\ cand[s] = NoRel

Postprocess(s) ==
    /\ Ready(s)
    /\ LET n == task[s] IN
       \/ /\ contender[n] = NoRel
          /\ Abandon(s)
       \/ /\ contender[n] # NoRel
          /\ status[n] = ABANDONED
          /\ Resume(s)
          /\ UNCHANGED <<tree, all_pending, counters>>
       \/ /\ contender[n] # NoRel
          /\ status[n] # ABANDONED
          /\ IF Outstanding[contender[n]] = 0 THEN Split(s) ELSE Recurse(s)
    /\ UNCHANGED <<task, cand, discarded>>

Ended ==
    /\ \A s \in Subjobs : pc[s] = "end"
    /\ UNCHANGED vars

SubjobStep(s) ==
    \/ PullPending(s) \/ PullFresh(s) \/ PullNothing(s)
    \/ new_candidate_relation(s)

Next ==
    \/ \E s \in Subjobs : SubjobStep(s) \/ Postprocess(s) \/ Discard(s)
                          \/ SpuriousWakeup(s)
    \/ \E s \in Subjobs, r \in Rels : FindRelation(s, r)
    \/ Ended

Spec == Init /\ [][Next]_vars

(***************************************************************************)
(* Every subjob is a running thread, and a sieve area is finite: a sieve   *)
(* does not find relations for ever, so postprocess comes.                 *)
(***************************************************************************)
FairSpec ==
    /\ Spec
    /\ \A s \in Subjobs : WF_vars(SubjobStep(s)) /\ SF_vars(Postprocess(s))
--------------------------------------------------------------------------------
(* Every variable has its type; no node is tried more often than allowed.  *)
DescentTypeOK ==
    /\ {created, pulled, todo, max_attempts} \subseteq Nat
    /\ status \in [Nodes -> Statuses]
    /\ parent \in [Nodes -> Nodes]
    /\ try_again \in [Nodes -> 0..max_attempts]
    /\ contender \in [Nodes -> Rels \cup {NoRel}]
    /\ all_pending \in Seq(Nodes)
    /\ visited \subseteq Rels
    /\ pc \in [Subjobs -> {"pull", "wait", "sieve", "end"}]
    /\ task \in [Subjobs -> Nodes]
    /\ cand \in [Subjobs -> Rels \cup {NoRel}]
    /\ discarded \subseteq Nodes

With(st) == {n \in Nodes \ {Forest} : status[n] = st}

(* How often the nodes up to n were tried again.                           *)
Tries[n \in Nodes] == try_again[n] + (IF n = 0 THEN 0 ELSE Tries[n - 1])

(***************************************************************************)
(* The counters on which pull() decides to wait or to end say what is in   *)
(* the tree: no node is counted twice when a failure abandons a whole      *)
(* subtree while subjobs are still sieving in it, and                      *)
(* pulled - (done + abandoned) is the number of retries once all is done.  *)
(***************************************************************************)
CountersSayTree ==
    /\ DescentTypeOK
    /\ done = Cardinality(With(DONE))
    /\ abandoned = Cardinality(With(ABANDONED))
    /\ pulled + Len(all_pending) = created + Tries[created]

(***************************************************************************)
(* No node is lost and none is handed out twice: a pending node is in      *)
(* all_pending once and with no subjob, a node in progress is with one     *)
(* subjob or was discarded, and nothing else waits in all_pending but      *)
(* nodes that pull_internal will skip.  A node with something left to do   *)
(* hangs below nodes that are in recursion and wait for it, whatever       *)
(* subtrees failures have abandoned in between: the assertions of          *)
(* done_node_unlocked and abandon_node_unlocked on the parent follow.      *)
(***************************************************************************)
EveryNodeInOnePlace ==
    LET At(n) == Cardinality({i \in DOMAIN all_pending : all_pending[i] = n})
        Holders(n) == Cardinality({s \in Subjobs : pc[s] = "sieve" /\ task[s] = n})
    IN  \A n \in Nodes \ {Forest} :
        /\ At(n) + Holders(n) <= 1
        /\ status[n] = PENDING => At(n) = 1
        /\ status[n] = IN_PROGRESS <=>
               (Holders(n) = 1 \/ n \in discarded) /\ status[n] # ABANDONED
        /\ Unfinished(n) => parent[n] = Forest \/ status[parent[n]] = IN_RECURSION

(* The special-q's of the relation a node was split with last are its last *)
(* children: those before them come from attempts that failed.             *)
Current(n) ==
    {c \in Children(n) : Cardinality({d \in Children(n) : d > c}) < Outstanding[contender[n]]}

(***************************************************************************)
(* A node is done only when every special-q that its relation left         *)
(* outstanding is done, also when earlier attempts at it have failed.      *)
(***************************************************************************)
DoneMeansSplit ==
    \A n \in Nodes \ {Forest} : status[n] = DONE =>
        /\ contender[n] # NoRel
        /\ Cardinality(Current(n)) = Outstanding[contender[n]]
        /\ \A c \in Current(n) : status[c] = DONE

(* The nodes above n.                                                      *)
Above[n \in Nodes] == IF n = Forest THEN {} ELSE {parent[n]} \cup Above[parent[n]]

Taken(n) == status[n] \in {IN_RECURSION, DONE}

(***************************************************************************)
(* The descent makes no loop: the relation a node was split with is never  *)
(* the one an ancestor of it was split with, although candidates are       *)
(* compared with visited long before they are taken.                       *)
(***************************************************************************)
NoLoop ==
    \A n \in Nodes \ {Forest} : Taken(n) =>
        \A a \in Above[n] \ {Forest} : Taken(a) => contender[a] # contender[n]

(***************************************************************************)
(* As long as a node waits in all_pending some subjob is awake: the        *)
(* failure path, which notifies nobody, leaves the retry to the subjob     *)
(* that runs it.                                                           *)
(***************************************************************************)
PendingNodesAreServed ==
    (\E i \in DOMAIN all_pending : status[all_pending[i]] = PENDING)
        => \E s \in Subjobs : pc[s] \in {"pull", "sieve"}

(***************************************************************************)
(* When no node is ever abandoned or discarded every subjob ends: nobody   *)
(* sleeps on work_to_do after the last tree is done.                       *)
(***************************************************************************)
DescentEnds ==
    [](abandoned = 0 /\ discarded = {}) => <>(\A s \in Subjobs : pc[s] = "end")

(***************************************************************************)
(* After a failure a node is not split again with a relation that already  *)
(* failed: what the comments on ABANDONED and on abandon_node say.         *)
(***************************************************************************)
AnotherRelation ==
    [][\A s \in Subjobs :
         pc[s] = "sieve" /\ status[task[s]] = IN_PROGRESS /\ try_again[task[s]] > 0
           /\ status'[task[s]] \in {IN_RECURSION, DONE}
           => contender[task[s]] \notin visited]_vars

================================================================================
