# TLA+ models of CADO-NFS

CADO-NFS factors integers with the number field sieve. Two of its layers are
concurrent, fail, and are hard to test; this project models them, checks the
models with TLC and proves the most important facts with TLAPS.

* **Work distribution.** The Python driver (`scripts/cadofactor/`), the HTTP server
  and the clients cut sieving into work-units, hand them to clients that come
  and go, collect the results, time out what does not come back, and survive
  being killed, since all state is in an SQLite file. A Rust server and client
  can replace the Python ones.
* **Threads of the C and C++ programs.** The arithmetic runs under a handful of
  hand-written synchronisation schemes: a reusable barrier and the collectives
  built on it (linear algebra), thread teams with five counters (polynomial
  selection), a tree of special-q's that several sub-jobs share (descent), a
  thread pool (siever), a ring of relations with one counter per stage
  (filtering).

## 1. Inventory

| component | state it keeps | operations | interacts with |
|---|---|---|---|
| work-unit table, `wudb.py` `WuAccess` | rows `workunits` (status, clients, error code), rows `files` (path UNIQUE) | create, assign, result, verification, cancel, cancel_all_*, set_status (`-cancel`, `-expire`), get_one_result | driver, server threads, operator, Rust server: all on one SQLite file |
| `ClientServerTask`, `cadotask.py` | counters `wu_submitted`, `wu_received`, `wu_range_received`, `wu_timedout`, `wu_failed` in a DB dictionary; the work-unit in hand (memory) | submit_command, submit_wu, wait, handle_error_result, verification, resubmit_timed_out_wus, cancel_wu, resubmit_one_wu | the table; the mediator; its subclasses |
| `SievingTask`, `cadotask.py` | `qnext`, `rels_found`, `rels_wanted`, table of output files | run, updateObserver, add_file, request_more_relations, restart | `ClientServerTask`; filtering, through the mediator |
| `ApiServer`, `api_server.py`, `upload_dir.py` | `upload_cycle`, the upload directories, `serving_wus` | `/workunit`, `/upload`, `/file`; one thread per request | clients over HTTP, the table |
| Python client, `cado-nfs-client.py` | the work-unit being computed, the upload backlog and `backlog_size`, the pool of servers | get_wu_full, run_commands, schedule_upload, process_uploads, disable_server | servers |
| Rust server, `rust/cado-wu-server` | the same table through its own SQL; `serving` | get_workunit, upload/record_result, control, reclaim task | the Python driver, clients |
| Rust client, `rust/cado-nfs-client` | one work-unit per worker | fetch, download, run, upload | servers |
| mediator `CompleteFactorization` | queue of tasks that want to run, shared state | relay_notification, relay_request, run_next_task | all tasks |
| filtering tasks (dup1, dup2, purge, galois, merge) | per-slice and per-file counters, input file lists | run, request_more_relations | sieving, mediator |
| polynomial selection tasks | priority queue of polynomials and its copy in the DB | run, updateObserver, import | `ClientServerTask` |
| `DictDbAccess`, `database/dictdb.py` | one table per dictionary | get, set, update, iterate, clear | every task |
| reusable barrier, `utils/barrier.c` | `left`, `count`, `event`, sleepers on `cv` | barrier_wait with in() and out(), barrier_finish, destroy, resize | bwc collectives, polynomial selection |
| collectives, `linalg/bwc/parallelizing_info.cpp` | `utility_ptr`, one data area per thread | pi_bcast, pi_allreduce, serialize_threads | the barrier; MPI between jobs |
| thread teams, `polyselect/polyselect_thread_team.cpp`, `polyselect.cpp` | counters `ready`, `sync`, `sync2`, `async`, `roaming`; the posted task; lists of matches | thread_loop: enter and leave the zone, lead, post_work, process a match | the barrier; the list of the league |
| special-q tree, `sieve/las-special-q-task-collection.cpp` | the tree, statuses, `all_pending`, `visited`, four counters | pull, candidate relations, take_decision, abandon_node, postprocess | the sub-jobs of `las` |
| thread pool, `utils/threadpool.cpp` | queues of tasks, results and exceptions; created and joined | add_task, get_task, add_result, add_exception, drain_queue, destructor | the loop of `las_subjob` |
| relation pipeline, `utils/filter_io.hpp` | `scheduled[k]`, `completed[k]`, one status byte per slot, active threads per level | schedule, complete, enter, leave, drain | dup1, dup2, purge, ... |
| other C/C++ code (`polyselect`, `sieve`, `filter`, `linalg`, `sqrt`, `utils`) | numbers, matrices, checkpoints | the arithmetic | files |

Hard behaviours, which `PROJECT.json` lists as hazards at their lines:

* every `state.update()` and every method of `WuAccess` is a transaction of its
  own (the `commit` arguments are ignored), so a kill between two of them leaves
  counters, rows and files out of step;
* a result may arrive between the query that finds a work-unit timed out and
  its cancellation; late, repeated and misdirected uploads;
* the end of a task hangs on one number, `get_number_outstanding_wus()`, kept as
  a difference of three counters;
* server threads check for a file and save it without a lock; the connection
  breaks after the request was executed; the server is killed after saving the
  file;
* two servers and two timeouts on one table when the Rust server is used;
* one counter of the barrier counts the threads of this round out and those of
  the next round in; the barrier is destroyed or resized next to slow threads;
* threads return from matches in the middle of a leading coefficient, and the
  counters alone decide who leads;
* a failure abandons a subtree in which other sub-jobs are still sieving; who
  waits for work is woken by those who make work, and failures wake nobody;
* each counter of the relation pipeline is under a mutex of its own, the number
  of a relation is reconstructed from its slot, and the end marker must overtake
  nothing;
* tasks of the pool throw and add tasks, while a drain counts to a number it
  read at its start.

What makes each component correct: a row's first result is final and a cancelled
work-unit stays dead (table); one live attempt per range, exact counters, no
range lost or counted twice, the run ends (driver); no result dropped,
acknowledged results are settled, uploads remain possible (upload path); a
work-unit is handed to one client (Rust server); nobody crosses before
everybody has come (barrier); everyone gets every contribution (collectives);
one leader, no task posted while a thread is in one, no match lost (teams); no special-q lost, done too early, or descended in a loop (tree); every
task in one place and every overflow noticed (pool); each relation once through
each stage, in order (pipeline); and all of them end.

## 2. Modules

| module | models | built on |
|---|---|---|
| `WuAccess` | class `WuAccess`: one operator per method, each one atomic since each runs in one EXCLUSIVE transaction | |
| `ClientServerTask` | class `ClientServerTask`: `pc` names the driver's next transaction | extends `WuAccess` |
| `SievingTask` | class `SievingTask`, crash and restart of the driver, the Python server as seen from the table, clients, the operator's `-expire` of rows on the way | extends `ClientServerTask` |
| `SievingInv` | the inductive invariants of `SievingTask`: `IInv` in general, `RInv` while a run is `Undisturbed` | extends `SievingTask` |
| `RustWuServer` | the Rust server in the place of the Python one, composed with the same driver | extends `SievingTask` |
| `ResultUpload` | the client's uploader, the server's request threads and upload directories, with the driver reduced to timeout and resubmission | extends `WuAccess` |
| `AbstractBarrier` | what a reusable barrier promises: how often each thread has arrived and crossed, nothing else | |
| `Barrier` | `utils/barrier.c`; implements `AbstractBarrier` | |
| `PiCollective` | pi_bcast, pi_allreduce and bare waits of `parallelizing_info.cpp`; a second barrier of the same kind as an instance of `AbstractBarrier` | extends `Barrier` |
| `PolyselectTeam` | `thread_loop()` and the functions of `polyselect_thread_team.cpp` | |
| `DescentTree` | `las-special-q-task-collection.cpp` in the mode of the recursive descent, with the loop of `las_subjob` | |
| `ThreadPool` | `utils/threadpool.cpp` under the loop of `las_subjob` | |
| `FilterIo` | `inflight_rels_buffer` of `utils/filter_io.hpp` with its owner and consumers | |
| `WuAccessProofs`, `SievingProofs`, `ResultUploadProofs` | theorems about the table, the driver, the servers and the upload path | extend `RustWuServer`, `SievingInv`, `ResultUpload` |
| `BarrierProofs`, `PolyselectTeamProofs`, `ThreadPoolProofs`, `FilterIoProofs`, `DescentTreeProofs` | theorems about the threads | extend `PiCollective`, `PolyselectTeam`, `ThreadPool`, `FilterIo`, `DescentTree` |
| `MC...` | values of the constants for TLC | |

### State and actions against the code

`WuAccess.wus` maps every possible work-unit name to its row together with the
paths of its `files` rows; a name without a row has status `ABSENT`. Time stamps,
priorities, the text of the work-unit and the retry counters are left out.

In `ClientServerTask`, `state` holds the five counters; `job` is the work-unit
whose result or timeout is being handled and the verdict on it; `todo` is the
list of timed-out work-units; `caller` is the place to which `GET_WU_RESULT`
returns. A method that makes several changes to the database is several
actions, in the code's order: `verification()` is `VerifyCount`, `VerifyRange`,
`VerifyRow`; `cancel_wu()` is `CancelCount`, `CancelRow`; `submit_wu()` is `CountNew`,
`CreateNew` (or `Resubmit`, `Recreate`). An exception leads to `pc = "aborted"` with
its reason in `why`. A name is a pair of a range and an attempt; `maxresubmit`
bounds the attempts after a timeout and `maxwuerror` those after an error.

In `SievingTask`, ranges are numbered from 0 (`qrange` is 1), a result file is the
pair of its work-unit and its contents, and the contents are a number of
relations or `CORRUPT`. What clients may answer is the constant `Answers`, so that
each run states which clients it has. A restart builds the task from the
database and sets `rels_wanted` to the parameter again, as `__init__()` does.

In `RustWuServer`, `get_workunit()` is two steps (SELECT, conditional UPDATE) and an
upload is four, since the server runs requests on several threads without a lock
or a transaction: `CheckExists` (is the file in the directory), `WriteFile`,
`InsertFile`, `UpdateResult`. All attempts at a range upload a file of the same name,
so `uploaded` is the set of ranges that have one, and the UNIQUE path of `files` lets
one attempt have a row for it (`PathIsNew`). The errors of the INSERT and of the
UPDATE are ignored by the code (`let _ =`): the request goes on and answers 200
(`Busy`). `AbortUpload` is every early return, before or after the file was written.
What a second write changes in a saved file is abstracted: attempts at a range
find the same relations.

In `SievingTask` the operator expires rows that are available or assigned.
`wudb.py -cancel` and `-expire` take any selected rows, and are in `WuNext` in full; on
rows whose result the driver has, they take away what its counters say, and no
code tells it.

In `ResultUpload`, a request thread is a record that moves from `check` to `save` to
`record`; `disk` says what is in the upload directories, `spent` which answers have
had their open files read to the end. `LoseWu` is a work-unit that is assigned and
never run: the answer to the GET is lost, or its files have a wrong checksum and
it is discarded. The backlog of work-units whose download stopped half-way
(`wu_backlog`) is not modelled. Identical requests of one client merge in
the set of threads, so runs allow one fault, which cannot produce two of them.
The deadline of a work-unit (`is_stale()`) and its dropping are not modelled:
`timeout_hint` is off by default.

The models of threads share one convention: an action is what a thread does
from taking a mutex to releasing it or to falling asleep in
`pthread_cond_wait()`; what it does without the mutex, on data of its own, is
part of the next action. A sleeper wakes when it is signalled or, except in
`PolyselectTeam`, for no reason (`SpuriousWakeup`).

In `Barrier`, `left`, `count` and `event` are the fields of `barrier_t`; `cv` is the set of
sleepers, `saved` a thread's copy of `event`, `arrived` and `crossed` are history. The
actions are the exits of the two loops of `barrier_wait_unlocked()`: asleep until
the previous round is empty (`Finish`), not the last to come (`Gather`) or the last
(`Release`), woken too early (`SleepAgain`), out (`Leave`); `DestroyWait` and `Destroy` are
`barrier_destroy()`. `event` is even while
threads arrive and odd while they leave. In `PiCollective` a buffer is the set of
contributions it holds, so that a reduction is a union and a lost or a doubled
round shows; in() and out() are part of the barrier's actions.

In `PolyselectTeam` the counters keep their names; `lock = t` says that `t` keeps the
team lock between two actions (the leader runs through most of an ad with it).
`Script` is the list of tasks of one ad, `plain` or with a `barrier` in the middle.
One team is modelled; the list of the league, which teams
share, is `jobs`. The roaming barrier is `barIn`, `barOut`, `barCount`, proved correct
in `Barrier`.

In `DescentTree` a node is a number in the order of creation; the lists
`children_by_status` follow from `status` and `parent`: they are sets ordered by the
special-q, and the model takes the special-q's of one relation as different. A relation is a constant with
the number of special-q's it leaves and their expected time; `FindRelation` and
`new_candidate_relation` are apart, since the candidate is compared with `visited`
outside of the lock and registered later. `Postprocess` is take_decision with its
three ends: done, recursion, abandon (with the retry of a parent, or the whole
path up to it). `Discard` is `do_one_special_q()` returning false.

In `ThreadPool` a queue is the number of its elements; `phase` is where the client is
in a special-q (alloc, fill, regions), and a fill task may throw. This is the
structure of a special-q with `toplevel == 1`; section 5 says what more levels add. `cr` is the copy
of `created` to which `drain_queue()` counts. In `FilterIo` the ring has `Size` slots,
`rels` says which relation is in a slot, `handled` is history; `AbsoluteIndex` is the
rounding by which complete() finds the number of a relation from its slot.

## 3. Runs

| run | instance | states | shows |
|---|---|---|---|
| `sieve` | 2 ranges, 2 attempts, 1 client with every kind of answer (results without a file and failures with and without their command included), 1 request for more relations, expiry, 1 kill and restart at any transaction, fairness | 335,433 | what `check()` asserts of a row, results are final, cancelled work-units stay dead; one live attempt per range, no range counted twice; until the driver is killed, counters exact (`OutstandingExact`, `RelsExact`) and no range lost; `run()` ends even if no client answers |
| `rust_safe` | 2 clients, 2 ranges, 1 timeout, 1 reclaim or 1 statement that fails, symmetry on clients | 2,317,754 | the conditional UPDATE makes the non-atomic hand-out safe; no range counted from two files, although uploads race and late ones are recorded |
| `upload_safe` | 2 clients, 2 ranges, 1 fault, 1 timeout, 2 upload directories, symmetry on clients and ranges | 260,030 | UNIQUE(path) is never violated, acknowledged results are settled, clients drop nothing they computed and `backlog_size` is exact |
| `pi_collective` | 3 threads; a broadcast, two reductions, two bare waits: 7 rounds of one barrier; destroyed at the end | 5,508 | the barrier counts exactly and implements `AbstractBarrier`, is destroyed empty; everyone gets every contribution of this call and none of another; all calls return |
| `team_safe` | 3 threads, 3 leading coefficients of two tasks each, 3 matches | 182,491 | the counters say where the threads are, nobody is in a task when one is posted, no match lost |
| `descent_safe` | 2 sub-jobs; a relation with two special-q's to go, whose time is unknown, and two with none; one special-q with a retry or two without | 479,225 | counters and lists agree with the tree, no node lost or handed out twice, done means split, no loop, pending work is served, without failures all sub-jobs end |
| `filter_io` | 2 levels of 2 threads, ring of 4, 7 relations, 6 of them active | 64,793 | the order of the counters written in the source, once and in order, indices recovered, nothing overtaken by the end, all threads end |
| `pool_safe` | 2 workers, 2 special-q's, 2 overflows, 2 detached tasks | 66,864 | every task in one place, exceptions seen in time, killed idle and destroyed empty, all ends |
| `errors_dropped` | as `sieve`, no kill, the answers of the Python client | stops | violated: a work-unit whose command failed is not resubmitted (see section 6 for this and the next three) |
| `team_two_leaders` | 3 threads, 2 leading coefficients, 2 matches | stops | violated: two threads lead at once |
| `team_ends` | 3 threads, 1 leading coefficient, 1 match, fairness | stops | violated: two threads sleep for ever |
| `descent_again` | 1 sub-job, 1 retry | stops | violated: after a failure a node may be split again with the very relation that failed |

The counting properties are claims about a driver that is not killed, and say so
(`NeverKilled`, `Undisturbed`, which also asks that results have a file): without the
hypothesis TLC shows each of them broken by one kill. Killed between the counters
and the row of a result, the driver counts it twice (`OutstandingExact`; an
assertion of `verification()` or `__init__()` may fail later); killed between
`rels_found` and the row, it adds the relations again (`RelsExact`); killed between
`cancel_wu()` and `resubmit_one_wu()`, it loses the range (`NoRangeLost`).
`AtMostOneLive` and `RangeCountedOnce` are what holds nevertheless. `NoRangeLost` counts
a range whose result was refused as corrupt as settled: the code does not
resubmit it.

### Bounds

`maxwu = 1` makes `submit_command()` wait; `maxresubmit = maxwuerror = 2` gives a
range a second attempt and lets it reach its limit; `maxtimedout` and `maxfailed`
are small enough that their exceptions happen. Two ranges are needed so that a
result of one arrives while the other is in hand, and filtering asks for more
relations (`Targets`) after the goal was reached with one. One restart is
enough for each crash window; the proofs cover any number. `MaxRequests`,
`MaxRestarts`, `MaxEvents`, `MaxFaults`, `MaxTimeouts` bound what the environment
does and nothing else. `rust_safe` has good results only: failing answers, which
the driver takes for good ones when no failed command is stored, are in `sieve`;
reclaims together with failing statements are covered by the proofs. Deadlock is
not checked: the program ends.

The barrier needs a fast, a slow and a last thread: three. Its invariant and the
refinement are proved for any number. Seven rounds of one barrier let each kind
of call follow each other kind. A team needs one thread that leads, one that
works or leaves, and one that comes back from a match: three. What is checked of
it is also proved for any team. For the
tree, one relation with two special-q's gives siblings of which one can fail
under the other's sieve, a depth of 2 gives a subtree to abandon, and a retry
with a done sibling gives a parent with children of two attempts. Larger
instances pass as well: a relation with one special-q to go and two with none,
two special-q's and a retry (433,277 states); 2, 1 and 0, two
special-q's to start with, depth 3 and no retry (743,345). The ring of 4 slots goes round with
6 active relations, and the inactive one shows that numbers and slots may differ.
`SizeMax` is any number above all counters. In the pool, two throws allow an
attempt to be repeated twice. Deadlock is checked where the model has an
explicit end (`Ended`): tree, pool and pipeline.

### Fairness

`FairSpec` assumes that the driver keeps taking steps (it is a running process
while nobody kills it), that some client keeps asking for work, that the timeout
check becomes due again and again while `wait()` polls (`wutimeoutcheck`), and that it then finds each
work-unit that stays assigned (`wutimeout` passes). Nothing is assumed of a client that
holds a work-unit. The strong fairness on the check stands for the clock: the
check is disabled while the driver does something else, and time goes on.

In the models of threads every thread that can run does (WF). In `PolyselectTeam`
it is SF: a thread that waits for the team lock gets it in the end although
others take it again and again. In `DescentTree`, SF of `Postprocess` says that a
sieve is finite and does not find candidates for ever; whether a special-q is
discarded is left open. A task of the pool ends. No property relies on a
spurious wakeup: they are never fair.

## 4. Proofs

`WuAccessProofs` proves `check`, `ResultIsFinal` and `NoRevival` of `WuSpec` (every method of
`WuAccess`, in any order, by anyone), the type of the
table and the uniqueness of file owners (`FilesOfOneResult`) for any set of names,
clients, codes and paths, from `NoneAssumption` (NULL is no client, code or
command; 0 is no error code). Each property of a row is preserved by a method
because of that method's WHERE clause; `FilesOfOneResult` needs the uniqueness of
paths, `ResultIsFinal` needs that a row with a result is never ASSIGNED, which
comes from `check`.

`SievingProofs` proves for `SievingTask`, with any number of ranges, clients,
attempts, crashes and requests (assumptions `NoneAssumption`, `TaskAssumption`,
`SievingAssumption`), that `IInv` is an invariant (`Invariance`), and from it
`TypeCorrect`, `AttemptsOrdered`, `OneLiveAttempt` and `CountedOnce`. None of the three
properties is inductive. `AtMostOneLive` holds because a new attempt is created
only at `recreate`, when the work-unit in hand is dead: `JobInv` says so, at each
`pc`. It needs that *all* earlier attempts are dead, not only the last one: `PastDead`
states it for all pairs, which saves an induction over the attempts.
`RangeCountedOnce` needs that a work-unit has one file, its own (`OwnFile`), that a
counted file belongs to a row that is live (`CountedOK`), and that nothing counted
is ever cancelled: a result taken in hand stays received until its row is
verified (`JobInv`), and what the timeout query found was not counted before it
is cancelled (`TodoInv`), since between query and cancellation the driver takes
no result -- which in turn rests on where `wait()` returns to (`CallerInv`).

`BarrierProofs` proves for any finite set of threads, any number of rounds and
spurious wakeups at any time that `BInv == BarrierTypeOK /\ BarrierExact` is an
invariant, that a barrier is destroyed empty (`BarrierDestroyedEmpty`), and that
`Barrier` implements `AbstractBarrier` (`BarrierRefinesAbstract`): a thread crosses only
when all have arrived. The argument is the parity of `event`: while it is even,
`left` is the number of threads still to come and all who wait have the current
event saved; while it is odd, `left` counts those who are out, all have arrived,
and nobody can arrive again before the last one has left. `BarrierExact` says this
with cardinalities; each action moves one thread from one set to another.

`PolyselectTeamProofs` proves `CountersExact` for any team, script and number of ad
(`TeamCountersExact`): the invariant written as a comment in
`polyselect_thread_team.hpp:82-89`, in the sharper form that each counter is the
number of threads at certain places. Its strengthening `TInv` adds the places a
thread can be at and that a thread counted in the barrier is at the barrier
(`BarrierKept`): without it, a thread that is let out could be elsewhere already.

`LInv` adds what holds of leaders and matches in any team (`LeaderIsAlone`,
`MatchesAreNotLost`): whoever is about to post has the lock, with nobody in a task
or in the barrier; matches are in the list while somebody is in the loop to take
them, or with a thread inside the zone, which does not leave for good before it
has put them into the list (`MatchInv`).

`BarrierProofs` also proves `CollectiveExact` (`CollectivesAreExact`) for any number of
threads, any sequence of calls, any root: `CollectivesUseBarrier` shows that each
step is one of `BarrierSpec`, so that `BInv` holds, and `CInv` adds what a data area
holds at each stage, what `utility_ptr` points to while the barrier fills and while
it empties, and that threads which have crossed equally often have the same
calls behind them (`InStep`). Without `InStep` a fast thread could add to the
reduction of another call.

`TableOfWuAccess` (`Spec => WuSpec`) shows that every step of the driver, the server,
the clients and the operator is a call of `WuAccess` or leaves the table alone.

`SievingProofs` further proves `OutstandingExact` and `NoRangeLost`, for every behaviour:
the hypothesis `Undisturbed` (not killed yet, every result so far has a file) is part of
the properties, and section 6 gives the execution that breaks them without each part of
it. `RInv` says which ranges have rows (those before `qnext`), that at most one range
per `run()` is skipped, that the work-unit in hand has no successor yet (`HandInv`), and
that everything settled without success has one or is about to get it
(`SuccessorsInv`). `OutstandingExact` is a cardinality; each transaction adds a row
to a set or takes one out, and the terms for the work-unit in hand bridge the gap
between the counters and the row. `NoRangeLost` then takes the last attempt of a
range, by the least-number principle.

`RelsExact` (`RelationsAreExact`) needs only that the driver is not killed. `SumInv`
adds that a counted file whose row is still received is the one being verified
(`CountedOnceInv`), so that no file is added that counts already. The sum is a fold:
a function on the subsets of the files, chosen for its recursive equation. Such a
function exists (`FoldExists`, by the least size for which there is none), any two
agree on the subsets both are defined on (`FoldsAgree`), and the order of the files
does not matter (`FoldAnyOrder`); hence one file more adds its relations
(`RelationsAdded`).

`WuAccessProofs` proves `HandedOutOnce` (`NotHandedOutTwice`) of the Rust server beside
the driver. A row that left AVAILABLE comes back only through the reclaim, so the
clients that hold a work-unit are no more than the reclaims, and one more once it
was handed out (`HoldersInv`); the conditional UPDATE is what keeps this.
`RustCountsOnce` proves `RangeCountedOnce` of the same composition, where the argument of
`SievingProofs` fails, since a late upload revives a cancelled row. It rests on the
UNIQUE path alone: at most one attempt at a range has a file (`FilesInv`), and what
is counted is a file of a row (`CountedInv`).

`ResultUploadProofs` proves the three properties of `upload_safe` for any number of
clients, ranges, attempts, directories, faults and timeouts. `UNIQUE(files.path)`
holds because the attempts at a range, which upload under one name, are
cancelled one after the other (`AttemptsInOrder`): a request past its check whose
work-unit is still assigned is the only one that can record the path
(`ThreadInv`). `Kept` follows a work-unit from the client that got it to the
acknowledgement.

`ThreadPoolProofs` proves the three safety properties of the pool for any number of
threads, tasks, special-q's, overflows and detached tasks. `TasksAccounted` is
inductive only with `DrainInv` (the copy of `created` that a drain counts to stays
right, because nobody adds to a queue that is drained), `ClosedQueues` (a queue the
client is not at work on is joined) and `ThrownInv` (exceptions are in queue 0 or on
their way, and only while the buckets are filled).

`FilterIoProofs` proves the four safety properties of the pipeline for any size of
the ring and any number of levels, threads and relations. Counters of different
levels are under different mutexes, so `FInv` ties them together: which slots are
complete at which level, which relation each slot holds, on which index each
thread works, which thread can still be inside which level, and what each level
has handled. Two facts about numbers carry it: indices less than a ring apart
have different slots, and the first slot that is not complete bounds a counter
(again the least-number principle).

`DescentTreeProofs` proves the five safety properties of the descent for any number of
subjobs, relations, special-q's, attempts and nodes (`DescentAssumption`: a relation
leaves a number of special-q's and an expected time). The functions that climb the
tree (`NowDone`, `Failing`, `UnfinishedBelow`, `Above`) are recursive; that they exist, and
satisfy their equations, follows from the least-number principle, since a parent is
older than its children (`UpwardFunction`). The rest argues about a node and its
parent. `PlaceInv` is the common invariant: what is unfinished hangs below nodes in
recursion (`ParentsWait`), the queue has each pending node once (`QueueInv`), and a node
in progress is with one subjob or discarded (`HoldersInv`); `EveryNodeInOnePlace` and
`PendingNodesAreServed` follow. `NoLoop` is not inductive, since a candidate found
before other nodes were split is taken after: `LoopInv` adds that a candidate in
hand differs from the relations above its node and from those of split nodes
below it (`CandidateApart`). `DoneMeansSplit` needs that the last children of a node
are those of its current relation and that none of them is abandoned while the
node waits (`SplitInv`). `CountersSayTree` adds cardinalities and the sum of the
attempts (`CountInv`); a failure changes the status of a whole path at once, and
`WithGrows` counts it as a set.

Assumptions on constants that these proofs need: the threads and the clients are
finitely many (`FilterAssumption`, `PoolAssumption`, `TeamAssumption`, `BarrierAssumption`,
`EventsAssumption`: they are counted), and each level of the pipeline has a thread, as
`filter_rels()` starts at least one for each function in its list. TLC evaluates them on every run.

Checked by TLC only. Liveness (`RunEnds`, `CallsEnd`, `DescentEnds`, `FilterEnds`,
`PoolEnds`), which needs fairness.

## 5. Not modelled

`PROJECT.json` gives the reason for each component. In short: the number-theoretic
programs are arithmetic on large integers, out of reach of model checking, and
they are by far the largest part of the repository; `gf2x` and `flint-fft` are
vendored; parameters, build files, benchmarks and tests have no running state.
Within the modelled parts, left out:

* TLS, whitelist and file downloads of the servers; the client's backlog of
  work-units whose download stopped half-way; `-cancel` and `-expire` beside a running
  driver on rows that have a result (each method is in `WuAccess`); import of relations,
  statistics and batch sieving in `SievingTask`; the deadline of work-units; the
  Rust server's upload ignoring `nrsubdir` (the model gives it one directory, as
  the code does);
* pi_allgather, pi_reducescatter, pi_load/save, shared memory regions, and MPI
  itself: what other jobs contribute is one value;
* several teams of polynomial selection at once, and the arithmetic of tasks;
* `special_q_task_collection_simple`, the tree without recursive descent, the
  repetition of a special-q after full buckets inside the tree model (it is in
  `ThreadPool`), and the early end by `global_exit_semaphore`;
* special-q's with `toplevel > 1`: there `las.cpp:814-849` and
  `las-fill-in-buckets.cpp:780-914` fill and drain queue 0, check for full buckets and
  collect exceptions again between the region phases, while detached tasks are
  outstanding; `ExceptionsInTime` says nothing of these. The loop over sublattices, and
  special-q's that are discarded before their buckets are made, are left out too;
* the synchronous mode of the pool (one thread), `sync_at_special_q`, and tasks that
  return no result object;
* the byte ring buffer before `filter_io`'s relations, comments and blank lines of
  relation files, and `ifb_locking_lightweight` (one thread per level, no mutex).

## 6. Where the code and its comments disagree

Met while modelling. Four are violation runs; the others are reproduced with the
instances given here.

*Descent tree.* `descent_again`: `postprocess()` takes a node's `contender` whenever it
holds a relation, and a retry does not reset it; the comments say that the
relations found so far are skipped. Also: `abandon_node()` notifies nobody, so when
the last tree ends abandoned, a sub-job that waits in `pull()` sleeps on, and a
special-q discarded for lack of a sieve area stays in progress with the same
effect (this is why `DescentEnds` assumes neither). A forest that fails abandons
the other trees too.

*Polynomial selection teams.* `-F` sets any team size. `team_ends`: the threads of a
team of three may not all leave. One leads the stop while one is in the zone and
one in a match; the third comes back, enters the zone, sees `done` and breaks out of
the loop still counted in `sync` (`polyselect.cpp:513`), which then never reaches 0, so
that the others sleep on `w_sync_empty` (`polyselect_thread_team.cpp:399-403` wants "the
full wind-down sequence to terminate"). `team_two_leaders`: when the last worker has
brought `sync2` to 0 and the leader has not got the lock back, a thread that
comes back from a match finds `ready` and `sync2` at 0 and leads as well
(`polyselect.cpp:547`: "we're effectively the only one in the team, here"). A third
claim has no run of its own: "we want to make sure that everyone's done"
(`polyselect_thread_team.cpp:259-262`). A worker that
is slow to wake for a task without a barrier is not counted in `sync2` yet, and
`post_work()` may return before it has taken its share, with two threads already;
with three threads, 2 ad and 2 matches, the share of a task with a barrier can be
missed too, after a second leader has posted.
The waits at `polyselect_thread_team.cpp:303` and `:407`
and `polyselect.cpp:588` test no condition afterwards, and a spurious wakeup would
be taken for the real one; the branch "missed the train" of `polyselect.cpp:609-617`
is not reached without one.

*Barrier.* The comment at `utils/barrier.h:17-21` says that in() gets 0 for the first
thread and n-1 for the last; the code passes n-1 down to 0. No caller depends on
it.

*Pool.* `check_buckets_max_full_toplevel()` may throw before the exceptions of the
fill tasks are collected (`las.cpp:801-805`); a later attempt then collects stale
ones. In the model this costs a repetition and nothing else.

*Driver and servers.*

* Killed between `create()` and the update of `qnext`, the driver creates the same
  name at every restart and stops with an IntegrityError
  (`Sieve.cfg`, invariant `why # "integrity"`), although
  `docs/usability-v330.md:114` calls sieving "already crash-safe".
* `errors_dropped`: the Python client does not report a failure of command 0
  (`cado-nfs-client.py:931`), so that the result is not resubmitted, contrary to the
  docstring of `handle_error_result()`. The Rust server stores no failed command at
  all.
* A result without an output file is cancelled by `send_result()` and never counted;
  the driver waits for ever (`RunEnds` with `NeverKilled` in place of `Undisturbed`),
  contrary to the docstring of `enough_work_received()`.
* The Rust server records a late upload on a cancelled row, and the driver fails
  an assertion (`RustSafe.cfg`, invariant `why # "assert"`); the Python server refuses
  such an upload.
* Two uploads that race on the Rust server both pass `dest.exists()`; the second one
  writes over a file that is already recorded, its INSERT fails unnoticed, and its
  row is received all the same, without a file. When both hold the same reclaimed
  work-unit, the second UPDATE takes a verified row back to RECEIVED_OK, and the
  driver adds its relations to `rels_found` again (`RelsExact` in `RustSafe.cfg`); the
  file itself counts once.
* With `nrsubdir = 0`, the late upload of a timed-out attempt occupies the path of
  the next attempt, whose uploads are then answered 403 for ever
  (`UploadSafe.cfg` with `nrsubdir = 0` and `MaxFaults = 0`: an assigned work-unit
  whose upload is not being saved finds every path of its range taken; with two
  directories this needs more late uploads than one timeout gives).
* A retried POST sends files that were read to their end: the server records
  empty files (`disk` takes the value `"empty"` in `upload_safe`).

## 7. Plan

1. `WorkLedger`: an abstract specification of a client-server task (each range is
   todo, out, or settled once) that `SievingTask` without crashes implements.
2. `FilterPipeline`: mediator and filtering tasks: WANT_TO_RUN, partial reruns,
   requests for more relations, crash windows.
3. `ClientLoop`: `ServerPool` fail-over, disabled servers, half downloads, the Rust
   client's loop; `DictDb`: iteration in batches while the dictionary changes;
   `PolyselTask`: the priority queue and its copy in the database.
4. The remaining synchronisation code: `utils/ringbuf`, `utils/work_queue`,
   `linalg/bwc/worker-threads.c`, the checkpoints of `bwc`.
