----------------------------- MODULE ThreadServer -----------------------------
(***************************************************************************)
(* The POSIX thread server of cblas: src/server.c, with the parts of       *)
(* src/util.c it calls or is called from (cblas_init, the thread count,    *)
(* the alive flag, the packing-buffer pool's size, the dispatchers that    *)
(* build a batch).                                                         *)
(*                                                                         *)
(* Application threads (Callers) issue multi-threaded BLAS calls and       *)
(* configuration calls; worker threads (Handles, the pthread_t values)     *)
(* take tasks from one shared queue.  Every read or write of a shared      *)
(* variable that another thread can interleave with is a step of its own;  *)
(* a critical section with a single access is one step.                    *)
(***************************************************************************)
EXTENDS Integers, Sequences, FiniteSets

CONSTANTS
  Callers,        \* application threads
  Handles,        \* the pthread_t values thread creation can return
  Null,           \* the 0 handle, a free mutex, no work item
  Junk,           \* what a failed pthread_create may leave in a handle
  MAX_THREADS,    \* size of cblas_thread_ids[] and of the buffer pool
  Cores,          \* cpu_get_core_count()
  MaxTasks,       \* the most tasks one batch has (bound)
  Requests,       \* thread counts an application asks for (bound)
  Rules,          \* the rules of use the application keeps, see AppRules
  CreateFails,    \* where pthread_create may fail: "init", "grow"
  SpuriousWakeups \* may pthread_cond_wait return without a broadcast?

(***************************************************************************)
(* Rules of use.  docs/THREADING.md:150-175 and :394-401 ask applications  *)
(* for them; the server does not enforce any.                              *)
(*   no_compute    no configuration call while BLAS calls are in progress  *)
(*   config_alone  cblas_init and cblas_shutdown overlap no other          *)
(*                 configuration call                                      *)
(*   set_alone     cblas_set_num_threads calls do not overlap each other   *)
(*   init_first    cblas_init has returned before BLAS is called           *)
(*   init_once     cblas_init is not repeated while the server is alive    *)
(*   set_alive     after cblas_init, cblas_set_num_threads is called only  *)
(*                 while the server is alive                               *)
(***************************************************************************)
AppRules == {"no_compute", "config_alone", "set_alone", "init_first", "init_once",
             "set_alive"}

ASSUME ThreadsAssumption ==
  /\ Callers \cap Handles = {}
  /\ Null \notin Callers \cup Handles
  /\ Junk \notin Handles \cup {Null}

ASSUME BoundsAssumption ==
  /\ MAX_THREADS \in Nat \ {0}
  /\ Cores \in Nat \ {0}
  /\ MaxTasks \in Nat /\ MAX_THREADS <= MaxTasks
  /\ Requests \subseteq Int

ASSUME EnvironmentAssumption ==
  /\ Rules \subseteq AppRules
  /\ CreateFails \subseteq {"init", "grow"}
  /\ SpuriousWakeups \in BOOLEAN

WorkerNums == 0..(MAX_THREADS - 2)    \* thread_num of a worker
Slots == 0..(MAX_THREADS - 1)         \* packing-buffer slots
Item == Callers \X (1..MaxTasks)      \* queue[i] on a caller's stack is <<c, i+1>>
Threads == Callers \cup Handles
NoSlot == -1

VARIABLES
  cblas_max_threads,   \* util.c:17, workers + calling thread
  cblas_server_alive,  \* util.c:18
  work_queue,          \* the linked list of pending items
  cblas_thread_ids,    \* handle of worker i, Null if none
  queue_lock, server_lock, execute_lock,  \* holder of each mutex, or Null
  gemm_buffers_count,  \* packing-buffer slots [0, count) exist
  inited,              \* history: cblas_init returned, no cblas_shutdown since
  wpc, thread_num, work_item,             \* per worker
  pc, threads, thread_count, idx, items, reduces,   \* per caller
  finished, thread_id, runs               \* per item; runs is history

configVars == <<cblas_max_threads, cblas_server_alive, cblas_thread_ids,
                server_lock, gemm_buffers_count, inited>>
localVars == <<threads, thread_count, idx, items, reduces>>
itemVars == <<finished, thread_id, runs>>
workerVars == <<wpc, thread_num, work_item>>
vars == <<configVars, work_queue, queue_lock, execute_lock,
          workerVars, pc, localVars, itemVars>>

\* Where a caller is: in a BLAS call, or in a configuration call.
BlasPcs == {"partition", "execute", "async", "broadcast", "first", "kernel",
            "finish", "join", "unlock", "reduce"}
InitPcs == {"init_threads", "init_buffers", "init_server", "init_lock",
            "init_create", "init_alive", "init_done"}
SetPcs == {"set_shrink", "shrink_lock", "shrink_signal", "shrink_join",
           "set_grow", "grow_lock", "grow_create", "set_late"}
ShutdownPcs == {"shut_dead", "shut_lock", "shut_signal", "shut_join", "shut_clean"}
ConfigPcs == InitPcs \cup SetPcs \cup ShutdownPcs

\* Where a worker is; those with work in hand, those holding queue_lock.
BusyPcs == {"begin", "kernel", "finish"}
QueuePcs == {"check", "park", "decide"}
WorkerPcs == {"none", "lock", "parked", "exited"} \cup QueuePcs \cup BusyPcs

Init ==
  /\ cblas_max_threads = MAX_THREADS
  /\ cblas_server_alive = FALSE
  /\ work_queue = <<>>
  /\ cblas_thread_ids = [i \in WorkerNums |-> Null]
  /\ queue_lock = Null /\ server_lock = Null /\ execute_lock = Null
  /\ gemm_buffers_count = 0
  /\ inited = FALSE
  /\ wpc = [w \in Handles |-> "none"]
  /\ thread_num = [w \in Handles |-> 0]
  /\ work_item = [w \in Handles |-> Null]
  /\ pc = [c \in Callers |-> "idle"]
  /\ threads = [c \in Callers |-> 0]
  /\ thread_count = [c \in Callers |-> 0]
  /\ idx = [c \in Callers |-> 0]
  /\ items = [c \in Callers |-> 0]
  /\ reduces = [c \in Callers |-> FALSE]
  /\ finished = {}
  /\ thread_id = [x \in Item |-> NoSlot]
  /\ runs = [x \in Item |-> 0]

Goto(c, label) == pc' = [pc EXCEPT ![c] = label]
WGoto(w, label) == wpc' = [wpc EXCEPT ![w] = label]

\* platform_cond_broadcast(&kickoff_event): every parked worker goes on to
\* re-acquire queue_lock.  A broadcast with nobody parked is not remembered.
Broadcast ==
  wpc' = [w \in Handles |-> IF wpc[w] = "parked" THEN "lock" ELSE wpc[w]]

\* Mutant: an initialised pool is never grown.
EnsureOnce(n) ==
  gemm_buffers_count' = IF gemm_buffers_count = 0 THEN n ELSE gemm_buffers_count

\* cblas_ensure_gemm_buffers: the pool only grows.
EnsureGemmBuffers(n) ==
  gemm_buffers_count' = IF n > gemm_buffers_count THEN n ELSE gemm_buffers_count

\* platform_thread_create for worker i.  The new thread enters its loop at the
\* queue lock.
CreateThread(i) ==
  \E w \in Handles :
    /\ wpc[w] = "none"
    /\ WGoto(w, "lock")
    /\ thread_num' = [thread_num EXCEPT ![w] = i]
    /\ cblas_thread_ids' = [cblas_thread_ids EXCEPT ![i] = w]
    /\ UNCHANGED work_item

-------------------------------------------------------------------------------
(* Worker threads: cblas_worker_thread *)

\* Acquire queue_lock: at the top of the loop, or when cond_wait returns.
WorkerLock(w) ==
  /\ wpc[w] = "lock"
  /\ queue_lock = Null
  /\ queue_lock' = w
  /\ WGoto(w, "check")
  /\ UNCHANGED <<configVars, work_queue, execute_lock, thread_num, work_item,
                 pc, localVars, itemVars>>

\* while (!work_queue && thread_num <= cblas_max_threads - 2)
MustWait(w) ==
  work_queue = <<>> /\ thread_num[w] <= cblas_max_threads - 2

WorkerCheck(w) ==
  /\ wpc[w] = "check"
  /\ WGoto(w, IF MustWait(w) THEN "park" ELSE "decide")
  /\ UNCHANGED <<configVars, work_queue, queue_lock, execute_lock, thread_num,
                 work_item, pc, localVars, itemVars>>

\* platform_cond_wait releases queue_lock and sleeps, atomically.
WorkerPark(w) ==
  /\ wpc[w] = "park"
  /\ WGoto(w, "parked")
  /\ queue_lock' = Null
  /\ UNCHANGED <<configVars, work_queue, execute_lock, thread_num, work_item,
                 pc, localVars, itemVars>>

\* POSIX allows cond_wait to return unprompted.
WorkerSpurious(w) ==
  /\ SpuriousWakeups
  /\ wpc[w] = "parked"
  /\ WGoto(w, "lock")
  /\ UNCHANGED <<configVars, work_queue, queue_lock, execute_lock, thread_num,
                 work_item, pc, localVars, itemVars>>

\* Mutant: the queue is popped before the exit test.
ExitDropsTask(w) ==
  /\ wpc[w] = "decide"
  /\ thread_num[w] > cblas_max_threads - 2
  /\ work_queue' = IF work_queue = <<>> THEN <<>> ELSE Tail(work_queue)
  /\ WGoto(w, "exited")
  /\ queue_lock' = Null
  /\ UNCHANGED <<configVars, execute_lock, thread_num, work_item, pc, localVars,
                 itemVars>>

\* Excess thread: thread_num > cblas_max_threads - 2, read again after the wait.
WorkerExit(w) ==
  /\ wpc[w] = "decide"
  /\ thread_num[w] > cblas_max_threads - 2
  /\ WGoto(w, "exited")
  /\ queue_lock' = Null
  /\ UNCHANGED <<configVars, work_queue, execute_lock, thread_num, work_item,
                 pc, localVars, itemVars>>

\* Mutant: the head is used but stays in the queue.
TakeKeepsHead(w) ==
  /\ wpc[w] = "decide"
  /\ thread_num[w] <= cblas_max_threads - 2
  /\ work_queue # <<>>
  /\ work_item' = [work_item EXCEPT ![w] = Head(work_queue)]
  /\ WGoto(w, "begin")
  /\ queue_lock' = Null
  /\ UNCHANGED <<configVars, work_queue, execute_lock, thread_num, pc, localVars,
                 itemVars>>

\* Pop the head of the queue.
WorkerTake(w) ==
  /\ wpc[w] = "decide"
  /\ thread_num[w] <= cblas_max_threads - 2
  /\ work_queue # <<>>
  /\ work_item' = [work_item EXCEPT ![w] = Head(work_queue)]
  /\ work_queue' = Tail(work_queue)
  /\ WGoto(w, "begin")
  /\ queue_lock' = Null
  /\ UNCHANGED <<configVars, execute_lock, thread_num, pc, localVars, itemVars>>

\* No work after all (the thread count grew between the two reads of it).
WorkerRetry(w) ==
  /\ wpc[w] = "decide"
  /\ thread_num[w] <= cblas_max_threads - 2
  /\ work_queue = <<>>
  /\ WGoto(w, "lock")
  /\ queue_lock' = Null
  /\ UNCHANGED <<configVars, work_queue, execute_lock, thread_num, work_item,
                 pc, localVars, itemVars>>

\* work_item->args->thread_id = thread_num, then call the kernel.
WorkerBegin(w) ==
  /\ wpc[w] = "begin"
  /\ thread_id' = [thread_id EXCEPT ![work_item[w]] = thread_num[w]]
  /\ WGoto(w, "kernel")
  /\ UNCHANGED <<configVars, work_queue, queue_lock, execute_lock, thread_num,
                 work_item, pc, localVars, finished, runs>>

\* The kernel returns.
WorkerKernel(w) ==
  /\ wpc[w] = "kernel"
  /\ runs' = [runs EXCEPT ![work_item[w]] = @ + 1]
  /\ WGoto(w, "finish")
  /\ UNCHANGED <<configVars, work_queue, queue_lock, execute_lock, thread_num,
                 work_item, pc, localVars, finished, thread_id>>

\* Release-store of work_item->finished; the item is not touched afterwards.
WorkerFinish(w) ==
  /\ wpc[w] = "finish"
  /\ finished' = finished \cup {work_item[w]}
  /\ work_item' = [work_item EXCEPT ![w] = Null]
  /\ WGoto(w, "lock")
  /\ UNCHANGED <<configVars, work_queue, queue_lock, execute_lock, thread_num,
                 pc, localVars, thread_id, runs>>

Worker(w) ==
  \/ WorkerLock(w) \/ WorkerCheck(w) \/ WorkerPark(w)
  \/ WorkerExit(w) \/ WorkerTake(w) \/ WorkerRetry(w)
  \/ WorkerBegin(w) \/ WorkerKernel(w) \/ WorkerFinish(w)

-------------------------------------------------------------------------------
(* BLAS calls: the MT gate, a dispatcher of util.c, cblas_execute *)

Keeps(rule) == rule \in Rules
NoConfigCall == \A c \in Callers : pc[c] \notin ConfigPcs
NoBlasCall == \A c \in Callers : pc[c] \notin BlasPcs

\* mt_used: the problem is large enough and cblas_get_num_threads() > 1.
CallBlas(c) ==
  /\ pc[c] = "idle"
  /\ Keeps("no_compute") => NoConfigCall
  /\ Keeps("init_first") => inited
  /\ cblas_max_threads > 1
  /\ Goto(c, "partition")
  /\ UNCHANGED <<configVars, work_queue, queue_lock, execute_lock, workerVars,
                 localVars, itemVars>>

\* Mutant: the dispatcher makes no task for an empty partition.
NonEmptyCounts(reducing) ==
  IF reducing THEN 1..cblas_max_threads ELSE 1..MaxTasks

\* Build the batch.  The level-1 and row-wise level-2 dispatchers read the
\* thread count (again) and make one task per thread; the column-wise one and
\* GEMM make as many as there are column blocks, bands or tiles.
TaskCounts(reducing) ==
  IF reducing THEN {cblas_max_threads} ELSE 1..MaxTasks

Partition(c) ==
  /\ pc[c] = "partition"
  /\ \E r \in BOOLEAN :
       /\ reduces' = [reduces EXCEPT ![c] = r]
       /\ \E k \in TaskCounts(r) : items' = [items EXCEPT ![c] = k]
  /\ Goto(c, "execute")
  /\ UNCHANGED <<configVars, work_queue, queue_lock, execute_lock, workerVars,
                 threads, thread_count, idx, itemVars>>

\* platform_mutex_lock(&execute_lock)
Execute(c) ==
  /\ pc[c] = "execute"
  /\ execute_lock = Null
  /\ execute_lock' = c
  /\ Goto(c, IF items[c] > 1 THEN "async" ELSE "first")
  /\ UNCHANGED <<configVars, work_queue, queue_lock, workerVars, localVars,
                 itemVars>>

\* cblas_execute_async: all items but the first go to the tail of the queue.
QueuedItems(c) == [j \in 1..(items[c] - 1) |-> <<c, j + 1>>]

\* Mutant: the list is appended without queue_lock.
AsyncUnlocked(c) ==
  /\ pc[c] = "async"
  /\ work_queue' = work_queue \o QueuedItems(c)
  /\ Goto(c, "broadcast")
  /\ UNCHANGED <<configVars, queue_lock, execute_lock, workerVars, localVars,
                 itemVars>>

ExecuteAsync(c) ==
  /\ pc[c] = "async"
  /\ queue_lock = Null
  /\ work_queue' = work_queue \o QueuedItems(c)
  /\ Goto(c, "broadcast")
  /\ UNCHANGED <<configVars, queue_lock, execute_lock, workerVars, localVars,
                 itemVars>>

\* ... and the workers are woken after queue_lock is released.
AsyncBroadcast(c) ==
  /\ pc[c] = "broadcast"
  /\ Broadcast
  /\ Goto(c, "first")
  /\ UNCHANGED <<configVars, work_queue, queue_lock, execute_lock, thread_num,
                 work_item, localVars, itemVars>>

\* Mutant: the caller packs into the slot of the last worker.
LastWorkerSlot == cblas_max_threads - 2

\* The calling thread runs the first task, on the highest buffer slot.
CallerSlot == cblas_max_threads - 1

BeginFirst(c) ==
  /\ pc[c] = "first"
  /\ thread_id' = [thread_id EXCEPT ![<<c, 1>>] = CallerSlot]
  /\ Goto(c, "kernel")
  /\ UNCHANGED <<configVars, work_queue, queue_lock, execute_lock, workerVars,
                 localVars, finished, runs>>

RunFirst(c) ==
  /\ pc[c] = "kernel"
  /\ runs' = [runs EXCEPT ![<<c, 1>>] = @ + 1]
  /\ Goto(c, "finish")
  /\ UNCHANGED <<configVars, work_queue, queue_lock, execute_lock, workerVars,
                 localVars, finished, thread_id>>

FinishFirst(c) ==
  /\ pc[c] = "finish"
  /\ finished' = finished \cup {<<c, 1>>}
  /\ idx' = [idx EXCEPT ![c] = 2]
  /\ Goto(c, IF items[c] > 1 THEN "join" ELSE "unlock")
  /\ UNCHANGED <<configVars, work_queue, queue_lock, execute_lock, workerVars,
                 threads, thread_count, items, reduces, thread_id, runs>>

\* Mutant: the join leaves the last item out.
JoinAllButLast(c) ==
  /\ pc[c] = "join"
  /\ <<c, idx[c]>> \in finished
  /\ idx' = [idx EXCEPT ![c] = @ + 1]
  /\ Goto(c, IF idx[c] + 1 >= items[c] THEN "unlock" ELSE "join")
  /\ UNCHANGED <<configVars, work_queue, queue_lock, execute_lock, workerVars,
                 threads, thread_count, items, reduces, itemVars>>

\* cblas_execute_async_join: spin on the items in list order.
ExecuteJoin(c) ==
  /\ pc[c] = "join"
  /\ <<c, idx[c]>> \in finished
  /\ idx' = [idx EXCEPT ![c] = @ + 1]
  /\ Goto(c, IF idx[c] = items[c] THEN "unlock" ELSE "join")
  /\ UNCHANGED <<configVars, work_queue, queue_lock, execute_lock, workerVars,
                 threads, thread_count, items, reduces, itemVars>>

\* Unlock execute_lock and return: queue[] and args[] go out of scope.
ItemsOf(c) == {c} \X (1..MaxTasks)

ExecuteReturn(c) ==
  /\ pc[c] = "unlock"
  /\ execute_lock' = Null
  /\ finished' = finished \ ItemsOf(c)
  /\ thread_id' = [x \in Item |-> IF x \in ItemsOf(c) THEN NoSlot ELSE thread_id[x]]
  /\ runs' = [x \in Item |-> IF x \in ItemsOf(c) THEN 0 ELSE runs[x]]
  /\ idx' = [idx EXCEPT ![c] = 0]
  /\ items' = [items EXCEPT ![c] = IF reduces[c] THEN @ ELSE 0]
  /\ Goto(c, IF reduces[c] THEN "reduce" ELSE "idle")
  /\ UNCHANGED <<configVars, work_queue, queue_lock, workerVars, threads,
                 thread_count, reduces>>

\* dot, nrm2, asum: add up cblas_get_num_threads() partial results.
Reduce(c) ==
  /\ pc[c] = "reduce"
  /\ items' = [items EXCEPT ![c] = 0]
  /\ reduces' = [reduces EXCEPT ![c] = FALSE]
  /\ Goto(c, "idle")
  /\ UNCHANGED <<configVars, work_queue, queue_lock, execute_lock, workerVars,
                 threads, thread_count, idx, itemVars>>

BlasStep(c) ==
  \/ Partition(c) \/ Execute(c) \/ ExecuteAsync(c) \/ AsyncBroadcast(c)
  \/ BeginFirst(c) \/ RunFirst(c) \/ FinishFirst(c) \/ ExecuteJoin(c)
  \/ ExecuteReturn(c) \/ Reduce(c)

-------------------------------------------------------------------------------
(* Configuration calls: cblas_init *)

MayConfigure ==
  /\ Keeps("no_compute") => NoBlasCall
  /\ Keeps("config_alone") => \A c \in Callers : pc[c] \notin ConfigPcs \ SetPcs

Least(a, b) == IF a < b THEN a ELSE b
Most(a, b) == IF a > b THEN a ELSE b

\* Mutant: only the lower bound is enforced.
UnboundedThreads(n) == Most(n, 1)

\* The range every requested count is brought into.
ClampThreads(n) == Least(Most(n, 1), MAX_THREADS)

\* Everything but the server's own state, for the steps of these calls.
batchVars == <<work_queue, execute_lock, items, reduces, itemVars>>

CallInit(c) ==
  /\ pc[c] = "idle"
  /\ MayConfigure
  /\ Keeps("config_alone") => NoConfigCall
  /\ Keeps("init_once") => ~cblas_server_alive
  /\ \E n \in Requests :
       threads' = [threads EXCEPT ![c] = ClampThreads(n)]
  /\ Goto(c, "init_threads")
  /\ UNCHANGED <<configVars, queue_lock, workerVars, thread_count, idx, batchVars>>

InitThreads(c) ==
  /\ pc[c] = "init_threads"
  /\ cblas_max_threads' = threads[c]
  /\ Goto(c, "init_buffers")
  /\ UNCHANGED <<cblas_server_alive, cblas_thread_ids, server_lock,
                 gemm_buffers_count, inited, queue_lock, workerVars, threads,
                 thread_count, idx, batchVars>>

InitBuffers(c) ==
  /\ pc[c] = "init_buffers"
  /\ EnsureGemmBuffers(cblas_max_threads)
  /\ Goto(c, "init_server")
  /\ UNCHANGED <<cblas_max_threads, cblas_server_alive, cblas_thread_ids,
                 server_lock, inited, queue_lock, workerVars, threads,
                 thread_count, idx, batchVars>>

\* The early returns of cblas_init and cblas_init_server.
InitServer(c) ==
  /\ pc[c] = "init_server"
  /\ IF cblas_server_alive \/ cblas_max_threads <= 1
       THEN /\ Goto(c, "idle")
            /\ threads' = [threads EXCEPT ![c] = 0]
            /\ inited' = TRUE
       ELSE /\ Goto(c, "init_lock")
            /\ UNCHANGED <<threads, inited>>
  /\ UNCHANGED <<cblas_max_threads, cblas_server_alive, cblas_thread_ids,
                 server_lock, gemm_buffers_count, queue_lock, workerVars,
                 thread_count, idx, batchVars>>

InitLock(c) ==
  /\ pc[c] = "init_lock"
  /\ server_lock = Null
  /\ server_lock' = c
  /\ idx' = [idx EXCEPT ![c] = 0]
  /\ Goto(c, "init_create")
  /\ UNCHANGED <<cblas_max_threads, cblas_server_alive, cblas_thread_ids,
                 gemm_buffers_count, inited, queue_lock, workerVars, threads,
                 thread_count, batchVars>>

\* for (i = 0; i < cblas_max_threads - 1; i++) create worker i
InitCreate(c) ==
  /\ pc[c] = "init_create"
  /\ idx[c] < cblas_max_threads - 1
  /\ CreateThread(idx[c])
  /\ idx' = [idx EXCEPT ![c] = @ + 1]
  /\ UNCHANGED <<cblas_max_threads, cblas_server_alive, server_lock,
                 gemm_buffers_count, inited, queue_lock, pc, threads,
                 thread_count, batchVars>>

\* Creation failed: no handle, the count is capped to what was started, break.
InitCreateFails(c) ==
  /\ pc[c] = "init_create"
  /\ "init" \in CreateFails
  /\ idx[c] < cblas_max_threads - 1
  /\ cblas_thread_ids' = [cblas_thread_ids EXCEPT ![idx[c]] = Null]
  /\ cblas_max_threads' = idx[c] + 1
  /\ Goto(c, "init_alive")
  /\ UNCHANGED <<cblas_server_alive, server_lock, gemm_buffers_count, inited,
                 queue_lock, workerVars, threads, thread_count, idx, batchVars>>

InitAlive(c) ==
  /\ \/ pc[c] = "init_alive"
     \/ pc[c] = "init_create" /\ idx[c] >= cblas_max_threads - 1
  /\ cblas_server_alive' = TRUE
  /\ server_lock' = Null
  /\ idx' = [idx EXCEPT ![c] = 0]
  /\ Goto(c, "init_done")
  /\ UNCHANGED <<cblas_max_threads, cblas_thread_ids, gemm_buffers_count, inited,
                 queue_lock, workerVars, threads, thread_count, batchVars>>

\* cblas_init sets the flag once more after cblas_init_server returned.
InitDone(c) ==
  /\ pc[c] = "init_done"
  /\ cblas_server_alive' = TRUE
  /\ inited' = TRUE
  /\ threads' = [threads EXCEPT ![c] = 0]
  /\ Goto(c, "idle")
  /\ UNCHANGED <<cblas_max_threads, cblas_thread_ids, server_lock,
                 gemm_buffers_count, queue_lock, workerVars, thread_count, idx,
                 batchVars>>

InitStep(c) ==
  \/ InitThreads(c) \/ InitBuffers(c) \/ InitServer(c) \/ InitLock(c)
  \/ InitCreate(c) \/ InitCreateFails(c) \/ InitAlive(c) \/ InitDone(c)

-------------------------------------------------------------------------------
(* Configuration calls: cblas_set_num_threads and cblas_shutdown *)

CallSetNumThreads(c) ==
  /\ pc[c] = "idle"
  /\ MayConfigure
  /\ Keeps("set_alone") => \A d \in Callers : pc[d] \notin SetPcs
  /\ Keeps("set_alive") => cblas_server_alive \/ ~inited
  /\ \E n \in Requests :
       threads' = [threads EXCEPT ![c] = Least(ClampThreads(n), Cores)]
  /\ Goto(c, "set_shrink")
  /\ UNCHANGED <<configVars, queue_lock, workerVars, thread_count, idx, batchVars>>

\* The first test, made before server_lock is taken.
SetShrink(c) ==
  /\ pc[c] = "set_shrink"
  /\ Goto(c, IF cblas_server_alive /\ threads[c] < cblas_max_threads
               THEN "shrink_lock" ELSE "set_grow")
  /\ UNCHANGED <<configVars, queue_lock, workerVars, localVars, work_queue,
                 execute_lock, itemVars>>

ShrinkLock(c) ==
  /\ pc[c] = "shrink_lock"
  /\ server_lock = Null
  /\ server_lock' = c
  /\ thread_count' = [thread_count EXCEPT ![c] = cblas_max_threads]
  /\ Goto(c, "shrink_signal")
  /\ UNCHANGED <<cblas_max_threads, cblas_server_alive, cblas_thread_ids,
                 gemm_buffers_count, inited, queue_lock, workerVars, threads,
                 idx, batchVars>>

\* Mutant: the predicate changes under server_lock only.
SignalUnlocked(c) ==
  /\ pc[c] = "shrink_signal"
  /\ cblas_max_threads' = threads[c]
  /\ Broadcast
  /\ idx' = [idx EXCEPT ![c] = threads[c] - 1]
  /\ Goto(c, "shrink_join")
  /\ UNCHANGED <<cblas_server_alive, cblas_thread_ids, server_lock,
                 gemm_buffers_count, inited, queue_lock, thread_num, work_item,
                 threads, thread_count, batchVars>>

\* Change the exit predicate and broadcast under queue_lock.
ShrinkSignal(c) ==
  /\ pc[c] = "shrink_signal"
  /\ queue_lock = Null
  /\ cblas_max_threads' = threads[c]
  /\ Broadcast
  /\ idx' = [idx EXCEPT ![c] = threads[c] - 1]
  /\ Goto(c, "shrink_join")
  /\ UNCHANGED <<cblas_server_alive, cblas_thread_ids, server_lock,
                 gemm_buffers_count, inited, queue_lock, thread_num, work_item,
                 threads, thread_count, batchVars>>

\* One turn of the join loops of cblas_set_num_threads and cblas_shutdown: an
\* empty handle is skipped; otherwise wait for the worker's exit and clear it.
JoinWorker(c) ==
  /\ pc[c] \in {"shrink_join", "shut_join"}
  /\ idx[c] < thread_count[c] - 1
  /\ LET h == cblas_thread_ids[idx[c]] IN
       \/ /\ h = Null
          /\ UNCHANGED <<wpc, cblas_thread_ids>>
       \/ /\ h \in Handles
          /\ wpc[h] = "exited"
          /\ WGoto(h, "none")
          /\ cblas_thread_ids' = [cblas_thread_ids EXCEPT ![idx[c]] = Null]
  /\ idx' = [idx EXCEPT ![c] = @ + 1]
  /\ UNCHANGED <<cblas_max_threads, cblas_server_alive, server_lock,
                 gemm_buffers_count, inited, queue_lock, thread_num, work_item,
                 pc, threads, thread_count, batchVars>>

ShrinkDone(c) ==
  /\ pc[c] = "shrink_join"
  /\ idx[c] >= thread_count[c] - 1
  /\ server_lock' = Null
  /\ idx' = [idx EXCEPT ![c] = 0]
  /\ thread_count' = [thread_count EXCEPT ![c] = 0]
  /\ Goto(c, "set_grow")
  /\ UNCHANGED <<cblas_max_threads, cblas_server_alive, cblas_thread_ids,
                 gemm_buffers_count, inited, queue_lock, workerVars, threads,
                 batchVars>>

\* The second test, again before server_lock is taken.
SetGrow(c) ==
  /\ pc[c] = "set_grow"
  /\ Goto(c, IF cblas_server_alive /\ threads[c] > cblas_max_threads
               THEN "grow_lock" ELSE "set_late")
  /\ UNCHANGED <<configVars, queue_lock, workerVars, localVars, work_queue,
                 execute_lock, itemVars>>

\* Mutant: the first new worker's number is off by one.
GrowStartLate == cblas_max_threads

\* Buffers first, then the count; the first new worker's number.
GrowStart == IF cblas_max_threads > 0 THEN cblas_max_threads - 1 ELSE 0

GrowLock(c) ==
  /\ pc[c] = "grow_lock"
  /\ server_lock = Null
  /\ server_lock' = c
  /\ EnsureGemmBuffers(threads[c])
  /\ idx' = [idx EXCEPT ![c] = GrowStart]
  /\ cblas_max_threads' = threads[c]
  /\ Goto(c, "grow_create")
  /\ UNCHANGED <<cblas_server_alive, cblas_thread_ids, inited, queue_lock,
                 workerVars, threads, thread_count, batchVars>>

GrowCreate(c) ==
  /\ pc[c] = "grow_create"
  /\ idx[c] < threads[c] - 1
  /\ CreateThread(idx[c])
  /\ idx' = [idx EXCEPT ![c] = @ + 1]
  /\ UNCHANGED <<cblas_max_threads, cblas_server_alive, server_lock,
                 gemm_buffers_count, inited, queue_lock, pc, threads,
                 thread_count, batchVars>>

\* The result of pthread_create is not looked at here.
GrowCreateFails(c) ==
  /\ pc[c] = "grow_create"
  /\ "grow" \in CreateFails
  /\ idx[c] < threads[c] - 1
  /\ \E h \in {cblas_thread_ids[idx[c]], Junk} :
       cblas_thread_ids' = [cblas_thread_ids EXCEPT ![idx[c]] = h]
  /\ idx' = [idx EXCEPT ![c] = @ + 1]
  /\ UNCHANGED <<cblas_max_threads, cblas_server_alive, server_lock,
                 gemm_buffers_count, inited, queue_lock, workerVars, pc, threads,
                 thread_count, batchVars>>

GrowDone(c) ==
  /\ pc[c] = "grow_create"
  /\ idx[c] >= threads[c] - 1
  /\ server_lock' = Null
  /\ idx' = [idx EXCEPT ![c] = 0]
  /\ Goto(c, "set_late")
  /\ UNCHANGED <<cblas_max_threads, cblas_server_alive, cblas_thread_ids,
                 gemm_buffers_count, inited, queue_lock, workerVars, threads,
                 thread_count, batchVars>>

\* Without a server the count is only recorded.
SetLate(c) ==
  /\ pc[c] = "set_late"
  /\ cblas_max_threads' = IF cblas_server_alive THEN cblas_max_threads
                                                ELSE threads[c]
  /\ threads' = [threads EXCEPT ![c] = 0]
  /\ Goto(c, "idle")
  /\ UNCHANGED <<cblas_server_alive, cblas_thread_ids, server_lock,
                 gemm_buffers_count, inited, queue_lock, workerVars,
                 thread_count, idx, batchVars>>

SetStep(c) ==
  \/ SetShrink(c) \/ ShrinkLock(c) \/ ShrinkSignal(c) \/ ShrinkDone(c)
  \/ SetGrow(c) \/ GrowLock(c) \/ GrowCreate(c) \/ GrowCreateFails(c)
  \/ GrowDone(c) \/ SetLate(c)

\* cblas_shutdown returns at once when the server is not alive.
CallShutdown(c) ==
  /\ pc[c] = "idle"
  /\ MayConfigure
  /\ Keeps("config_alone") => NoConfigCall
  /\ cblas_server_alive
  /\ inited' = FALSE
  /\ Goto(c, "shut_dead")
  /\ UNCHANGED <<cblas_max_threads, cblas_server_alive, cblas_thread_ids,
                 server_lock, gemm_buffers_count, queue_lock, workerVars,
                 threads, thread_count, idx, batchVars>>

ShutDead(c) ==
  /\ pc[c] = "shut_dead"
  /\ cblas_server_alive' = FALSE
  /\ Goto(c, "shut_lock")
  /\ UNCHANGED <<cblas_max_threads, cblas_thread_ids, server_lock,
                 gemm_buffers_count, inited, queue_lock, workerVars, threads,
                 thread_count, idx, batchVars>>

\* Mutant: the last worker is left out of the join.
ShutLockOneLess(c) ==
  /\ pc[c] = "shut_lock"
  /\ server_lock = Null
  /\ server_lock' = c
  /\ thread_count' = [thread_count EXCEPT ![c] = cblas_max_threads - 1]
  /\ Goto(c, "shut_signal")
  /\ UNCHANGED <<cblas_max_threads, cblas_server_alive, cblas_thread_ids,
                 gemm_buffers_count, inited, queue_lock, workerVars, threads,
                 idx, batchVars>>

ShutLock(c) ==
  /\ pc[c] = "shut_lock"
  /\ server_lock = Null
  /\ server_lock' = c
  /\ thread_count' = [thread_count EXCEPT ![c] = cblas_max_threads]
  /\ Goto(c, "shut_signal")
  /\ UNCHANGED <<cblas_max_threads, cblas_server_alive, cblas_thread_ids,
                 gemm_buffers_count, inited, queue_lock, workerVars, threads,
                 idx, batchVars>>

ShutSignal(c) ==
  /\ pc[c] = "shut_signal"
  /\ queue_lock = Null
  /\ cblas_max_threads' = 1
  /\ Broadcast
  /\ idx' = [idx EXCEPT ![c] = 0]
  /\ Goto(c, "shut_join")
  /\ UNCHANGED <<cblas_server_alive, cblas_thread_ids, server_lock,
                 gemm_buffers_count, inited, queue_lock, thread_num, work_item,
                 threads, thread_count, batchVars>>

ShutJoined(c) ==
  /\ pc[c] = "shut_join"
  /\ idx[c] >= thread_count[c] - 1
  /\ server_lock' = Null
  /\ idx' = [idx EXCEPT ![c] = 0]
  /\ thread_count' = [thread_count EXCEPT ![c] = 0]
  /\ Goto(c, "shut_clean")
  /\ UNCHANGED <<cblas_max_threads, cblas_server_alive, cblas_thread_ids,
                 gemm_buffers_count, inited, queue_lock, workerVars, threads,
                 batchVars>>

\* cblas_cleanup_gemm_buffers (cblas_cleanup_stats has no server state).
ShutClean(c) ==
  /\ pc[c] = "shut_clean"
  /\ gemm_buffers_count' = 0
  /\ Goto(c, "idle")
  /\ UNCHANGED <<cblas_max_threads, cblas_server_alive, cblas_thread_ids,
                 server_lock, inited, queue_lock, workerVars, threads,
                 thread_count, idx, batchVars>>

ShutStep(c) ==
  \/ ShutDead(c) \/ ShutLock(c) \/ ShutSignal(c) \/ ShutJoined(c) \/ ShutClean(c)

-------------------------------------------------------------------------------
(* The specification *)

CallerStep(c) ==
  \/ BlasStep(c) \/ InitStep(c) \/ SetStep(c) \/ ShutStep(c) \/ JoinWorker(c)

NewCall(c) ==
  \/ CallBlas(c) \/ CallInit(c) \/ CallSetNumThreads(c) \/ CallShutdown(c)

Next ==
  \/ \E w \in Handles : Worker(w) \/ WorkerSpurious(w)
  \/ \E c \in Callers : CallerStep(c) \/ NewCall(c)

Spec == Init /\ [][Next]_vars

\* The scheduler runs every thread that stays able to step.  No thread is
\* promised a mutex that others keep taking, an application need not make
\* calls, and cond_wait need not return spuriously.
Fairness ==
  /\ \A w \in Handles : WF_vars(Worker(w))
  /\ \A c \in Callers : WF_vars(CallerStep(c))

FairSpec == Spec /\ Fairness

-------------------------------------------------------------------------------
(* Properties *)

ConfigTypeOK ==
  /\ cblas_max_threads \in 1..MAX_THREADS
  /\ cblas_server_alive \in BOOLEAN
  /\ inited \in BOOLEAN
  /\ cblas_thread_ids \in [WorkerNums -> Handles \cup {Null, Junk}]
  /\ queue_lock \in Handles \cup {Null}
  /\ server_lock \in Callers \cup {Null}
  /\ gemm_buffers_count \in 0..MAX_THREADS

WorkerTypeOK ==
  /\ wpc \in [Handles -> WorkerPcs]
  /\ thread_num \in [Handles -> WorkerNums \cup {0}]
  /\ work_item \in [Handles -> Item \cup {Null}]

CallerTypeOK ==
  /\ pc \in [Callers -> {"idle"} \cup BlasPcs \cup ConfigPcs]
  /\ threads \in [Callers -> 0..MAX_THREADS]
  /\ thread_count \in [Callers -> 0..MAX_THREADS]
  /\ idx \in [Callers -> 0..(MaxTasks + 1)]

BatchTypeOK ==
  /\ work_queue \in Seq(Item)
  /\ execute_lock \in Callers \cup {Null}
  /\ items \in [Callers -> 0..MaxTasks]
  /\ reduces \in [Callers -> BOOLEAN]
  /\ finished \in SUBSET Item
  /\ thread_id \in [Item -> Slots \cup {NoSlot}]
  /\ runs \in [Item -> Nat]

\* Every variable keeps to its range.  Three bounds are the code's own: the
\* thread count stays in 1..MAX_THREADS whatever is requested (util.c:1081,
\* server.c:40), so worker numbers index cblas_thread_ids[MAX_THREADS - 1] and
\* buffer slots the pool of MAX_THREADS entries.
TypeOK ==
  ConfigTypeOK /\ WorkerTypeOK /\ CallerTypeOK /\ BatchTypeOK

\* Where an unfinished task of a submitted batch is.
InQueue(x) == \E p \in DOMAIN work_queue : work_queue[p] = x
InHand(x) == \E w \in Handles : wpc[w] \in BusyPcs /\ work_item[w] = x
Submitted(c) == pc[c] \in {"broadcast", "first", "kernel", "finish", "join"}

\* Every item reachable from the queue or from a worker lies in the stack
\* frame of a caller that is still inside cblas_execute, and nobody has
\* marked it finished.  Otherwise a worker would write through a pointer into
\* a returned frame (work_item->finished, args->thread_id), or the assert
\* before the release-store would fire.
NoDanglingItem ==
  \A x \in Item :
    InQueue(x) \/ InHand(x) =>
      /\ Submitted(x[1])
      /\ execute_lock = x[1]
      /\ x[2] \in 2..items[x[1]]
      /\ x \notin finished

\* No task is lost: until it is finished, each queued task of a submitted
\* batch is in the queue or in the hands of a worker, so the join does not
\* spin on a flag nobody will set.
NoTaskLost ==
  \A c \in Callers :
    Submitted(c) =>
      \A i \in 2..items[c] :
        InQueue(<<c, i>>) \/ InHand(<<c, i>>) \/ <<c, i>> \in finished

\* The tasks whose kernels run at this moment, on workers and callers.
Running ==
  {work_item[w] : w \in {v \in Handles : wpc[v] = "kernel"}}
    \cup {<<c, 1>> : c \in {d \in Callers : pc[d] = "kernel"}}

\* Two kernels that run at the same time never pack into the same buffer slot
\* (server.c:322, "Main thread uses highest buffer slot to avoid conflict").
SlotsExclusive ==
  \A x, y \in Running : x # y => thread_id[x] # thread_id[y]

\* ... and the slot of a running kernel exists in the buffer pool, whatever
\* the thread count was raised to since cblas_init.
SlotsBacked ==
  \A x \in Running : thread_id[x] < gemm_buffers_count

\* Between configuration calls the workers are exactly those the thread count
\* says: numbers 0 .. cblas_max_threads - 2 while the server is alive, one
\* thread each, with its handle recorded for the join; none otherwise.
WorkersMatchCount ==
  NoConfigCall =>
    /\ \A i \in WorkerNums :
         IF cblas_server_alive /\ i <= cblas_max_threads - 2
           THEN /\ cblas_thread_ids[i] \in Handles
                /\ wpc[cblas_thread_ids[i]] \notin {"none", "exited"}
           ELSE cblas_thread_ids[i] = Null
    /\ \A w \in Handles :
         wpc[w] # "none" => cblas_thread_ids[thread_num[w]] = w

\* cblas_shutdown "Waits for all threads to complete" (cblas.h:1025): once no
\* server is alive and no configuration call runs, no worker exists.
ShutdownJoinsAll ==
  NoConfigCall /\ ~cblas_server_alive => \A w \in Handles : wpc[w] = "none"

\* dot, nrm2 and asum add up as many partial results as the batch wrote,
\* though each reads the thread count by itself (dot.c:40).
ReductionCoversBatch ==
  \A c \in Callers : pc[c] = "reduce" => cblas_max_threads = items[c]

\* A batch in progress comes to its end: every task is taken, run and
\* finished, and cblas_execute returns.
BatchCompletes ==
  \A c \in Callers : execute_lock = c ~> execute_lock # c

\* cblas_init, cblas_set_num_threads and cblas_shutdown return: no worker
\* they wait for misses the broadcast that tells it to exit.
ConfigCompletes ==
  \A c \in Callers : pc[c] \in ConfigPcs ~> pc[c] \notin ConfigPcs

\* The server implements BatchExecution: its owner holds execute_lock, and
\* the runs of a task are those of its kernel.
Batch == INSTANCE BatchExecution WITH
  owner <- execute_lock,
  size  <- IF execute_lock = Null THEN 0 ELSE items[execute_lock],
  done  <- IF execute_lock = Null THEN [i \in 1..MaxTasks |-> 0]
             ELSE [i \in 1..MaxTasks |-> runs[<<execute_lock, i>>]]

\* Each task of each batch runs exactly once, and cblas_execute returns only
\* after all of them have run.
ImplementsBatch == Batch!Spec
===============================================================================
