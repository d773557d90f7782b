------------------------------- MODULE WinServer -------------------------------
(***************************************************************************)
(* The Windows thread server: src/server_win32.c.  Its queue, its locks,   *)
(* cblas_execute, the thread count and the configuration calls are those   *)
(* of the POSIX server, whose actions are used where the two files say the *)
(* same.  The workers sleep on something else: a manual-reset event, which *)
(* lets every thread through from SetEvent to ResetEvent, instead of a     *)
(* condition variable that is bound to queue_lock.                         *)
(*                                                                         *)
(* A worker at "lock" is about to wait for the event, at "check" about to  *)
(* test for excess, at "decide" about to take an item.  Each use of        *)
(* queue_lock here is one step with a single critical section, so nobody   *)
(* is ever seen holding it.                                                *)
(***************************************************************************)
EXTENDS ThreadServer

VARIABLE kickoff_event     \* signalled or not

winVars == <<vars, kickoff_event>>

WinInit == Init /\ kickoff_event = FALSE

SameEvent == UNCHANGED kickoff_event

(* SetEvent: the sleepers go on, and so does who comes to wait later.      *)
(* ThreadServer's Broadcast sends the sleepers to "lock", where they find  *)
(* the event in whatever state it then is; here they are already through.  *)
SetEvent ==
  /\ wpc' = [w \in Handles |-> IF wpc[w] = "parked" THEN "check" ELSE wpc[w]]
  /\ kickoff_event' = TRUE

ResetEvent == kickoff_event' = FALSE

\* Mutant: the sleepers go on, but the event does not stay signalled.
PulseEvent ==
  /\ wpc' = [w \in Handles |-> IF wpc[w] = "parked" THEN "check" ELSE wpc[w]]
  /\ kickoff_event' = FALSE

otherThanWorkers ==
  <<configVars, queue_lock, execute_lock, thread_num, pc, localVars, itemVars>>

-------------------------------------------------------------------------------
(* cblas_worker_thread *)

\* platform_cond_wait: WaitForSingleObject on the event alone.
WinWait(w) ==
  /\ wpc[w] = "lock"
  /\ WGoto(w, IF kickoff_event THEN "check" ELSE "parked")
  /\ SameEvent /\ UNCHANGED <<work_queue, work_item, otherThanWorkers>>

\* The exit test, with no lock held.
WinCheck(w) ==
  /\ wpc[w] = "check"
  /\ WGoto(w, IF thread_num[w] > cblas_max_threads - 2 THEN "exited" ELSE "decide")
  /\ SameEvent /\ UNCHANGED <<work_queue, work_item, otherThanWorkers>>

\* Mutant: the head is read under the lock, but the queue is not moved on.
WinTakeKeepsHead(w) ==
  /\ wpc[w] = "decide"
  /\ IF work_queue = <<>>
     THEN WGoto(w, "lock") /\ UNCHANGED <<work_queue, work_item>>
     ELSE /\ work_item' = [work_item EXCEPT ![w] = Head(work_queue)]
          /\ WGoto(w, "begin")
          /\ UNCHANGED work_queue
  /\ SameEvent /\ UNCHANGED otherThanWorkers

\* Take the head of the queue, or go back to wait.
WinTake(w) ==
  /\ wpc[w] = "decide"
  /\ IF work_queue = <<>>
     THEN WGoto(w, "lock") /\ UNCHANGED <<work_queue, work_item>>
     ELSE /\ work_item' = [work_item EXCEPT ![w] = Head(work_queue)]
          /\ work_queue' = Tail(work_queue)
          /\ WGoto(w, "begin")
  /\ SameEvent /\ UNCHANGED otherThanWorkers

WinWorker(w) ==
  \/ WinWait(w) \/ WinCheck(w) \/ WinTake(w)
  \/ SameEvent /\ (WorkerBegin(w) \/ WorkerKernel(w) \/ WorkerFinish(w))

-------------------------------------------------------------------------------
(* cblas_execute *)

\* Mutant: the event lets only those through that sleep already.
WinAsyncPulse(c) ==
  /\ pc[c] = "broadcast"
  /\ PulseEvent
  /\ Goto(c, "first")
  /\ UNCHANGED <<configVars, work_queue, queue_lock, execute_lock, thread_num,
                 work_item, localVars, itemVars>>

\* cblas_execute_async signals the event after it has appended the items.
WinAsync(c) ==
  /\ pc[c] = "broadcast"
  /\ SetEvent
  /\ Goto(c, "first")
  /\ UNCHANGED <<configVars, work_queue, queue_lock, execute_lock, thread_num,
                 work_item, localVars, itemVars>>

\* Mutant: the join leaves the event signalled.
WinReturnSignalled(c) == ExecuteReturn(c) /\ SameEvent

\* cblas_execute_async_join ends with a reset of the event, unless somebody has
\* appended to the queue; then execute_lock is given back.
WinReturn(c) ==
  /\ ExecuteReturn(c)
  /\ IF items[c] > 1 /\ work_queue = <<>> THEN ResetEvent ELSE SameEvent

WinBlasStep(c) ==
  \/ WinAsync(c) \/ WinReturn(c)
  \/ /\ SameEvent
     /\ \/ Partition(c) \/ Execute(c) \/ ExecuteAsync(c) \/ BeginFirst(c)
        \/ RunFirst(c) \/ FinishFirst(c) \/ ExecuteJoin(c) \/ Reduce(c)

-------------------------------------------------------------------------------
(* Configuration calls *)

\* Failed creation: the handle is NULL and the loop goes on, the count as it was.
WinCreateFails(c) ==
  /\ \/ pc[c] = "init_create" /\ "init" \in CreateFails
     \/ pc[c] = "grow_create" /\ "grow" \in CreateFails
  /\ idx[c] < cblas_max_threads - 1
  /\ cblas_thread_ids' = [cblas_thread_ids EXCEPT ![idx[c]] = Null]
  /\ idx' = [idx EXCEPT ![c] = @ + 1]
  /\ SameEvent
  /\ UNCHANGED <<cblas_max_threads, cblas_server_alive, server_lock,
                 gemm_buffers_count, inited, queue_lock, workerVars, pc, threads,
                 thread_count, batchVars>>

\* The new count is stored without queue_lock, in cblas_set_num_threads and in
\* cblas_shutdown ...
NewCount(c) == IF pc[c] = "shrink_signal" THEN threads[c] ELSE 1

WinSignalCount(c) ==
  /\ pc[c] \in {"shrink_signal", "shut_signal"}
  /\ cblas_max_threads # NewCount(c)
  /\ cblas_max_threads' = NewCount(c)
  /\ SameEvent
  /\ UNCHANGED <<cblas_server_alive, cblas_thread_ids, server_lock,
                 gemm_buffers_count, inited, queue_lock, workerVars, pc, threads,
                 thread_count, idx, batchVars>>

\* Mutant: the event lets only those through that sleep already.
WinSignalPulse(c) ==
  /\ pc[c] \in {"shrink_signal", "shut_signal"}
  /\ cblas_max_threads = NewCount(c)
  /\ PulseEvent
  /\ idx' = [idx EXCEPT ![c] = NewCount(c) - 1]
  /\ Goto(c, IF pc[c] = "shrink_signal" THEN "shrink_join" ELSE "shut_join")
  /\ UNCHANGED <<configVars, queue_lock, thread_num, work_item, threads,
                 thread_count, batchVars>>

\* ... and the event is signalled after it.
WinSignal(c) ==
  /\ pc[c] \in {"shrink_signal", "shut_signal"}
  /\ cblas_max_threads = NewCount(c)
  /\ SetEvent
  /\ idx' = [idx EXCEPT ![c] = NewCount(c) - 1]
  /\ Goto(c, IF pc[c] = "shrink_signal" THEN "shrink_join" ELSE "shut_join")
  /\ UNCHANGED <<configVars, queue_lock, thread_num, work_item, threads,
                 thread_count, batchVars>>

\* The excess workers have gone: the event is reset (shrink) or closed.
WinJoined(c) == (ShrinkDone(c) \/ ShutJoined(c)) /\ ResetEvent

\* Unlike the POSIX server, growing does not extend the packing-buffer pool.
WinGrowLock(c) ==
  /\ pc[c] = "grow_lock"
  /\ server_lock = Null
  /\ server_lock' = c
  /\ idx' = [idx EXCEPT ![c] = GrowStart]
  /\ cblas_max_threads' = threads[c]
  /\ Goto(c, "grow_create")
  /\ SameEvent
  /\ UNCHANGED <<cblas_server_alive, cblas_thread_ids, gemm_buffers_count, inited,
                 queue_lock, workerVars, threads, thread_count, batchVars>>

WinConfigStep(c) ==
  \/ WinCreateFails(c) \/ WinSignalCount(c) \/ WinSignal(c) \/ WinJoined(c)
  \/ WinGrowLock(c)
  \/ /\ SameEvent
     /\ \/ InitThreads(c) \/ InitBuffers(c) \/ InitServer(c) \/ InitLock(c)
        \/ InitCreate(c) \/ InitAlive(c) \/ InitDone(c)
        \/ SetShrink(c) \/ ShrinkLock(c) \/ SetGrow(c) \/ GrowCreate(c)
        \/ GrowDone(c) \/ SetLate(c)
        \/ ShutDead(c) \/ ShutLock(c) \/ ShutClean(c) \/ JoinWorker(c)

-------------------------------------------------------------------------------
(* The specification *)

WinNext ==
  \/ \E w \in Handles : WinWorker(w)
  \/ \E c \in Callers :
       WinBlasStep(c) \/ WinConfigStep(c) \/ (SameEvent /\ NewCall(c))

\* As on POSIX, the scheduler runs every thread that stays able to step.
WinSpec ==
  /\ WinInit /\ [][WinNext]_winVars
  /\ \A w \in Handles : WF_winVars(WinWorker(w))
  /\ \A c \in Callers : WF_winVars(WinBlasStep(c) \/ WinConfigStep(c))

-------------------------------------------------------------------------------
(* Properties.  ImplementsBatch and ConfigCompletes are those of the POSIX *)
(* server, here of this specification.                                     *)

\* The event is signalled only while there is work or excess: once a batch has
\* returned and no configuration call is open, it is reset
\* (server_win32.c:428), and the workers sleep instead of spinning.
EventQuiet ==
  execute_lock = Null /\ NoConfigCall => ~kickoff_event

\* A batch ends unless no worker at all could be started: no set of the event is
\* lost between a worker's look at the queue and its wait
\* (server_win32.c:214), and the workers that exist do the work of those
\* whose creation failed (server_win32.c:128).
NoWorker == \A w \in Handles : wpc[w] = "none"

BatchCompletesByWorkers ==
  \A c \in Callers : execute_lock = c ~> (execute_lock # c \/ NoWorker)
===============================================================================
