---------------------------- MODULE WinServerProofs ----------------------------
(***************************************************************************)
(* Proofs about WinServer, for every number of threads and handles, every  *)
(* request and failed creation, and applications that keep none of the     *)
(* rules of use: it keeps the promise of the POSIX server, and its event   *)
(* is signalled only for a batch or for excess workers.                    *)
(*                                                                         *)
(* The invariants are those of the POSIX proofs.  Of the steps that are    *)
(* WinServer's own, the taking of an item and the return move items the    *)
(* way the POSIX ones do; the others leave every item where it is.         *)
(***************************************************************************)
EXTENDS WinServer, ThreadServerProofs

\* The steps the two servers share.
SharedWorker(w) == WorkerBegin(w) \/ WorkerKernel(w) \/ WorkerFinish(w)

SharedBlas(c) ==
  \/ Partition(c) \/ Execute(c) \/ ExecuteAsync(c) \/ BeginFirst(c) \/ RunFirst(c)
  \/ FinishFirst(c) \/ ExecuteJoin(c) \/ ExecuteReturn(c) \/ Reduce(c)

SharedConfig(c) ==
  \/ InitThreads(c) \/ InitBuffers(c) \/ InitServer(c) \/ InitLock(c) \/ InitCreate(c)
  \/ InitAlive(c) \/ InitDone(c)
  \/ SetShrink(c) \/ ShrinkLock(c) \/ ShrinkDone(c) \/ SetGrow(c) \/ GrowCreate(c)
  \/ GrowDone(c) \/ SetLate(c)
  \/ ShutDead(c) \/ ShutLock(c) \/ ShutJoined(c) \/ ShutClean(c) \/ JoinWorker(c)
  \/ NewCall(c)

\* Those of the Windows workers and callers alone.
OwnWorker(w) == WinWait(w) \/ WinCheck(w)
OwnCaller(c) ==
  WinAsync(c) \/ WinCreateFails(c) \/ WinSignalCount(c) \/ WinSignal(c) \/ WinGrowLock(c)

\* Every step is a shared one, one of its own, or takes an item.
LEMMA WinSteps ==
  ASSUME WinNext
  PROVE  \/ \E w \in Handles : SharedWorker(w) \/ OwnWorker(w) \/ WinTake(w)
         \/ \E c \in Callers : SharedBlas(c) \/ SharedConfig(c) \/ OwnCaller(c)
<1>1. ASSUME NEW w \in Handles, WinWorker(w)
      PROVE  SharedWorker(w) \/ OwnWorker(w) \/ WinTake(w)
  BY <1>1 DEF WinWorker, SharedWorker, OwnWorker
<1>2. ASSUME NEW c \in Callers, WinBlasStep(c)
      PROVE  SharedBlas(c) \/ OwnCaller(c)
  BY <1>2 DEF WinBlasStep, WinReturn, SharedBlas, OwnCaller
<1>3. ASSUME NEW c \in Callers, WinConfigStep(c) \/ (SameEvent /\ NewCall(c))
      PROVE  SharedConfig(c) \/ OwnCaller(c)
  BY <1>3 DEF WinConfigStep, WinJoined, SharedConfig, OwnCaller
<1>. QED
  BY <1>1, <1>2, <1>3 DEF WinNext

-------------------------------------------------------------------------------
(* Types *)

\* The worker's own steps: to wait, to look for excess, to take an item.
LEMMA OwnWorkerType ==
  ASSUME ITypeOK, NEW w \in Handles, OwnWorker(w) \/ WinTake(w)
  PROVE  ITypeOK'
<1>. USE DEF ITypeOK, TypeOK, ConfigTypeOK, WorkerTypeOK, CallerTypeOK, BatchTypeOK,
         LocalsSet, HandsFull, configVars, localVars, itemVars, otherThanWorkers
<1>1. CASE OwnWorker(w)
  <2>1. /\ \E l \in {"check", "parked", "exited", "decide"} : wpc' = [wpc EXCEPT ![w] = l]
        /\ UNCHANGED <<work_queue, work_item, otherThanWorkers>>
    BY <1>1 DEF OwnWorker, WinWait, WinCheck, WGoto
  <2>2. WorkerTypeOK' /\ HandsFull'
    BY <2>1 DEF WorkerPcs, QueuePcs, BusyPcs
  <2>3. ConfigTypeOK' /\ CallerTypeOK' /\ BatchTypeOK' /\ LocalsSet'
    BY <2>1
  <2>. QED
    BY <2>2, <2>3
<1>2. CASE WinTake(w)
  <2>0. UNCHANGED otherThanWorkers
    BY <1>2 DEF WinTake
  <2>1. CASE work_queue = <<>>
    BY <1>2, <2>0, <2>1 DEF WinTake, WGoto, WorkerPcs, BusyPcs
  <2>2. CASE work_queue # <<>>
    <3>1. Head(work_queue) \in Item /\ Tail(work_queue) \in Seq(Item)
      BY <2>2, HeadTailProperties
    <3>2. /\ work_item' = [work_item EXCEPT ![w] = Head(work_queue)]
          /\ work_queue' = Tail(work_queue)
          /\ wpc' = [wpc EXCEPT ![w] = "begin"]
      BY <1>2, <2>2 DEF WinTake, WGoto
    <3>3. WorkerTypeOK' /\ HandsFull'
      BY <2>0, <3>1, <3>2 DEF WorkerPcs, BusyPcs
    <3>4. ConfigTypeOK' /\ CallerTypeOK' /\ BatchTypeOK' /\ LocalsSet'
      BY <2>0, <3>1, <3>2
    <3>. QED
      BY <3>3, <3>4
  <2>. QED
    BY <2>1, <2>2
<1>. QED
  BY <1>1, <1>2

\* SetEvent moves sleepers to the exit test.
LEMMA SetEventType ==
  ASSUME ITypeOK, SetEvent, UNCHANGED <<thread_num, work_item>>
  PROVE  WorkerTypeOK' /\ HandsFull'
BY DEF ITypeOK, TypeOK, WorkerTypeOK, HandsFull, SetEvent, WorkerPcs, QueuePcs, BusyPcs

\* The counts a caller stores and the worker numbers it goes on from.
LEMMA NewCountType ==
  ASSUME ITypeOK, NEW c \in Callers, pc[c] \in {"shrink_signal", "shut_signal"}
  PROVE  NewCount(c) \in 1..MAX_THREADS /\ NewCount(c) - 1 \in 0..(MaxTasks + 1)
<1>1. pc[c] = "shrink_signal" => threads[c] >= 1
  BY DEF ITypeOK, LocalsSet, SetPcs
<1>2. threads[c] \in 0..MAX_THREADS
  BY DEF ITypeOK, TypeOK, CallerTypeOK
<1>3. NewCount(c) \in 1..MAX_THREADS
  BY <1>1, <1>2, BoundsAssumption DEF NewCount
<1>. QED
  BY <1>3, BoundsAssumption

\* The caller's own steps.
LEMMA OwnCallerType ==
  ASSUME ITypeOK, NEW c \in Callers, OwnCaller(c)
  PROVE  ITypeOK'
<1>. USE DEF configVars, localVars, itemVars, workerVars, batchVars
<1>0. ConfigTypeOK /\ WorkerTypeOK /\ CallerTypeOK /\ BatchTypeOK /\ LocalsSet /\ HandsFull
  BY DEF ITypeOK, TypeOK
<1>1. CASE WinAsync(c)
  <2>1. /\ pc' = [pc EXCEPT ![c] = "first"] /\ SetEvent
        /\ UNCHANGED <<configVars, work_queue, queue_lock, execute_lock, thread_num,
                       work_item, localVars, itemVars>>
    BY <1>1 DEF WinAsync, Goto
  <2>2. WorkerTypeOK' /\ HandsFull'
    BY <2>1, SetEventType
  <2>3. CallerTypeOK' /\ LocalsSet'
    BY <1>0, <2>1 DEF CallerTypeOK, LocalsSet, BlasPcs, SetPcs
  <2>4. ConfigTypeOK' /\ BatchTypeOK'
    BY <1>0, <2>1 DEF ConfigTypeOK, BatchTypeOK
  <2>. QED
    BY <2>2, <2>3, <2>4 DEF ITypeOK, TypeOK
<1>2. CASE WinCreateFails(c)
  <2>1. /\ cblas_thread_ids' = [cblas_thread_ids EXCEPT ![idx[c]] = Null]
        /\ idx' = [idx EXCEPT ![c] = idx[c] + 1]
        /\ idx[c] < cblas_max_threads - 1
        /\ UNCHANGED <<cblas_max_threads, cblas_server_alive, server_lock,
                       gemm_buffers_count, inited, queue_lock, workerVars, pc, threads,
                       thread_count, batchVars>>
    BY <1>2 DEF WinCreateFails
  <2>2. idx[c] \in 0..(MaxTasks + 1) /\ cblas_max_threads \in 0..MAX_THREADS
    BY <1>0 DEF ConfigTypeOK, CallerTypeOK
  <2>3. idx[c] \in WorkerNums /\ idx[c] + 1 \in 0..(MaxTasks + 1)
    BY <2>1, <2>2, LoopBounds
  <2>4. ConfigTypeOK' /\ CallerTypeOK'
    BY <1>0, <2>1, <2>3 DEF ConfigTypeOK, CallerTypeOK
  <2>5. WorkerTypeOK' /\ BatchTypeOK' /\ LocalsSet' /\ HandsFull'
    BY <1>0, <2>1 DEF WorkerTypeOK, BatchTypeOK, LocalsSet, HandsFull
  <2>. QED
    BY <2>4, <2>5 DEF ITypeOK, TypeOK
<1>3. CASE WinSignalCount(c)
  <2>1. NewCount(c) \in 1..MAX_THREADS
    BY <1>3, NewCountType DEF WinSignalCount
  <2>2. ConfigTypeOK'
    BY <1>0, <1>3, <2>1 DEF WinSignalCount, ConfigTypeOK
  <2>3. WorkerTypeOK' /\ CallerTypeOK' /\ BatchTypeOK' /\ LocalsSet' /\ HandsFull'
    BY <1>0, <1>3
    DEF WinSignalCount, WorkerTypeOK, CallerTypeOK, BatchTypeOK, LocalsSet, HandsFull
  <2>. QED
    BY <2>2, <2>3 DEF ITypeOK, TypeOK
<1>4. CASE WinSignal(c)
  <2>1. /\ \E l \in {"shrink_join", "shut_join"} : pc' = [pc EXCEPT ![c] = l]
        /\ pc[c] = "shrink_signal" \/ pc'[c] = "shut_join"
        /\ pc[c] \in {"shrink_signal", "shut_signal"}
        /\ SetEvent
        /\ idx' = [idx EXCEPT ![c] = NewCount(c) - 1]
        /\ UNCHANGED <<configVars, queue_lock, thread_num, work_item, threads,
                       thread_count, batchVars>>
    BY <1>0, <1>4 DEF WinSignal, Goto, CallerTypeOK
  <2>2. WorkerTypeOK' /\ HandsFull'
    BY <2>1, SetEventType
  <2>3. NewCount(c) - 1 \in 0..(MaxTasks + 1)
    BY <2>1, NewCountType
  <2>4. CallerTypeOK'
    BY <1>0, <2>1, <2>3 DEF CallerTypeOK, ConfigPcs, SetPcs, ShutdownPcs
  <2>5. LocalsSet'
    <3>1. \A d \in Callers : d # c => pc'[d] = pc[d]
      BY <1>0, <2>1 DEF CallerTypeOK
    <3>2. pc'[c] \in {"shrink_join", "shut_join"}
      BY <1>0, <2>1 DEF CallerTypeOK
    <3>. QED
      BY <1>0, <2>1, <3>1, <3>2 DEF LocalsSet, SetPcs
  <2>6. ConfigTypeOK' /\ BatchTypeOK'
    BY <1>0, <2>1 DEF ConfigTypeOK, BatchTypeOK
  <2>. QED
    BY <2>2, <2>4, <2>5, <2>6 DEF ITypeOK, TypeOK
<1>5. CASE WinGrowLock(c)
  <2>1. /\ pc[c] = "grow_lock" /\ server_lock' = c
        /\ idx' = [idx EXCEPT ![c] = GrowStart]
        /\ cblas_max_threads' = threads[c]
        /\ pc' = [pc EXCEPT ![c] = "grow_create"]
        /\ UNCHANGED <<cblas_server_alive, cblas_thread_ids, gemm_buffers_count, inited,
                       queue_lock, workerVars, threads, thread_count, batchVars>>
    BY <1>5 DEF WinGrowLock, Goto
  <2>2. threads[c] \in 1..MAX_THREADS
    BY <1>0, <2>1, BoundsAssumption DEF LocalsSet, CallerTypeOK, SetPcs
  <2>3. GrowStart \in 0..(MaxTasks + 1)
    BY <1>0, BoundsAssumption DEF GrowStart, ConfigTypeOK
  <2>4. ConfigTypeOK'
    BY <1>0, <2>1, <2>2 DEF ConfigTypeOK
  <2>5. CallerTypeOK' /\ LocalsSet'
    BY <1>0, <2>1, <2>3 DEF CallerTypeOK, LocalsSet, ConfigPcs, SetPcs
  <2>6. WorkerTypeOK' /\ BatchTypeOK' /\ HandsFull'
    BY <1>0, <2>1 DEF WorkerTypeOK, BatchTypeOK, HandsFull
  <2>. QED
    BY <2>4, <2>5, <2>6 DEF ITypeOK, TypeOK
<1>. QED
  BY <1>1, <1>2, <1>3, <1>4, <1>5 DEF OwnCaller

\* Every step of the Windows server preserves the type invariant of the POSIX one.
LEMMA WinTypeStep ==
  ASSUME ITypeOK, [WinNext]_winVars
  PROVE  ITypeOK'
<1>1. ASSUME NEW w \in Handles, SharedWorker(w)
      PROVE  ITypeOK'
  BY <1>1, TypeWorker DEF SharedWorker, Worker
<1>2. ASSUME NEW c \in Callers, SharedBlas(c)
      PROVE  ITypeOK'
  BY <1>2, TypeBlas DEF SharedBlas, BlasStep
<1>3. ASSUME NEW c \in Callers, SharedConfig(c)
      PROVE  ITypeOK'
  BY <1>3, TypeInitCall, TypeSet, TypeShutdown, TypeJoin, TypeNewCall
  DEF SharedConfig, InitStep, SetStep, ShutStep
<1>4. CASE UNCHANGED winVars
  <2>1. [Next]_vars
    BY <1>4 DEF winVars
  <2>. QED
    BY <2>1, TypeStep
<1>. QED
  BY <1>1, <1>2, <1>3, <1>4, WinSteps, OwnWorkerType, OwnCallerType

-------------------------------------------------------------------------------
(* Batches *)

\* To wait, to look for excess and to find the queue empty moves no item.
LEMMA OwnWorkerQuiet ==
  ASSUME ITypeOK, NEW w \in Handles, OwnWorker(w) \/ WinTake(w)
  PROVE  Quiet \/ TakesHead(w)
<1>. USE DEF otherThanWorkers, configVars, localVars, itemVars
<1>1. CASE OwnWorker(w) \/ work_queue = <<>>
  <2>1. /\ wpc[w] \in {"lock", "check", "decide"}
        /\ \E l \in {"check", "parked", "exited", "decide", "lock"} :
             wpc' = [wpc EXCEPT ![w] = l]
        /\ UNCHANGED <<work_queue, work_item, otherThanWorkers>>
    BY <1>1 DEF OwnWorker, WinWait, WinCheck, WinTake, WGoto
  <2>. QED
    BY <2>1 DEF ITypeOK, TypeOK, WorkerTypeOK, Quiet, Busy, BusyPcs
<1>2. CASE WinTake(w) /\ work_queue # <<>>
  BY <1>2 DEF WinTake, TakesHead
<1>. QED
  BY <1>1, <1>2

\* Events, counts and failed creations move no item.
LEMMA OwnCallerQuiet ==
  ASSUME ITypeOK, NEW c \in Callers, OwnCaller(c)
  PROVE  Quiet
<1>. USE DEF Quiet, Busy, BusyPcs, configVars, localVars, itemVars, workerVars, batchVars,
         ITypeOK, TypeOK, WorkerTypeOK, CallerTypeOK, BatchTypeOK, Goto, InExecute
<1>1. CASE WinAsync(c)
  BY <1>1 DEF WinAsync, SetEvent
<1>2. CASE WinCreateFails(c)
  BY <1>2 DEF WinCreateFails
<1>3. CASE WinSignalCount(c)
  BY <1>3 DEF WinSignalCount
<1>4. CASE WinSignal(c)
  BY <1>4 DEF WinSignal, SetEvent
<1>5. CASE WinGrowLock(c)
  BY <1>5 DEF WinGrowLock
<1>. QED
  BY <1>1, <1>2, <1>3, <1>4, <1>5 DEF OwnCaller

\* A step of the Windows server leaves the items alone or moves one the way the
\* POSIX server does.
LEMMA WinQuietOrMoving ==
  ASSUME ITypeOK, [WinNext]_winVars
  PROVE  \/ Quiet
         \/ \E w \in Handles : Moving(w)
         \/ \E c \in Callers : MovingCall(c)
<1>1. ASSUME NEW w \in Handles, SharedWorker(w)
      PROVE  Quiet \/ Moving(w)
  BY <1>1, QuietWorker DEF SharedWorker, Moving
<1>2. ASSUME NEW w \in Handles, OwnWorker(w) \/ WinTake(w)
      PROVE  Quiet \/ Moving(w)
  BY <1>2, OwnWorkerQuiet DEF Moving
<1>3. ASSUME NEW c \in Callers, SharedBlas(c)
      PROVE  Quiet \/ MovingCall(c)
  BY <1>3, QuietBlas DEF SharedBlas, MovingCall
<1>4. ASSUME NEW c \in Callers, SharedConfig(c)
      PROVE  Quiet
  BY <1>4, QuietConfig DEF SharedConfig, InitStep, SetStep, ShutStep
<1>5. ASSUME NEW c \in Callers, OwnCaller(c)
      PROVE  Quiet
  BY <1>5, OwnCallerQuiet
<1>6. CASE UNCHANGED winVars
  BY <1>6 DEF Quiet, Busy, winVars, vars, workerVars, localVars, itemVars
<1>. QED
  BY <1>1, <1>2, <1>3, <1>4, <1>5, <1>6, WinSteps

\* The invariant of the batches.
LEMMA WinBatchStep ==
  ASSUME ITypeOK, BatchInv, [WinNext]_winVars
  PROVE  BatchInv'
<1>1. CASE Quiet
  BY <1>1, QuietPreserves
<1>2. ASSUME NEW w \in Handles, Moving(w)
      PROVE  BatchInv'
  BY <1>2, TakePreserves, KernelPreserves, FinishPreserves DEF Moving
<1>3. ASSUME NEW c \in Callers, MovingCall(c)
      PROVE  BatchInv'
  BY <1>3, ExecutePreserves, AsyncPreserves, RunFirstPreserves, FinishFirstPreserves,
     JoinPreserves, ReturnPreserves DEF MovingCall
<1>. QED
  BY <1>1, <1>2, <1>3, WinQuietOrMoving

\* Types and batches of the Windows server.
LEMMA WinInvariant == WinSpec => [](ITypeOK /\ BatchInv)
<1>1. WinInit => ITypeOK /\ BatchInv
  BY TypeInit, BatchInit DEF WinInit
<1>2. ITypeOK /\ BatchInv /\ [WinNext]_winVars => (ITypeOK /\ BatchInv)'
  BY WinTypeStep, WinBatchStep
<1>. QED
  BY <1>1, <1>2, PTL DEF WinSpec

\* The Windows server keeps the promise of the POSIX one: one batch at a time,
\* each of its tasks run exactly once, the return only after all of them, though
\* its workers look at the excess with no lock held, the count changes under none
\* and an excess worker may still take an item (server_win32.c:218).
THEOREM WinRefinement == WinSpec => ImplementsBatch
<1>1. WinInit => Batch!Init
  BY RefinementInit DEF WinInit
<1>2. ITypeOK /\ BatchInv /\ [WinNext]_winVars => [Batch!Next]_(Batch!vars)
  BY WinQuietOrMoving, QuietRefines, WorkerRefines, CallerRefines
<1>. QED
  BY <1>1, <1>2, WinInvariant, PTL DEF WinSpec, ImplementsBatch, Batch!Spec

-------------------------------------------------------------------------------
(* The event *)

\* A caller for which the event is signalled: it joins a batch with items in the
\* queue, or excess workers.
Signals(c) ==
  \/ pc[c] \in {"first", "kernel", "finish", "join", "unlock"} /\ items[c] > 1
  \/ pc[c] \in {"shrink_join", "shut_join"}

EventInv ==
  /\ kickoff_event \in BOOLEAN
  /\ \A c \in Callers : pc[c] = "broadcast" => items[c] > 1
  /\ kickoff_event => \E c \in Callers : Signals(c)

\* A caller's step leaves the others where they are, in their batches.
LEMMA OthersStay ==
  ASSUME ITypeOK, NEW c \in Callers, WinBlasStep(c) \/ WinConfigStep(c) \/ NewCall(c)
  PROVE  \A d \in Callers \ {c} : pc'[d] = pc[d] /\ items'[d] = items[d]
<1>. USE DEF ITypeOK, TypeOK, CallerTypeOK, BatchTypeOK, batchVars, localVars, Goto
<1>1. CASE Partition(c)
  <2>1. \E k \in Int : items' = [items EXCEPT ![c] = k]
    <3>1. PICK r \in BOOLEAN : \E k \in TaskCounts(r) : items' = [items EXCEPT ![c] = k]
      BY <1>1, Zenon DEF Partition
    <3>2. TaskCounts(r) \subseteq Int
      BY BoundsAssumption DEF TaskCounts, ConfigTypeOK
    <3>. QED
      BY <3>1, <3>2
  <2>. QED
    BY <1>1, <2>1 DEF Partition
<1>2. CASE WinBlasStep(c) /\ ~Partition(c)
  BY <1>2 DEF WinBlasStep, WinAsync, WinReturn, Execute, ExecuteAsync, BeginFirst,
              RunFirst, FinishFirst, ExecuteJoin, ExecuteReturn, Reduce
<1>3. CASE WinConfigStep(c)
  BY <1>3
  DEF WinConfigStep, WinCreateFails, WinSignalCount, WinSignal, WinJoined, WinGrowLock,
      InitThreads, InitBuffers, InitServer, InitLock, InitCreate, InitAlive, InitDone,
      SetShrink, ShrinkLock, ShrinkDone, SetGrow, GrowCreate, GrowDone, SetLate,
      ShutDead, ShutLock, ShutJoined, ShutClean, JoinWorker
<1>4. CASE NewCall(c)
  BY <1>4 DEF NewCall, CallBlas, CallInit, CallSetNumThreads, CallShutdown
<1>. QED
  BY <1>1, <1>2, <1>3, <1>4

\* A step that leaves the event as it is leaves a caller it is signalled for to
\* be such a caller, until the caller resets it.
Steady(c) ==
  /\ SameEvent
  /\ Signals(c) => Signals(c)'
  /\ pc'[c] = "broadcast" => items'[c] > 1

\* The steps of a batch, but for the signal and the return.
LEMMA BlasSteady ==
  ASSUME ITypeOK, EventInv, NEW c \in Callers,
         WinBlasStep(c), ~WinAsync(c), ~WinReturn(c)
  PROVE  Steady(c)
<1>. USE DEF ITypeOK, TypeOK, CallerTypeOK, BatchTypeOK, localVars, Goto, Steady, Signals
<1>0. SameEvent
  BY DEF WinBlasStep
<1>1. CASE Partition(c)
  BY <1>0, <1>1 DEF Partition
<1>2. CASE Execute(c)
  <2>1. pc'[c] \in {"async", "first"} /\ pc[c] = "execute"
    BY <1>2 DEF Execute
  <2>. QED
    BY <1>0, <2>1
<1>3. CASE ExecuteAsync(c)
  BY <1>0, <1>3 DEF ExecuteAsync, LocalsSet
<1>4. CASE BeginFirst(c) \/ RunFirst(c)
  BY <1>0, <1>4 DEF BeginFirst, RunFirst
<1>5. CASE FinishFirst(c)
  BY <1>0, <1>5 DEF FinishFirst
<1>6. CASE ExecuteJoin(c)
  <2>1. pc'[c] \in {"join", "unlock"} /\ pc[c] = "join" /\ items'[c] = items[c]
    BY <1>6 DEF ExecuteJoin
  <2>. QED
    BY <1>0, <2>1
<1>7. CASE Reduce(c)
  BY <1>0, <1>7 DEF Reduce
<1>. QED
  BY <1>1, <1>2, <1>3, <1>4, <1>5, <1>6, <1>7 DEF WinBlasStep

\* The steps of a configuration call, but for the signal and the end of the
\* join, and the start of any call.
LEMMA ConfigSteady ==
  ASSUME ITypeOK, EventInv, NEW c \in Callers,
         \/ WinConfigStep(c) /\ ~WinSignal(c) /\ ~WinJoined(c)
         \/ SameEvent /\ NewCall(c)
  PROVE  Steady(c)
<1>0. /\ SameEvent
      /\ pc \in [Callers -> {"idle"} \cup BlasPcs \cup ConfigPcs]
      /\ UNCHANGED items
  BY DEF ITypeOK, TypeOK, CallerTypeOK, localVars, batchVars,
         WinConfigStep, WinCreateFails, WinSignalCount, WinGrowLock,
         InitThreads, InitBuffers, InitServer, InitLock, InitCreate, InitAlive, InitDone,
         SetShrink, ShrinkLock, ShrinkDone, SetGrow, GrowCreate, GrowDone, SetLate,
         ShutDead, ShutLock, ShutJoined, ShutClean, JoinWorker,
         NewCall, CallBlas, CallInit, CallSetNumThreads, CallShutdown
<1>1. CASE JoinWorker(c) \/ WinCreateFails(c) \/ WinSignalCount(c) \/ InitCreate(c)
           \/ GrowCreate(c)
  <2>1. UNCHANGED pc
    BY <1>1 DEF JoinWorker, WinCreateFails, WinSignalCount, InitCreate, GrowCreate
  <2>2. (Signals(c) => Signals(c)') /\ (pc'[c] = "broadcast" => items'[c] > 1)
    BY <1>0, <2>1 DEF Signals, EventInv
  <2>. QED
    BY <1>0, <2>2 DEF Steady
<1>2. CASE ~(JoinWorker(c) \/ WinCreateFails(c) \/ WinSignalCount(c) \/ InitCreate(c)
             \/ GrowCreate(c))
  <2>1. /\ pc[c] \notin {"first", "kernel", "finish", "join", "unlock",
                         "shrink_join", "shut_join"}
        /\ pc'[c] # "broadcast"
    BY <1>0, <1>2
    DEF WinConfigStep, WinGrowLock, InitThreads, InitBuffers, InitServer, InitLock,
        InitAlive, InitDone, SetShrink, ShrinkLock, SetGrow, GrowDone, SetLate,
        ShutDead, ShutLock, ShutClean,
        NewCall, CallBlas, CallInit, CallSetNumThreads, CallShutdown, Goto
  <2>. QED
    BY <1>0, <2>1 DEF Steady, Signals
<1>. QED
  BY <1>1, <1>2

\* The return resets the event if the batch had signalled it: the queue is empty
\* by then, since the return waits for every item.
LEMMA ReturnResets ==
  ASSUME ITypeOK, BatchInv, NEW c \in Callers, WinReturn(c)
  PROVE  \/ kickoff_event' = FALSE
         \/ SameEvent /\ ~Signals(c)
<1>1. pc[c] = "unlock" /\ execute_lock = c
  BY DEF WinReturn, ExecuteReturn, BatchInv, LockHeld, InExecute
<1>2. work_queue \in Seq(Item)
  BY DEF ITypeOK, TypeOK, BatchTypeOK
<1>3. work_queue = <<>>
  <2>1. CASE work_queue # <<>>
    <3>1. work_queue[1] \in Item /\ InQueue(work_queue[1])
      BY <1>2, <2>1 DEF InQueue
    <3>2. Submitted(c)
      BY <1>1, <3>1 DEF BatchInv, NoDanglingItem
    <3>. QED
      BY <1>1, <3>2 DEF Submitted
  <2>. QED
    BY <2>1
<1>4. CASE items[c] > 1
  BY <1>3, <1>4 DEF WinReturn, ResetEvent
<1>5. CASE ~(items[c] > 1)
  BY <1>1, <1>5 DEF WinReturn, Signals
<1>. QED
  BY <1>4, <1>5

\* Every step keeps a reason for the signal, or takes the signal back.
LEMMA EventStep ==
  ASSUME ITypeOK, BatchInv, EventInv, [WinNext]_winVars
  PROVE  EventInv'
<1>1. ASSUME NEW c \in Callers,
             WinBlasStep(c) \/ WinConfigStep(c) \/ (SameEvent /\ NewCall(c))
      PROVE  EventInv'
  <2>1. \A d \in Callers \ {c} : pc'[d] = pc[d] /\ items'[d] = items[d]
    BY <1>1, OthersStay
  <2>2. \A d \in Callers \ {c} :
          /\ Signals(d)' <=> Signals(d)
          /\ pc'[d] = "broadcast" => items'[d] > 1
    BY <2>1 DEF Signals, EventInv
  <2>3. CASE Steady(c)
    BY <2>2, <2>3 DEF EventInv, Steady, SameEvent
  <2>4. CASE WinAsync(c) \/ WinSignal(c)
    <3>1. kickoff_event' = TRUE /\ pc'[c] # "broadcast" /\ Signals(c)'
      BY <2>4 DEF ITypeOK, TypeOK, CallerTypeOK, WinAsync, WinSignal, SetEvent, Goto,
                  Signals, EventInv, localVars, batchVars
    <3>. QED
      BY <2>2, <3>1 DEF EventInv
  <2>5. CASE WinReturn(c) \/ WinJoined(c)
    <3>1. \/ kickoff_event' = FALSE
          \/ SameEvent /\ ~Signals(c)
      BY <2>5, ReturnResets DEF WinJoined, ResetEvent
    <3>2. pc'[c] # "broadcast"
      BY <2>5 DEF ITypeOK, TypeOK, CallerTypeOK, WinReturn, ExecuteReturn, WinJoined,
                  ShrinkDone, ShutJoined, Goto
    <3>3. kickoff_event' => kickoff_event /\ ~Signals(c)
      BY <3>1 DEF SameEvent
    <3>4. kickoff_event' => \E d \in Callers : Signals(d)'
      BY <2>2, <3>3 DEF EventInv
    <3>5. kickoff_event' \in BOOLEAN
      BY <3>1 DEF EventInv, SameEvent
    <3>. QED
      BY <2>2, <3>2, <3>4, <3>5 DEF EventInv
  <2>. QED
    BY <1>1, <2>3, <2>4, <2>5, BlasSteady, ConfigSteady
<1>2. ASSUME NEW w \in Handles, WinWorker(w)
      PROVE  EventInv'
  <2>1. UNCHANGED <<kickoff_event, pc, items>>
    BY <1>2 DEF WinWorker, WinWait, WinCheck, WinTake, SameEvent, otherThanWorkers,
                WorkerBegin, WorkerKernel, WorkerFinish, localVars
  <2>. QED
    BY <2>1 DEF EventInv, Signals
<1>3. CASE UNCHANGED winVars
  BY <1>3 DEF EventInv, Signals, winVars, vars, localVars
<1>. QED
  BY <1>1, <1>2, <1>3 DEF WinNext

\* The event is signalled only while a batch or a join of excess workers is in
\* progress, for any number of callers and workers and applications that keep no
\* rule: whatever the order of returns, shrinks and shutdowns, the last of those
\* it was signalled for resets it (server_win32.c:428), so that idle workers
\* sleep.
THEOREM EventStaysQuiet == WinSpec => []EventQuiet
<1>1. WinInit => EventInv
  BY DEF WinInit, Init, EventInv
<1>2. ITypeOK /\ BatchInv /\ EventInv /\ [WinNext]_winVars => EventInv'
  BY EventStep
<1>3. BatchInv /\ EventInv => EventQuiet
  <2>. SUFFICES ASSUME BatchInv, EventInv, execute_lock = Null, NoConfigCall, kickoff_event
                PROVE  FALSE
    BY DEF EventQuiet
  <2>1. PICK c \in Callers : Signals(c)
    BY DEF EventInv
  <2>2. CASE pc[c] \in {"shrink_join", "shut_join"}
    BY <2>2 DEF NoConfigCall, ConfigPcs, SetPcs, ShutdownPcs
  <2>3. CASE pc[c] \in InExecute
    <3>1. execute_lock = c
      BY <2>3 DEF BatchInv, LockHeld
    <3>. QED
      BY <3>1, ThreadsAssumption
  <2>. QED
    BY <2>1, <2>2, <2>3 DEF Signals, InExecute
<1>. QED
  BY <1>1, <1>2, <1>3, WinInvariant, PTL DEF WinSpec
===============================================================================
