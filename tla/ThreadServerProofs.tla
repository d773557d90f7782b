-------------------------- MODULE ThreadServerProofs --------------------------
(***************************************************************************)
(* The theorems about ThreadServer, for every set of application threads   *)
(* and of handles, every MAX_THREADS, batch size and request, in three     *)
(* parts: type correctness; that it implements BatchExecution; and, under  *)
(* the rules of use, which workers exist and which buffer slots they use.  *)
(***************************************************************************)
EXTENDS ThreadServer, SequenceTheorems, TLAPS

-------------------------------------------------------------------------------
(* Part 1.  Type correctness. *)

\* TypeOK is not inductive: cblas_max_threads takes its value from the local
\* threads of a caller, only a batch of several items is queued, and a finished
\* item is one a worker has in hand.
LocalsSet ==
  \A c \in Callers :
    /\ pc[c] \in SetPcs \cup {"init_threads"} => threads[c] >= 1
    /\ pc[c] = "async" => items[c] > 1

HandsFull ==
  \A w \in Handles : wpc[w] \in BusyPcs => work_item[w] \in Item

ITypeOK == TypeOK /\ LocalsSet /\ HandsFull

-------------------------------------------------------------------------------
\* A requested count is brought into the range of the thread count.
LEMMA ClampRange ==
  ASSUME NEW n \in Requests
  PROVE  /\ ClampThreads(n) \in 1..MAX_THREADS
         /\ Least(ClampThreads(n), Cores) \in 1..MAX_THREADS
BY BoundsAssumption DEF ClampThreads, Least, Most

\* The items a caller queues are items.
LEMMA QueuedItemsType ==
  ASSUME TypeOK, NEW c \in Callers, items[c] >= 1
  PROVE  /\ QueuedItems(c) \in Seq(Item)
         /\ Len(QueuedItems(c)) = items[c] - 1
         /\ \A j \in 1..(items[c] - 1) : QueuedItems(c)[j] = <<c, j + 1>>
<1>1. items[c] \in Nat /\ items[c] - 1 \in Nat /\ items[c] <= MaxTasks
  BY BoundsAssumption DEF TypeOK, BatchTypeOK
<1>2. \A j \in 1..(items[c] - 1) : j + 1 \in 1..MaxTasks
  BY <1>1, BoundsAssumption
<1>3. \A j \in 1..(items[c] - 1) : <<c, j + 1>> \in Item
  BY <1>2 DEF Item
<1>. QED
  BY <1>1, <1>3 DEF QueuedItems

LEMMA TypeInit == Init => ITypeOK
<1>. SUFFICES ASSUME Init PROVE ITypeOK
  OBVIOUS
<1>. USE DEF Init
<1>1. ConfigTypeOK
  <2>1. MAX_THREADS \in 1..MAX_THREADS /\ 0 \in 0..MAX_THREADS
    BY BoundsAssumption
  <2>. QED
    BY <2>1 DEF ConfigTypeOK
<1>2. WorkerTypeOK
  BY DEF WorkerTypeOK, WorkerPcs
<1>3. CallerTypeOK
  BY BoundsAssumption DEF CallerTypeOK
<1>4. BatchTypeOK
  BY BoundsAssumption DEF BatchTypeOK
<1>5. LocalsSet
  BY DEF LocalsSet, SetPcs
<1>6. HandsFull
  BY DEF HandsFull, BusyPcs
<1>. QED
  BY <1>1, <1>2, <1>3, <1>4, <1>5, <1>6 DEF ITypeOK, TypeOK

\* The indices of the loops over workers, and the slot of the calling thread.
LEMMA LoopBounds ==
  ASSUME NEW i \in 0..(MaxTasks + 1), NEW n \in 0..MAX_THREADS, i < n - 1
  PROVE  /\ i \in WorkerNums
         /\ i + 1 \in 1..MAX_THREADS
         /\ i + 1 \in 0..(MaxTasks + 1)
BY BoundsAssumption DEF WorkerNums

LEMMA CallerSlotType ==
  ASSUME cblas_max_threads \in 1..MAX_THREADS
  PROVE  CallerSlot \in Slots
BY BoundsAssumption DEF CallerSlot, Slots

LEMMA Successors ==
  /\ \A i \in 1..MaxTasks : i + 1 \in 0..(MaxTasks + 1)
  /\ \A n \in Nat : n + 1 \in Nat
BY BoundsAssumption

\* The calling thread's own item.
LEMMA FirstItem == \A c \in Callers : <<c, 1>> \in Item
<1>1. 1 \in 1..MaxTasks
  BY BoundsAssumption
<1>. QED
  BY <1>1 DEF Item

\* Creating worker i keeps handles, numbers and hands well typed.
LEMMA CreateThreadType ==
  ASSUME TypeOK, HandsFull, NEW i \in WorkerNums, CreateThread(i)
  PROVE  /\ cblas_thread_ids' \in [WorkerNums -> Handles \cup {Null, Junk}]
         /\ WorkerTypeOK'
         /\ HandsFull'
BY DEF CreateThread, TypeOK, ConfigTypeOK, WorkerTypeOK, HandsFull, WGoto,
       WorkerPcs, BusyPcs

\* A worker's step.
LEMMA TypeWorker ==
  ASSUME ITypeOK, NEW w \in Handles, Worker(w) \/ WorkerSpurious(w)
  PROVE  ITypeOK'
<1>. USE BoundsAssumption DEF ITypeOK, TypeOK, ConfigTypeOK, WorkerTypeOK, CallerTypeOK, BatchTypeOK,
         LocalsSet, HandsFull, configVars, localVars, itemVars, workerVars, batchVars
<1>1. CASE WorkerLock(w)
  BY <1>1
  DEF WorkerLock, WGoto, WorkerPcs, BusyPcs, QueuePcs
<1>2. CASE WorkerCheck(w)
  BY <1>2
  DEF WorkerCheck, WGoto, WorkerPcs, BusyPcs, QueuePcs
<1>3. CASE WorkerPark(w)
  BY <1>3
  DEF WorkerPark, WGoto, WorkerPcs, BusyPcs, QueuePcs
<1>4. CASE WorkerSpurious(w)
  BY <1>4
  DEF WorkerSpurious, WGoto, WorkerPcs, BusyPcs, QueuePcs
<1>5. CASE WorkerExit(w)
  BY <1>5
  DEF WorkerExit, WGoto, WorkerPcs, BusyPcs, QueuePcs
<1>6. CASE WorkerTake(w)
  <2>. USE <1>6 DEF WorkerTake
  <2>1. BatchTypeOK'
    <3>1. Tail(work_queue) \in Seq(Item)
      BY HeadTailProperties
    <3>. QED
      BY <3>1
  <2>2. WorkerTypeOK' /\ HandsFull'
    <3>1. Head(work_queue) \in Item
      BY HeadTailProperties
    <3>. QED
      BY <3>1 DEF WGoto, WorkerPcs, BusyPcs
  <2>3. ConfigTypeOK' /\ CallerTypeOK' /\ LocalsSet'
    OBVIOUS
  <2>. QED
    BY <2>1, <2>2, <2>3
<1>7. CASE WorkerRetry(w)
  BY <1>7
  DEF WorkerRetry, WGoto, WorkerPcs, BusyPcs, QueuePcs
<1>8. CASE WorkerBegin(w)
  <2>. USE <1>8 DEF WorkerBegin
  <2>1. BatchTypeOK'
    <3>1. thread_num[w] \in Slots
      BY DEF WorkerNums, Slots
    <3>2. thread_id' \in [Item -> Slots \cup {NoSlot}]
      BY <3>1
    <3>. QED
      BY <3>2
  <2>2. ConfigTypeOK' /\ WorkerTypeOK' /\ CallerTypeOK' /\ LocalsSet' /\ HandsFull'
    BY DEF WGoto, WorkerPcs, BusyPcs, QueuePcs
  <2>. QED
    BY <2>1, <2>2
<1>9. CASE WorkerKernel(w)
  <2>. USE <1>9 DEF WorkerKernel
  <2>1. BatchTypeOK'
    <3>1. work_item[w] \in Item
      BY DEF BusyPcs
    <3>2. runs' \in [Item -> Nat]
      BY <3>1
    <3>. QED
      BY <3>2
  <2>2. ConfigTypeOK' /\ WorkerTypeOK' /\ CallerTypeOK' /\ LocalsSet' /\ HandsFull'
    BY DEF WGoto, WorkerPcs, BusyPcs, QueuePcs
  <2>. QED
    BY <2>1, <2>2
<1>10. CASE WorkerFinish(w)
  BY <1>10
  DEF WorkerFinish, WGoto, WorkerPcs, BusyPcs, QueuePcs
<1>. QED
  BY <1>1, <1>2, <1>3, <1>4, <1>5, <1>6, <1>7, <1>8, <1>9, <1>10 DEF Worker

\* A step of a BLAS call.
LEMMA TypeBlas ==
  ASSUME ITypeOK, NEW c \in Callers, BlasStep(c)
  PROVE  ITypeOK'
<1>. USE BoundsAssumption DEF ITypeOK, TypeOK, ConfigTypeOK, WorkerTypeOK, CallerTypeOK, BatchTypeOK,
         LocalsSet, HandsFull, configVars, localVars, itemVars, workerVars, batchVars
<1>1. CASE Partition(c)
  <2>. USE <1>1 DEF Partition
  <2>1. BatchTypeOK'
    <3>0. PICK r \in BOOLEAN :
            /\ reduces' = [reduces EXCEPT ![c] = r]
            /\ \E k \in TaskCounts(r) : items' = [items EXCEPT ![c] = k]
      BY Zenon
    <3>1. PICK k \in TaskCounts(r) : items' = [items EXCEPT ![c] = k]
      BY <3>0
    <3>2. k \in 0..MaxTasks
      BY DEF TaskCounts
    <3>3. items' \in [Callers -> 0..MaxTasks] /\ reduces' \in [Callers -> BOOLEAN]
      BY <3>0, <3>1, <3>2
    <3>. QED
      BY <3>3
  <2>2. ConfigTypeOK' /\ WorkerTypeOK' /\ CallerTypeOK' /\ LocalsSet' /\ HandsFull'
    BY DEF Goto, BlasPcs, ConfigPcs, InitPcs, SetPcs, ShutdownPcs
  <2>. QED
    BY <2>1, <2>2
<1>2. CASE Execute(c)
  BY <1>2, SMTT(30)
  DEF Execute, Goto, BlasPcs, ConfigPcs, InitPcs, SetPcs, ShutdownPcs
<1>3. CASE ExecuteAsync(c)
  <2>. USE <1>3 DEF ExecuteAsync
  <2>1. BatchTypeOK'
    <3>1. items[c] >= 1
      OBVIOUS
    <3>2. QueuedItems(c) \in Seq(Item)
      BY <3>1, QueuedItemsType
    <3>3. work_queue' \in Seq(Item)
      BY <3>2, ConcatProperties
    <3>. QED
      BY <3>3
  <2>2. ConfigTypeOK' /\ WorkerTypeOK' /\ CallerTypeOK' /\ LocalsSet' /\ HandsFull'
    BY DEF Goto, BlasPcs, ConfigPcs, InitPcs, SetPcs, ShutdownPcs
  <2>. QED
    BY <2>1, <2>2
<1>4. CASE AsyncBroadcast(c)
  <2>. USE <1>4 DEF AsyncBroadcast, Broadcast
  <2>1. WorkerTypeOK'
    BY DEF WorkerPcs
  <2>2. HandsFull'
    BY DEF BusyPcs
  <2>3. ConfigTypeOK' /\ CallerTypeOK' /\ BatchTypeOK' /\ LocalsSet'
    BY DEF Goto, BlasPcs, ConfigPcs, InitPcs, SetPcs, ShutdownPcs
  <2>. QED
    BY <2>1, <2>2, <2>3
<1>5. CASE BeginFirst(c)
  <2>. USE <1>5 DEF BeginFirst
  <2>1. BatchTypeOK'
    <3>1. CallerSlot \in Slots
      BY CallerSlotType
    <3>2. thread_id' \in [Item -> Slots \cup {NoSlot}]
      BY <3>1
    <3>. QED
      BY <3>2
  <2>2. ConfigTypeOK' /\ WorkerTypeOK' /\ CallerTypeOK' /\ LocalsSet' /\ HandsFull'
    BY DEF Goto, BlasPcs, ConfigPcs, InitPcs, SetPcs, ShutdownPcs
  <2>. QED
    BY <2>1, <2>2
<1>6. CASE RunFirst(c)
  <2>. USE <1>6 DEF RunFirst
  <2>1. BatchTypeOK'
    <3>1. <<c, 1>> \in Item
      BY FirstItem
    <3>2. runs[<<c, 1>>] \in Nat
      BY <3>1
    <3>3. runs[<<c, 1>>] + 1 \in Nat
      BY <3>2, Successors, Zenon
    <3>4. runs' \in [Item -> Nat]
      BY <3>3
    <3>. QED
      BY <3>4
  <2>2. ConfigTypeOK' /\ WorkerTypeOK' /\ CallerTypeOK' /\ LocalsSet' /\ HandsFull'
    BY DEF Goto, BlasPcs, ConfigPcs, InitPcs, SetPcs, ShutdownPcs
  <2>. QED
    BY <2>1, <2>2
<1>7. CASE FinishFirst(c)
  <2>. USE <1>7 DEF FinishFirst
  <2>1. BatchTypeOK'
    <3>1. <<c, 1>> \in Item
      BY FirstItem
    <3>. QED
      BY <3>1
  <2>2. ConfigTypeOK' /\ WorkerTypeOK' /\ CallerTypeOK' /\ LocalsSet' /\ HandsFull'
    BY DEF Goto, BlasPcs, ConfigPcs, InitPcs, SetPcs, ShutdownPcs
  <2>. QED
    BY <2>1, <2>2
<1>8. CASE ExecuteJoin(c)
  <2>. USE <1>8 DEF ExecuteJoin
  <2>1. CallerTypeOK'
    <3>1. <<c, idx[c]>> \in Item
      OBVIOUS
    <3>2. idx[c] \in 1..MaxTasks
      BY <3>1 DEF Item
    <3>3. idx[c] + 1 \in 0..(MaxTasks + 1)
      BY <3>2, Successors, Zenon
    <3>4. idx' \in [Callers -> 0..(MaxTasks + 1)]
      BY <3>3
    <3>. QED
      BY <3>4 DEF Goto, BlasPcs, ConfigPcs, InitPcs, SetPcs, ShutdownPcs
  <2>2. ConfigTypeOK' /\ WorkerTypeOK' /\ BatchTypeOK' /\ LocalsSet' /\ HandsFull'
    BY DEF Goto, BlasPcs, ConfigPcs, InitPcs, SetPcs, ShutdownPcs
  <2>. QED
    BY <2>1, <2>2
<1>9. CASE ExecuteReturn(c)
  <2>. USE <1>9 DEF ExecuteReturn
  <2>1. CallerTypeOK'
    <3>1. idx' \in [Callers -> 0..(MaxTasks + 1)]
      OBVIOUS
    <3>2. pc' \in [Callers -> {"idle"} \cup BlasPcs \cup ConfigPcs]
      BY DEF Goto, BlasPcs
    <3>. QED
      BY <3>1, <3>2
  <2>2. BatchTypeOK'
    <3>1. items' \in [Callers -> 0..MaxTasks]
      OBVIOUS
    <3>2. thread_id' \in [Item -> Slots \cup {NoSlot}]
      OBVIOUS
    <3>3. runs' \in [Item -> Nat]
      OBVIOUS
    <3>. QED
      BY <3>1, <3>2, <3>3
  <2>3. ConfigTypeOK' /\ WorkerTypeOK' /\ LocalsSet' /\ HandsFull'
    BY DEF Goto, BlasPcs, ConfigPcs, InitPcs, SetPcs, ShutdownPcs
  <2>. QED
    BY <2>1, <2>2, <2>3
<1>10. CASE Reduce(c)
  <2>. USE <1>10 DEF Reduce
  <2>1. items' \in [Callers -> 0..MaxTasks] /\ reduces' \in [Callers -> BOOLEAN]
    OBVIOUS
  <2>2. CallerTypeOK'
    BY DEF Goto
  <2>3. LocalsSet'
    BY DEF Goto, SetPcs
  <2>4. ConfigTypeOK' /\ WorkerTypeOK' /\ BatchTypeOK' /\ HandsFull'
    BY <2>1
  <2>. QED
    BY <2>2, <2>3, <2>4
<1>. QED
  BY <1>1, <1>2, <1>3, <1>4, <1>5, <1>6, <1>7, <1>8, <1>9, <1>10 DEF BlasStep

\* A step of cblas_init.
LEMMA TypeInitCall ==
  ASSUME ITypeOK, NEW c \in Callers, InitStep(c)
  PROVE  ITypeOK'
<1>. USE BoundsAssumption DEF ITypeOK, TypeOK, ConfigTypeOK, WorkerTypeOK, CallerTypeOK, BatchTypeOK,
         LocalsSet, HandsFull, configVars, localVars, itemVars, workerVars, batchVars
<1>1. CASE InitThreads(c)
  BY <1>1, SMTT(30)
  DEF InitThreads, Goto, BlasPcs, ConfigPcs, InitPcs, SetPcs, ShutdownPcs
<1>2. CASE InitBuffers(c)
  <2>. USE <1>2 DEF InitBuffers, EnsureGemmBuffers
  <2>1. ConfigTypeOK'
    OBVIOUS
  <2>2. WorkerTypeOK' /\ CallerTypeOK' /\ BatchTypeOK' /\ LocalsSet' /\ HandsFull'
    BY DEF Goto, BlasPcs, ConfigPcs, InitPcs, SetPcs, ShutdownPcs
  <2>. QED
    BY <2>1, <2>2
<1>3. CASE InitServer(c)
  <2>1. /\ \E l \in {"idle", "init_lock"} : pc' = [pc EXCEPT ![c] = l]
        /\ threads' = [threads EXCEPT ![c] = 0] \/ UNCHANGED threads
        /\ inited' = TRUE \/ UNCHANGED inited
        /\ UNCHANGED <<cblas_max_threads, cblas_server_alive, cblas_thread_ids,
                       server_lock, gemm_buffers_count, queue_lock, workerVars,
                       thread_count, idx, batchVars>>
    BY <1>3 DEF InitServer, Goto
  <2>2. threads' \in [Callers -> 0..MAX_THREADS]
    <3>1. 0 \in 0..MAX_THREADS
      OBVIOUS
    <3>2. CASE threads' = [threads EXCEPT ![c] = 0]
      BY <3>1, <3>2
    <3>3. CASE UNCHANGED threads
      BY <3>3
    <3>. QED
      BY <2>1, <3>2, <3>3
  <2>3. pc' \in [Callers -> {"idle"} \cup BlasPcs \cup ConfigPcs]
    BY <2>1 DEF ConfigPcs, InitPcs
  <2>4. LocalsSet'
    <3>1. \A d \in Callers :
            pc'[d] \in SetPcs \cup {"init_threads", "async"} =>
              pc'[d] = pc[d] /\ d # c
      BY <2>1 DEF SetPcs
    <3>. QED
      BY <2>1, <3>1
  <2>5. ConfigTypeOK' /\ WorkerTypeOK' /\ BatchTypeOK' /\ HandsFull'
    BY <2>1
  <2>. QED
    BY <2>1, <2>2, <2>3, <2>4, <2>5
<1>4. CASE InitLock(c)
  BY <1>4, SMTT(30)
  DEF InitLock, Goto, BlasPcs, ConfigPcs, InitPcs, SetPcs, ShutdownPcs
<1>5. CASE InitCreate(c)
  <2>. USE <1>5 DEF InitCreate
  <2>1. idx[c] \in 0..(MaxTasks + 1) /\ cblas_max_threads \in 0..MAX_THREADS /\ idx[c] < cblas_max_threads - 1
    OBVIOUS
  <2>2. /\ idx[c] \in WorkerNums
        /\ idx[c] + 1 \in 1..MAX_THREADS
        /\ idx[c] + 1 \in 0..(MaxTasks + 1)
    BY <2>1, LoopBounds
  <2>3. ConfigTypeOK'
    BY <2>2, CreateThreadType
  <2>4. WorkerTypeOK'
    BY <2>2, CreateThreadType
  <2>5. CallerTypeOK'
    BY <2>2 DEF WorkerNums
  <2>6. HandsFull'
    BY <2>2, CreateThreadType
  <2>7. BatchTypeOK' /\ LocalsSet'
    BY DEF Goto, BlasPcs, ConfigPcs, InitPcs, SetPcs, ShutdownPcs
  <2>. QED
    BY <2>3, <2>4, <2>5, <2>6, <2>7
<1>6. CASE InitCreateFails(c)
  <2>. USE <1>6 DEF InitCreateFails
  <2>1. idx[c] \in 0..(MaxTasks + 1) /\ cblas_max_threads \in 0..MAX_THREADS /\ idx[c] < cblas_max_threads - 1
    OBVIOUS
  <2>2. /\ idx[c] \in WorkerNums
        /\ idx[c] + 1 \in 1..MAX_THREADS
        /\ idx[c] + 1 \in 0..(MaxTasks + 1)
    BY <2>1, LoopBounds
  <2>3. ConfigTypeOK'
    BY <2>2
  <2>4. WorkerTypeOK' /\ CallerTypeOK' /\ BatchTypeOK' /\ LocalsSet' /\ HandsFull'
    BY DEF Goto, BlasPcs, ConfigPcs, InitPcs, SetPcs, ShutdownPcs
  <2>. QED
    BY <2>3, <2>4
<1>7. CASE InitAlive(c)
  BY <1>7, SMTT(30)
  DEF InitAlive, Goto, BlasPcs, ConfigPcs, InitPcs, SetPcs, ShutdownPcs
<1>8. CASE InitDone(c)
  BY <1>8, SMTT(30)
  DEF InitDone, Goto, BlasPcs, ConfigPcs, InitPcs, SetPcs, ShutdownPcs
<1>. QED
  BY <1>1, <1>2, <1>3, <1>4, <1>5, <1>6, <1>7, <1>8 DEF InitStep

\* A step of cblas_set_num_threads.
LEMMA TypeSet ==
  ASSUME ITypeOK, NEW c \in Callers, SetStep(c)
  PROVE  ITypeOK'
<1>. USE BoundsAssumption DEF ITypeOK, TypeOK, ConfigTypeOK, WorkerTypeOK, CallerTypeOK, BatchTypeOK,
         LocalsSet, HandsFull, configVars, localVars, itemVars, workerVars, batchVars
<1>1. CASE SetShrink(c)
  BY <1>1, SMTT(30)
  DEF SetShrink, Goto, BlasPcs, ConfigPcs, InitPcs, SetPcs, ShutdownPcs
<1>2. CASE ShrinkLock(c)
  BY <1>2, SMTT(30)
  DEF ShrinkLock, Goto, BlasPcs, ConfigPcs, InitPcs, SetPcs, ShutdownPcs
<1>3. CASE ShrinkSignal(c)
  <2>. USE <1>3 DEF ShrinkSignal, Broadcast
  <2>1. ConfigTypeOK'
    <3>1. threads[c] \in 1..MAX_THREADS
      BY DEF SetPcs
    <3>. QED
      BY <3>1
  <2>2. WorkerTypeOK'
    BY DEF WorkerPcs
  <2>3. CallerTypeOK'
    <3>1. threads[c] >= 1
      BY DEF SetPcs
    <3>. QED
      BY <3>1 DEF Goto, BlasPcs, ConfigPcs, InitPcs, SetPcs, ShutdownPcs
  <2>4. HandsFull'
    BY DEF BusyPcs
  <2>5. BatchTypeOK' /\ LocalsSet'
    BY DEF Goto, BlasPcs, ConfigPcs, InitPcs, SetPcs, ShutdownPcs
  <2>. QED
    BY <2>1, <2>2, <2>3, <2>4, <2>5
<1>4. CASE ShrinkDone(c)
  BY <1>4, SMTT(30)
  DEF ShrinkDone, Goto, BlasPcs, ConfigPcs, InitPcs, SetPcs, ShutdownPcs
<1>5. CASE SetGrow(c)
  BY <1>5, SMTT(30)
  DEF SetGrow, Goto, BlasPcs, ConfigPcs, InitPcs, SetPcs, ShutdownPcs
<1>6. CASE GrowLock(c)
  <2>. USE <1>6 DEF GrowLock
  <2>1. ConfigTypeOK'
    <3>1. threads[c] \in 1..MAX_THREADS
      BY DEF SetPcs
    <3>2. gemm_buffers_count' \in 0..MAX_THREADS
      BY <3>1 DEF EnsureGemmBuffers
    <3>. QED
      BY <3>1, <3>2
  <2>2. CallerTypeOK'
    BY DEF GrowStart, Goto, BlasPcs, ConfigPcs, InitPcs, SetPcs, ShutdownPcs
  <2>3. WorkerTypeOK' /\ BatchTypeOK' /\ LocalsSet' /\ HandsFull'
    BY DEF Goto, BlasPcs, ConfigPcs, InitPcs, SetPcs, ShutdownPcs
  <2>. QED
    BY <2>1, <2>2, <2>3
<1>7. CASE GrowCreate(c)
  <2>. USE <1>7 DEF GrowCreate
  <2>1. idx[c] \in 0..(MaxTasks + 1) /\ threads[c] \in 0..MAX_THREADS /\ idx[c] < threads[c] - 1
    OBVIOUS
  <2>2. /\ idx[c] \in WorkerNums
        /\ idx[c] + 1 \in 1..MAX_THREADS
        /\ idx[c] + 1 \in 0..(MaxTasks + 1)
    BY <2>1, LoopBounds
  <2>3. ConfigTypeOK'
    BY <2>2, CreateThreadType
  <2>4. WorkerTypeOK'
    BY <2>2, CreateThreadType
  <2>5. CallerTypeOK'
    BY <2>2 DEF WorkerNums
  <2>6. HandsFull'
    BY <2>2, CreateThreadType
  <2>7. BatchTypeOK' /\ LocalsSet'
    BY DEF Goto, BlasPcs, ConfigPcs, InitPcs, SetPcs, ShutdownPcs
  <2>. QED
    BY <2>3, <2>4, <2>5, <2>6, <2>7
<1>8. CASE GrowCreateFails(c)
  <2>. USE <1>8 DEF GrowCreateFails
  <2>1. idx[c] \in 0..(MaxTasks + 1) /\ threads[c] \in 0..MAX_THREADS /\ idx[c] < threads[c] - 1
    OBVIOUS
  <2>2. /\ idx[c] \in WorkerNums
        /\ idx[c] + 1 \in 1..MAX_THREADS
        /\ idx[c] + 1 \in 0..(MaxTasks + 1)
    BY <2>1, LoopBounds
  <2>3. ConfigTypeOK'
    BY DEF WorkerNums
  <2>4. CallerTypeOK'
    BY <2>2 DEF WorkerNums
  <2>5. WorkerTypeOK' /\ BatchTypeOK' /\ LocalsSet' /\ HandsFull'
    BY DEF Goto, BlasPcs, ConfigPcs, InitPcs, SetPcs, ShutdownPcs
  <2>. QED
    BY <2>3, <2>4, <2>5
<1>9. CASE GrowDone(c)
  BY <1>9, SMTT(30)
  DEF GrowDone, Goto, BlasPcs, ConfigPcs, InitPcs, SetPcs, ShutdownPcs
<1>10. CASE SetLate(c)
  BY <1>10, SMTT(30)
  DEF SetLate, Goto, BlasPcs, ConfigPcs, InitPcs, SetPcs, ShutdownPcs
<1>. QED
  BY <1>1, <1>2, <1>3, <1>4, <1>5, <1>6, <1>7, <1>8, <1>9, <1>10 DEF SetStep

\* A step of cblas_shutdown.
LEMMA TypeShutdown ==
  ASSUME ITypeOK, NEW c \in Callers, ShutStep(c)
  PROVE  ITypeOK'
<1>. USE BoundsAssumption DEF ITypeOK, TypeOK, ConfigTypeOK, WorkerTypeOK, CallerTypeOK, BatchTypeOK,
         LocalsSet, HandsFull, configVars, localVars, itemVars, workerVars, batchVars
<1>1. CASE ShutDead(c)
  BY <1>1, ZenonT(60)
  DEF ShutDead, Goto, BlasPcs, ConfigPcs, InitPcs, SetPcs, ShutdownPcs
<1>2. CASE ShutLock(c)
  <2>. USE <1>2 DEF ShutLock
  <2>1. CallerTypeOK'
    BY DEF Goto, BlasPcs, ConfigPcs, InitPcs, SetPcs, ShutdownPcs
  <2>2. ConfigTypeOK' /\ WorkerTypeOK' /\ BatchTypeOK' /\ LocalsSet' /\ HandsFull'
    BY DEF Goto, BlasPcs, ConfigPcs, InitPcs, SetPcs, ShutdownPcs
  <2>. QED
    BY <2>1, <2>2
<1>3. CASE ShutSignal(c)
  <2>. USE <1>3 DEF ShutSignal, Broadcast
  <2>1. WorkerTypeOK'
    BY DEF WorkerPcs
  <2>2. HandsFull'
    BY DEF BusyPcs
  <2>3. ConfigTypeOK' /\ CallerTypeOK' /\ BatchTypeOK' /\ LocalsSet'
    BY DEF Goto, BlasPcs, ConfigPcs, InitPcs, SetPcs, ShutdownPcs
  <2>. QED
    BY <2>1, <2>2, <2>3
<1>4. CASE ShutJoined(c)
  BY <1>4, SMTT(30)
  DEF ShutJoined, Goto, BlasPcs, ConfigPcs, InitPcs, SetPcs, ShutdownPcs
<1>5. CASE ShutClean(c)
  BY <1>5, SMTT(30)
  DEF ShutClean, Goto, BlasPcs, ConfigPcs, InitPcs, SetPcs, ShutdownPcs
<1>. QED
  BY <1>1, <1>2, <1>3, <1>4, <1>5 DEF ShutStep

\* A new call.
LEMMA TypeNewCall ==
  ASSUME ITypeOK, NEW c \in Callers, NewCall(c)
  PROVE  ITypeOK'
<1>. USE BoundsAssumption DEF ITypeOK, TypeOK, ConfigTypeOK, WorkerTypeOK, CallerTypeOK, BatchTypeOK,
         LocalsSet, HandsFull, configVars, localVars, itemVars, workerVars, batchVars
<1>1. CASE CallBlas(c)
  BY <1>1, SMTT(30)
  DEF CallBlas, Goto, BlasPcs, ConfigPcs, InitPcs, SetPcs, ShutdownPcs
<1>2. CASE CallInit(c)
  <2>. USE <1>2 DEF CallInit
  <2>1. CallerTypeOK'
    <3>1. threads' \in [Callers -> 0..MAX_THREADS]
      BY ClampRange
    <3>2. pc' \in [Callers -> {"idle"} \cup BlasPcs \cup ConfigPcs]
      BY DEF Goto, BlasPcs, ConfigPcs, InitPcs, SetPcs, ShutdownPcs
    <3>. QED
      BY <3>1, <3>2
  <2>2. LocalsSet'
    BY ClampRange DEF Goto, SetPcs
  <2>3. ConfigTypeOK' /\ WorkerTypeOK' /\ BatchTypeOK' /\ HandsFull'
    BY DEF Goto, BlasPcs, ConfigPcs, InitPcs, SetPcs, ShutdownPcs
  <2>. QED
    BY <2>1, <2>2, <2>3
<1>3. CASE CallSetNumThreads(c)
  <2>. USE <1>3 DEF CallSetNumThreads
  <2>1. CallerTypeOK'
    <3>1. threads' \in [Callers -> 0..MAX_THREADS]
      BY ClampRange
    <3>2. pc' \in [Callers -> {"idle"} \cup BlasPcs \cup ConfigPcs]
      BY DEF Goto, BlasPcs, ConfigPcs, InitPcs, SetPcs, ShutdownPcs
    <3>. QED
      BY <3>1, <3>2
  <2>2. LocalsSet'
    BY ClampRange DEF Goto, SetPcs
  <2>3. ConfigTypeOK' /\ WorkerTypeOK' /\ BatchTypeOK' /\ HandsFull'
    BY DEF Goto, BlasPcs, ConfigPcs, InitPcs, SetPcs, ShutdownPcs
  <2>. QED
    BY <2>1, <2>2, <2>3
<1>4. CASE CallShutdown(c)
  BY <1>4, ZenonT(60)
  DEF CallShutdown, Goto, BlasPcs, ConfigPcs, InitPcs, SetPcs, ShutdownPcs
<1>. QED
  BY <1>1, <1>2, <1>3, <1>4 DEF NewCall

\* One turn of a join loop.
LEMMA TypeJoin ==
  ASSUME ITypeOK, NEW c \in Callers, JoinWorker(c)
  PROVE  ITypeOK'
<1>. USE BoundsAssumption DEF ITypeOK, TypeOK, ConfigTypeOK, CallerTypeOK
<1>1. idx[c] \in 0..(MaxTasks + 1) /\ thread_count[c] \in 0..MAX_THREADS
      /\ idx[c] < thread_count[c] - 1
  BY DEF JoinWorker
<1>2. idx[c] \in WorkerNums /\ idx[c] + 1 \in 0..(MaxTasks + 1)
  BY <1>1, LoopBounds
<1>3. \/ UNCHANGED <<wpc, cblas_thread_ids>>
      \/ \E h \in Handles :
           /\ wpc' = [wpc EXCEPT ![h] = "none"]
           /\ cblas_thread_ids' = [cblas_thread_ids EXCEPT ![idx[c]] = Null]
  BY DEF JoinWorker, WGoto
<1>4. cblas_thread_ids' \in [WorkerNums -> Handles \cup {Null, Junk}]
  BY <1>2, <1>3
<1>5. WorkerTypeOK' /\ HandsFull'
  BY <1>3 DEF JoinWorker, WorkerTypeOK, HandsFull, WorkerPcs, BusyPcs
<1>6. CallerTypeOK'
  BY <1>2 DEF JoinWorker
<1>7. ConfigTypeOK' /\ BatchTypeOK' /\ LocalsSet'
  BY <1>4 DEF JoinWorker, BatchTypeOK, LocalsSet, batchVars, itemVars
<1>. QED
  BY <1>5, <1>6, <1>7

\* Every step of the system preserves the strengthened type invariant.
LEMMA TypeStep ==
  ASSUME ITypeOK, [Next]_vars
  PROVE  ITypeOK'
<1>1. ASSUME NEW w \in Handles, Worker(w) \/ WorkerSpurious(w)
      PROVE  ITypeOK'
  BY <1>1, TypeWorker
<1>2. ASSUME NEW c \in Callers, CallerStep(c)
      PROVE  ITypeOK'
  BY <1>2, TypeBlas, TypeInitCall, TypeSet, TypeShutdown, TypeJoin DEF CallerStep
<1>3. ASSUME NEW c \in Callers, NewCall(c)
      PROVE  ITypeOK'
  BY <1>3, TypeNewCall
<1>4. CASE UNCHANGED vars
  BY <1>4 DEF ITypeOK, TypeOK, ConfigTypeOK, WorkerTypeOK, CallerTypeOK,
              BatchTypeOK, LocalsSet, HandsFull, vars, configVars, workerVars,
              localVars, itemVars
<1>. QED
  BY <1>1, <1>2, <1>3, <1>4 DEF Next

\* The strengthened type invariant, the frame of every other proof.
THEOREM StrongTypeCorrect == Spec => []ITypeOK
BY TypeInit, TypeStep, PTL DEF Spec

\* Every variable stays in its range, for any number of threads and handles,
\* any request (negative or above MAX_THREADS), failed thread creation, and
\* applications that keep none of the rules of use: in particular the count
\* that indexes cblas_thread_ids[] and the pool stays in 1..MAX_THREADS.
THEOREM TypeCorrect == Spec => []TypeOK
<1>1. ITypeOK => TypeOK
  BY DEF ITypeOK
<1>. QED
  BY StrongTypeCorrect, <1>1, PTL

-------------------------------------------------------------------------------
(***************************************************************************)
(* Part 2.  The thread server implements BatchExecution: each task of each *)
(* batch runs exactly once and cblas_execute returns only after all of     *)
(* them, whatever rules of use the application keeps, however many threads *)
(* run, are created, fail to be created or exit.                           *)
(*                                                                         *)
(* The argument follows an item from the queue to a worker's hands to the  *)
(* finished flag: it is in exactly one of these places, all of them belong *)
(* to the caller that holds execute_lock, and its kernel has run if and    *)
(* only if it is about to be finished or is finished.                      *)
(***************************************************************************)

\* A caller is between taking execute_lock and releasing it.
InExecute == {"async", "broadcast", "first", "kernel", "finish", "join", "unlock"}

LockHeld == \A c \in Callers : pc[c] \in InExecute <=> execute_lock = c

\* The batch has a task, and the join is at one of its items.
SizesSet ==
  \A c \in Callers :
    /\ pc[c] \in InExecute \cup {"execute"} => items[c] >= 1
    /\ pc[c] = "join" => idx[c] \in 2..items[c]

Busy(w) == wpc[w] \in BusyPcs

\* No item is twice in the queue, in two workers' hands, or in both places.
OnePlace ==
  /\ \A p, q \in DOMAIN work_queue : work_queue[p] = work_queue[q] => p = q
  /\ \A p \in DOMAIN work_queue, w \in Handles :
       Busy(w) => work_queue[p] # work_item[w]
  /\ \A v, w \in Handles : Busy(v) /\ Busy(w) /\ work_item[v] = work_item[w] => v = w

\* How often the kernel of an item has run, by the place the item is in.
RunsMatchPlace ==
  /\ \A x \in Item : InQueue(x) \/ execute_lock # x[1] => runs[x] = 0
  /\ \A x \in Item : pc[x[1]] = "async" => runs[x] = 0
  /\ \A w \in Handles :
       Busy(w) => runs[work_item[w]] = IF wpc[w] = "finish" THEN 1 ELSE 0
  /\ \A x \in finished : runs[x] = 1

\* The first item is the calling thread's own.
FirstItemRuns ==
  \A c \in Callers :
    /\ pc[c] \in {"async", "broadcast", "first", "kernel"} => runs[<<c, 1>>] = 0
    /\ pc[c] = "finish" => runs[<<c, 1>>] = 1

\* The items the join has passed are finished; so are all of them at the end.
PrefixFinished ==
  \A c \in Callers :
    /\ pc[c] = "join" => \A i \in 1..(idx[c] - 1) : <<c, i>> \in finished
    /\ pc[c] = "unlock" => \A i \in 1..items[c] : <<c, i>> \in finished

BatchInv ==
  /\ LockHeld /\ SizesSet /\ OnePlace
  /\ NoDanglingItem /\ NoTaskLost
  /\ RunsMatchPlace /\ FirstItemRuns /\ PrefixFinished

-------------------------------------------------------------------------------
\* Steps that leave the items where they are: every configuration step, and
\* those steps of callers and workers that do not touch an item's place.
Quiet ==
  /\ UNCHANGED <<work_queue, execute_lock, finished, runs>>
  /\ \A w \in Handles :
       /\ Busy(w)' <=> Busy(w)
       /\ Busy(w) => /\ work_item'[w] = work_item[w]
                     /\ wpc'[w] = "finish" <=> wpc[w] = "finish"
  /\ \A d \in Callers :
       \/ pc'[d] = pc[d] /\ idx'[d] = idx[d] /\ items'[d] = items[d]
       \/ /\ {pc[d], pc'[d]} \subseteq {"broadcast", "first", "kernel"}
          /\ items'[d] = items[d]
       \/ /\ pc[d] \notin InExecute /\ pc'[d] \notin InExecute
          /\ pc'[d] = "execute" => items'[d] >= 1

LEMMA QuietPreserves ==
  ASSUME BatchInv, Quiet
  PROVE  BatchInv'
<1>. USE DEF BatchInv
<1>1. /\ work_queue' = work_queue /\ execute_lock' = execute_lock
      /\ finished' = finished /\ runs' = runs
  BY DEF Quiet
<1>2. ASSUME NEW x
      PROVE  (InQueue(x)' <=> InQueue(x)) /\ (InHand(x)' <=> InHand(x))
  BY <1>1 DEF Quiet, InQueue, InHand, Busy
<1>3. \A d \in Callers :
        /\ Submitted(d)' <=> Submitted(d)
        /\ pc'[d] \in InExecute <=> pc[d] \in InExecute
        /\ pc[d] \in InExecute => items'[d] = items[d]
  BY DEF Quiet, Submitted, InExecute
<1>4. \A d \in Callers :
        \A l \in {"async", "finish", "join", "unlock"} :
          pc'[d] = l <=> pc[d] = l
  BY DEF Quiet, InExecute
<1>5. \A d \in Callers : pc[d] = "join" => idx'[d] = idx[d]
  BY DEF Quiet, InExecute
<1>6. LockHeld'
  BY <1>1, <1>3 DEF LockHeld
<1>7. SizesSet'
  BY <1>3, <1>4, <1>5 DEF SizesSet, Quiet, InExecute
<1>8. OnePlace'
  BY <1>1 DEF OnePlace, Quiet
<1>9. NoDanglingItem'
  BY <1>1, <1>2, <1>3 DEF NoDanglingItem, Submitted, InExecute, Item
<1>10. NoTaskLost'
  BY <1>1, <1>2, <1>3 DEF NoTaskLost, Submitted, InExecute
<1>11. RunsMatchPlace'
  BY <1>1, <1>2, <1>4 DEF RunsMatchPlace, Quiet, Item
<1>12. FirstItemRuns'
  BY <1>1, <1>4 DEF FirstItemRuns, Quiet, InExecute
<1>13. PrefixFinished'
  BY <1>1, <1>3, <1>4, <1>5 DEF PrefixFinished, InExecute
<1>. QED
  BY <1>6, <1>7, <1>8, <1>9, <1>10, <1>11, <1>12, <1>13

\* The worker's steps around the queue, when it takes no item, and the store of
\* thread_id.
LEMMA QuietWorker ==
  ASSUME ITypeOK, NEW w \in Handles,
         \/ WorkerLock(w) \/ WorkerCheck(w) \/ WorkerPark(w) \/ WorkerSpurious(w)
         \/ WorkerExit(w) \/ WorkerRetry(w) \/ WorkerBegin(w)
  PROVE  Quiet
<1>. USE DEF Quiet, Busy, BusyPcs, configVars, localVars, itemVars, workerVars, batchVars,
         ITypeOK, TypeOK, WorkerTypeOK, CallerTypeOK, BatchTypeOK, WGoto
<1>1. CASE WorkerLock(w)
  BY <1>1 DEF WorkerLock
<1>2. CASE WorkerCheck(w)
  BY <1>2 DEF WorkerCheck
<1>3. CASE WorkerPark(w)
  BY <1>3 DEF WorkerPark
<1>4. CASE WorkerSpurious(w)
  BY <1>4 DEF WorkerSpurious
<1>5. CASE WorkerExit(w)
  BY <1>5 DEF WorkerExit
<1>6. CASE WorkerRetry(w)
  BY <1>6 DEF WorkerRetry
<1>7. CASE WorkerBegin(w)
  BY <1>7 DEF WorkerBegin
<1>. QED
  BY <1>1, <1>2, <1>3, <1>4, <1>5, <1>6, <1>7

\* The caller's steps outside the batch, the broadcast, the store of thread_id.
LEMMA QuietBlas ==
  ASSUME ITypeOK, NEW c \in Callers,
         Partition(c) \/ AsyncBroadcast(c) \/ BeginFirst(c) \/ Reduce(c)
  PROVE  Quiet
<1>. USE DEF Quiet, Busy, BusyPcs, configVars, localVars, itemVars, workerVars, batchVars,
         ITypeOK, TypeOK, WorkerTypeOK, CallerTypeOK, BatchTypeOK,
         Goto, InExecute
<1>1. CASE Partition(c)
  <2>1. PICK r \in BOOLEAN : \E k \in TaskCounts(r) : items' = [items EXCEPT ![c] = k]
    BY <1>1, Zenon DEF Partition
  <2>2. PICK k \in TaskCounts(r) : items' = [items EXCEPT ![c] = k]
    BY <2>1
  <2>3. k >= 1
    BY BoundsAssumption DEF TaskCounts, ConfigTypeOK
  <2>4. items'[c] >= 1 /\ \A d \in Callers \ {c} : items'[d] = items[d]
    BY <2>2, <2>3
  <2>. QED
    BY <1>1, <2>4 DEF Partition
<1>2. CASE AsyncBroadcast(c)
  BY <1>2 DEF AsyncBroadcast, Broadcast
<1>3. CASE BeginFirst(c)
  BY <1>3 DEF BeginFirst
<1>4. CASE Reduce(c)
  BY <1>4 DEF Reduce
<1>. QED
  BY <1>1, <1>2, <1>3, <1>4

\* Configuration calls, and the start of any call.
LEMMA QuietConfig ==
  ASSUME ITypeOK, NEW c \in Callers,
         InitStep(c) \/ SetStep(c) \/ ShutStep(c) \/ JoinWorker(c) \/ NewCall(c)
  PROVE  Quiet
<1>. USE DEF Quiet, Busy, BusyPcs, configVars, localVars, itemVars, workerVars, batchVars,
         ITypeOK, TypeOK, WorkerTypeOK, CallerTypeOK, BatchTypeOK,
         Goto, InExecute
<1>1. CASE InitThreads(c)
  BY <1>1 DEF InitThreads
<1>2. CASE InitBuffers(c)
  BY <1>2 DEF InitBuffers
<1>3. CASE InitServer(c)
  BY <1>3 DEF InitServer
<1>4. CASE InitLock(c)
  BY <1>4 DEF InitLock
<1>5. CASE InitCreate(c)
  BY <1>5 DEF InitCreate, CreateThread, WGoto
<1>6. CASE InitCreateFails(c)
  BY <1>6 DEF InitCreateFails
<1>7. CASE InitAlive(c)
  BY <1>7 DEF InitAlive
<1>8. CASE InitDone(c)
  BY <1>8 DEF InitDone
<1>9. CASE SetShrink(c)
  BY <1>9 DEF SetShrink
<1>10. CASE ShrinkLock(c)
  BY <1>10 DEF ShrinkLock
<1>11. CASE ShrinkSignal(c)
  BY <1>11 DEF ShrinkSignal, Broadcast
<1>12. CASE ShrinkDone(c)
  BY <1>12 DEF ShrinkDone
<1>13. CASE SetGrow(c)
  BY <1>13 DEF SetGrow
<1>14. CASE GrowLock(c)
  BY <1>14 DEF GrowLock
<1>15. CASE GrowCreate(c)
  BY <1>15 DEF GrowCreate, CreateThread, WGoto
<1>16. CASE GrowCreateFails(c)
  BY <1>16 DEF GrowCreateFails
<1>17. CASE GrowDone(c)
  BY <1>17 DEF GrowDone
<1>18. CASE SetLate(c)
  BY <1>18 DEF SetLate
<1>19. CASE ShutDead(c)
  BY <1>19 DEF ShutDead
<1>20. CASE ShutLock(c)
  BY <1>20 DEF ShutLock
<1>21. CASE ShutSignal(c)
  BY <1>21 DEF ShutSignal, Broadcast
<1>22. CASE ShutJoined(c)
  BY <1>22 DEF ShutJoined
<1>23. CASE ShutClean(c)
  BY <1>23 DEF ShutClean
<1>24. CASE JoinWorker(c)
  BY <1>24 DEF JoinWorker, WGoto
<1>25. CASE CallBlas(c)
  BY <1>25 DEF CallBlas
<1>26. CASE CallInit(c)
  BY <1>26 DEF CallInit
<1>27. CASE CallSetNumThreads(c)
  BY <1>27 DEF CallSetNumThreads
<1>28. CASE CallShutdown(c)
  BY <1>28 DEF CallShutdown
<1>. QED
  BY <1>1, <1>2, <1>3, <1>4, <1>5, <1>6, <1>7, <1>8, <1>9, <1>10,
     <1>11, <1>12, <1>13, <1>14, <1>15, <1>16, <1>17, <1>18, <1>19, <1>20,
     <1>21, <1>22, <1>23, <1>24, <1>25, <1>26, <1>27, <1>28
  DEF InitStep, SetStep, ShutStep, NewCall

\* What a worker does to the queue when it takes an item.
TakesHead(w) ==
  /\ wpc[w] = "decide" /\ work_queue # <<>>
  /\ work_item' = [work_item EXCEPT ![w] = Head(work_queue)]
  /\ work_queue' = Tail(work_queue)
  /\ WGoto(w, "begin")
  /\ UNCHANGED <<execute_lock, pc, localVars, itemVars>>

\* A worker takes the head of the queue: the item moves to its hands.
LEMMA TakePreserves ==
  ASSUME ITypeOK, BatchInv, NEW w \in Handles, TakesHead(w)
  PROVE  BatchInv'
<1>. USE DEF BatchInv
<1>1. /\ work_queue \in Seq(Item) /\ work_queue # <<>>
      /\ wpc \in [Handles -> WorkerPcs] /\ work_item \in [Handles -> Item \cup {Null}]
  BY DEF ITypeOK, TypeOK, WorkerTypeOK, BatchTypeOK, TakesHead
<1>2. /\ work_queue' = Tail(work_queue)
      /\ wpc[w] = "decide" /\ ~Busy(w)
      /\ wpc' = [wpc EXCEPT ![w] = "begin"]
      /\ work_item' = [work_item EXCEPT ![w] = Head(work_queue)]
      /\ UNCHANGED <<pc, idx, items, execute_lock, finished, runs>>
  BY DEF TakesHead, WGoto, localVars, itemVars, Busy, BusyPcs
<1>3. /\ Head(work_queue) = work_queue[1] /\ 1 \in DOMAIN work_queue
      /\ Len(work_queue') = Len(work_queue) - 1
      /\ \A p \in DOMAIN work_queue' :
           p + 1 \in DOMAIN work_queue /\ work_queue'[p] = work_queue[p + 1]
      /\ \A p \in DOMAIN work_queue :
           p = 1 \/ (p - 1 \in DOMAIN work_queue' /\ work_queue[p] = work_queue'[p - 1])
      /\ DOMAIN work_queue \subseteq Int /\ DOMAIN work_queue' \subseteq Int
  BY <1>1, <1>2
<1>4. /\ Busy(w)' /\ work_item'[w] = Head(work_queue) /\ wpc'[w] = "begin"
      /\ \A v \in Handles \ {w} :
           (Busy(v)' <=> Busy(v)) /\ work_item'[v] = work_item[v] /\ wpc'[v] = wpc[v]
  BY <1>1, <1>2 DEF Busy, BusyPcs
<1>5. ASSUME NEW x
      PROVE  InQueue(x) \/ InHand(x) <=> (InQueue(x) \/ InHand(x))'
  <2>1. InQueue(x)' => InQueue(x)
    BY <1>3 DEF InQueue
  <2>2. InQueue(x) => InQueue(x)' \/ x = Head(work_queue)
    BY <1>3 DEF InQueue
  <2>3. InHand(x)' <=> InHand(x) \/ x = Head(work_queue)
    BY <1>2, <1>4 DEF InHand, Busy
  <2>4. InQueue(Head(work_queue))
    BY <1>3 DEF InQueue
  <2>. QED
    BY <2>1, <2>2, <2>3, <2>4
<1>6. LockHeld' /\ SizesSet' /\ FirstItemRuns' /\ PrefixFinished'
  BY <1>2 DEF LockHeld, SizesSet, FirstItemRuns, PrefixFinished
<1>7. OnePlace'
  <2>1. \A p, q \in DOMAIN work_queue' : work_queue'[p] = work_queue'[q] => p = q
    BY <1>3 DEF OnePlace
  <2>2. ASSUME NEW p \in DOMAIN work_queue', NEW v \in Handles, Busy(v)'
        PROVE  work_queue'[p] # work_item'[v]
    <3>1. p \in Int /\ p + 1 \in DOMAIN work_queue /\ work_queue'[p] = work_queue[p + 1]
      BY <1>3
    <3>2. CASE v = w
      <4>1. work_queue[p + 1] # work_queue[1] \/ p + 1 = 1
        BY <1>3, <3>1 DEF OnePlace
      <4>2. p # 0
        BY <1>1, <1>3
      <4>. QED
        BY <1>3, <1>4, <3>1, <3>2, <4>1, <4>2
    <3>3. CASE v # w
      <4>1. Busy(v) /\ work_item'[v] = work_item[v]
        BY <1>4, <2>2, <3>3
      <4>. QED
        BY <3>1, <4>1 DEF OnePlace
    <3>. QED
      BY <3>2, <3>3
  <2>3. \A u, v \in Handles :
          Busy(u)' /\ Busy(v)' /\ work_item'[u] = work_item'[v] => u = v
    <3>1. \A u \in Handles \ {w} : Busy(u) => work_item[u] # Head(work_queue)
      BY <1>3 DEF OnePlace
    <3>. QED
      BY <1>4, <3>1 DEF OnePlace
  <2>4. \A p \in DOMAIN work_queue', v \in Handles :
          Busy(v)' => work_queue'[p] # work_item'[v]
    BY <2>2
  <2>. QED
    BY <2>1, <2>3, <2>4 DEF OnePlace
<1>8. NoDanglingItem'
  BY <1>2, <1>5 DEF NoDanglingItem, Submitted
<1>9. NoTaskLost'
  BY <1>2, <1>5 DEF NoTaskLost, Submitted
<1>10. RunsMatchPlace'
  <2>1. \A x : InQueue(x)' => InQueue(x)
    BY <1>3 DEF InQueue
  <2>2. Head(work_queue) \in Item /\ InQueue(Head(work_queue))
    BY <1>1, <1>3 DEF InQueue
  <2>. QED
    BY <1>2, <1>4, <2>1, <2>2 DEF RunsMatchPlace
<1>. QED
  BY <1>6, <1>7, <1>8, <1>9, <1>10

\* A worker's kernel returns: the item in its hands has run once.
LEMMA KernelPreserves ==
  ASSUME ITypeOK, BatchInv, NEW w \in Handles, WorkerKernel(w)
  PROVE  BatchInv'
<1>. USE DEF BatchInv
<1>. DEFINE x0 == work_item[w]
<1>1. /\ wpc \in [Handles -> WorkerPcs] /\ runs \in [Item -> Nat] /\ x0 \in Item
      /\ finished \subseteq Item
  BY DEF ITypeOK, TypeOK, WorkerTypeOK, BatchTypeOK, HandsFull, WorkerKernel, BusyPcs
<1>2. /\ wpc[w] = "kernel" /\ Busy(w)
      /\ wpc' = [wpc EXCEPT ![w] = "finish"]
      /\ runs' = [runs EXCEPT ![x0] = runs[x0] + 1]
      /\ UNCHANGED <<work_queue, work_item, pc, idx, items, execute_lock, finished>>
  BY DEF WorkerKernel, WGoto, localVars, Busy, BusyPcs
<1>3. /\ \A v \in Handles : Busy(v)' <=> Busy(v)
      /\ \A v \in Handles \ {w} : wpc'[v] = wpc[v]
      /\ wpc'[w] = "finish"
  BY <1>1, <1>2 DEF Busy, BusyPcs
<1>4. /\ runs[x0] = 0 /\ runs'[x0] = 1
      /\ \A x \in Item \ {x0} : runs'[x] = runs[x]
  BY <1>1, <1>2 DEF RunsMatchPlace
<1>5. \A x : (InQueue(x)' <=> InQueue(x)) /\ (InHand(x)' <=> InHand(x))
  BY <1>2, <1>3 DEF InQueue, InHand, Busy
<1>6. InHand(x0)
  BY <1>2 DEF InHand, Busy
<1>7. /\ ~InQueue(x0) /\ x0 \notin finished
      /\ Submitted(x0[1]) /\ execute_lock = x0[1] /\ x0[2] \in 2..items[x0[1]]
  BY <1>1, <1>2, <1>6 DEF OnePlace, InQueue, NoDanglingItem
<1>8. LockHeld' /\ SizesSet' /\ PrefixFinished'
  BY <1>2 DEF LockHeld, SizesSet, PrefixFinished
<1>9. OnePlace'
  BY <1>2, <1>3 DEF OnePlace
<1>10. NoDanglingItem' /\ NoTaskLost'
  BY <1>2, <1>5 DEF NoDanglingItem, NoTaskLost, Submitted
<1>11. RunsMatchPlace'
  <2>1. \A x \in Item : InQueue(x)' \/ execute_lock' # x[1] => runs'[x] = 0
    BY <1>2, <1>4, <1>5, <1>7 DEF RunsMatchPlace
  <2>2. \A x \in Item : pc'[x[1]] = "async" => runs'[x] = 0
    BY <1>2, <1>4, <1>7 DEF RunsMatchPlace, Submitted
  <2>3. \A v \in Handles :
          Busy(v)' => runs'[work_item'[v]] = IF wpc'[v] = "finish" THEN 1 ELSE 0
    <3>1. \A v \in Handles \ {w} : Busy(v) => work_item[v] # x0 /\ work_item[v] \in Item
      BY <1>2 DEF OnePlace, ITypeOK, HandsFull, Busy
    <3>. QED
      BY <1>2, <1>3, <1>4, <3>1 DEF RunsMatchPlace
  <2>4. \A x \in finished' : runs'[x] = 1
    BY <1>1, <1>2, <1>4, <1>7 DEF RunsMatchPlace
  <2>. QED
    BY <2>1, <2>2, <2>3, <2>4 DEF RunsMatchPlace
<1>12. FirstItemRuns'
  <2>1. x0[2] # 1
    BY <1>7
  <2>2. ASSUME NEW c \in Callers PROVE <<c, 1>> \in Item /\ <<c, 1>> # x0
    <3>1. <<c, 1>>[2] = 1
      OBVIOUS
    <3>. QED
      BY <2>1, <3>1, FirstItem
  <2>. QED
    BY <1>2, <1>4, <2>2 DEF FirstItemRuns
<1>. QED
  BY <1>8, <1>9, <1>10, <1>11, <1>12

\* A worker stores the finished flag of its item and lets go of it.
LEMMA FinishPreserves ==
  ASSUME ITypeOK, BatchInv, NEW w \in Handles, WorkerFinish(w)
  PROVE  BatchInv'
<1>. USE DEF BatchInv
<1>. DEFINE x0 == work_item[w]
<1>1. /\ wpc \in [Handles -> WorkerPcs] /\ x0 \in Item
      /\ work_item \in [Handles -> Item \cup {Null}]
  BY DEF ITypeOK, TypeOK, WorkerTypeOK, HandsFull, WorkerFinish, BusyPcs
<1>2. /\ wpc[w] = "finish" /\ Busy(w)
      /\ wpc' = [wpc EXCEPT ![w] = "lock"]
      /\ work_item' = [work_item EXCEPT ![w] = Null]
      /\ finished' = finished \cup {x0}
      /\ UNCHANGED <<work_queue, runs, pc, idx, items, execute_lock>>
  BY DEF WorkerFinish, WGoto, localVars, Busy, BusyPcs
<1>3. /\ ~Busy(w)'
      /\ \A v \in Handles \ {w} :
           (Busy(v)' <=> Busy(v)) /\ work_item'[v] = work_item[v] /\ wpc'[v] = wpc[v]
  BY <1>1, <1>2 DEF Busy, BusyPcs
<1>4. \A x : /\ InQueue(x)' <=> InQueue(x)
             /\ InHand(x) <=> InHand(x)' \/ x = x0
             /\ InHand(x)' => x # x0
  BY <1>2, <1>3 DEF InQueue, InHand, OnePlace, Busy
<1>5. ~InQueue(x0) /\ runs[x0] = 1
  BY <1>2 DEF InQueue, OnePlace, RunsMatchPlace
<1>6. LockHeld' /\ SizesSet' /\ FirstItemRuns' /\ PrefixFinished'
  BY <1>2 DEF LockHeld, SizesSet, FirstItemRuns, PrefixFinished
<1>7. OnePlace'
  BY <1>2, <1>3 DEF OnePlace
<1>8. NoDanglingItem'
  BY <1>2, <1>4, <1>5 DEF NoDanglingItem, Submitted
<1>9. NoTaskLost'
  BY <1>2, <1>4 DEF NoTaskLost, Submitted
<1>10. RunsMatchPlace'
  BY <1>2, <1>3, <1>4, <1>5 DEF RunsMatchPlace
<1>. QED
  BY <1>6, <1>7, <1>8, <1>9, <1>10

\* A caller gets the server; nothing of an earlier batch is left.
LEMMA ExecutePreserves ==
  ASSUME ITypeOK, BatchInv, NEW c \in Callers, Execute(c)
  PROVE  BatchInv'
<1>. USE DEF BatchInv
<1>1. /\ pc \in [Callers -> {"idle"} \cup BlasPcs \cup ConfigPcs]
      /\ Null \notin Callers
  BY ThreadsAssumption DEF ITypeOK, TypeOK, CallerTypeOK
<1>2. /\ pc[c] = "execute" /\ execute_lock = Null /\ execute_lock' = c
      /\ pc' = [pc EXCEPT ![c] = IF items[c] > 1 THEN "async" ELSE "first"]
      /\ UNCHANGED <<work_queue, work_item, wpc, runs, idx, items, finished>>
  BY DEF Execute, Goto, workerVars, localVars, itemVars
<1>3. \A d \in Callers \ {c} : pc'[d] = pc[d] /\ pc[d] \notin InExecute
  BY <1>1, <1>2 DEF LockHeld
<1>4. \/ pc'[c] = "async" /\ items[c] > 1
      \/ pc'[c] = "first" /\ ~(items[c] > 1)
  BY <1>1, <1>2
<1>5. \A x \in Item : runs[x] = 0 /\ ~InQueue(x) /\ ~InHand(x) /\ x \notin finished
  BY <1>1, <1>2 DEF RunsMatchPlace, NoDanglingItem, Item
<1>6. \A x : (InQueue(x)' <=> InQueue(x)) /\ (InHand(x)' <=> InHand(x))
  BY <1>2 DEF InQueue, InHand
<1>7. LockHeld'
  BY <1>1, <1>2, <1>3, <1>4 DEF LockHeld, InExecute
<1>8. SizesSet'
  BY <1>2, <1>3, <1>4 DEF SizesSet, InExecute
<1>9. OnePlace'
  BY <1>2 DEF OnePlace, Busy
<1>10. NoDanglingItem'
  BY <1>5, <1>6 DEF NoDanglingItem
<1>11. NoTaskLost'
  <2>1. \A d \in Callers \ {c} : ~Submitted(d)'
    BY <1>3 DEF Submitted, InExecute
  <2>2. Submitted(c)' => \A i \in 2..items'[c] : FALSE
    <3>1. items[c] \in Nat
      BY DEF ITypeOK, TypeOK, BatchTypeOK
    <3>. QED
      BY <1>2, <1>4, <3>1 DEF Submitted
  <2>. QED
    BY <2>1, <2>2 DEF NoTaskLost
<1>12. RunsMatchPlace'
  <2>1. \A w \in Handles : ~Busy(w)
    BY <1>5 DEF ITypeOK, HandsFull, Busy, InHand
  <2>2. finished = {}
    BY <1>5 DEF ITypeOK, TypeOK, BatchTypeOK
  <2>. QED
    BY <1>2, <1>5, <2>1, <2>2 DEF RunsMatchPlace, Busy
<1>13. FirstItemRuns'
  BY <1>2, <1>3, <1>4, <1>5, FirstItem DEF FirstItemRuns, InExecute
<1>14. PrefixFinished'
  BY <1>3, <1>4 DEF PrefixFinished, InExecute
<1>. QED
  BY <1>7, <1>8, <1>9, <1>10, <1>11, <1>12, <1>13, <1>14

\* The caller queues all its items but the first, on an empty queue.
LEMMA AsyncPreserves ==
  ASSUME ITypeOK, BatchInv, NEW c \in Callers, ExecuteAsync(c)
  PROVE  BatchInv'
<1>. USE DEF BatchInv
<1>1. /\ pc \in [Callers -> {"idle"} \cup BlasPcs \cup ConfigPcs]
      /\ items[c] \in Nat /\ items[c] > 1 /\ items[c] <= MaxTasks
      /\ work_queue \in Seq(Item) /\ finished \subseteq Item
  BY BoundsAssumption DEF ITypeOK, TypeOK, CallerTypeOK, BatchTypeOK, LocalsSet,
                          ExecuteAsync
<1>2. /\ pc[c] = "async"
      /\ work_queue' = work_queue \o QueuedItems(c)
      /\ pc' = [pc EXCEPT ![c] = "broadcast"]
      /\ UNCHANGED <<execute_lock, work_item, wpc, runs, idx, items, finished>>
  BY DEF ExecuteAsync, Goto, workerVars, localVars, itemVars
<1>3. execute_lock = c /\ \A d \in Callers \ {c} : pc[d] \notin InExecute
  BY <1>2 DEF LockHeld, InExecute
<1>4. pc'[c] = "broadcast" /\ \A d \in Callers \ {c} : pc'[d] = pc[d]
  BY <1>1, <1>2
<1>5. \A x \in Item : ~InQueue(x) /\ ~InHand(x)
  BY <1>2, <1>3 DEF NoDanglingItem, Submitted
<1>6. \A w \in Handles : ~Busy(w)
  BY <1>5 DEF ITypeOK, HandsFull, Busy, InHand
<1>7. work_queue = <<>>
  <2>1. CASE work_queue # <<>>
    <3>1. 1 \in DOMAIN work_queue /\ work_queue[1] \in Item
      BY <1>1, <2>1
    <3>. QED
      BY <3>1, <1>5 DEF InQueue
  <2>. QED
    BY <2>1
<1>8. /\ work_queue' = QueuedItems(c)
      /\ DOMAIN QueuedItems(c) = 1..(items[c] - 1)
      /\ \A j \in 1..(items[c] - 1) : QueuedItems(c)[j] = <<c, j + 1>>
  BY <1>1, <1>2, <1>7 DEF QueuedItems
<1>9. \A x : InQueue(x)' <=> \E i \in 2..items[c] : x = <<c, i>>
  <2>1. \A j \in 1..(items[c] - 1) : j + 1 \in 2..items[c]
    BY <1>1
  <2>2. \A i \in 2..items[c] : i - 1 \in 1..(items[c] - 1) /\ (i - 1) + 1 = i
    BY <1>1
  <2>. QED
    BY <1>8, <2>1, <2>2 DEF InQueue
<1>10. \A x \in Item : ~InHand(x)'
  BY <1>2, <1>5 DEF InHand
<1>11. \A x \in Item : x[1] = c => runs[x] = 0
  BY <1>2 DEF RunsMatchPlace
<1>12. LockHeld' /\ SizesSet' /\ PrefixFinished'
  BY <1>2, <1>3, <1>4 DEF LockHeld, SizesSet, PrefixFinished, InExecute
<1>13. OnePlace'
  <2>1. \A p, q \in 1..(items[c] - 1) : <<c, p + 1>> = <<c, q + 1>> => p = q
    BY <1>1
  <2>2. \A w \in Handles : ~Busy(w)'
    BY <1>2, <1>6 DEF Busy
  <2>. QED
    BY <1>8, <2>1, <2>2 DEF OnePlace
<1>14. NoDanglingItem'
  <2>. SUFFICES ASSUME NEW x \in Item, InQueue(x)'
                PROVE  /\ Submitted(x[1])' /\ execute_lock' = x[1]
                       /\ x[2] \in 2..items'[x[1]] /\ x \notin finished'
    BY <1>10 DEF NoDanglingItem
  <2>1. x[1] = c /\ x[2] \in 2..items[c]
    BY <1>9
  <2>2. x \notin finished
    BY <1>11, <2>1 DEF RunsMatchPlace
  <2>. QED
    BY <1>2, <1>3, <1>4, <2>1, <2>2 DEF Submitted
<1>15. NoTaskLost'
  BY <1>2, <1>3, <1>4, <1>9 DEF NoTaskLost, Submitted, InExecute
<1>16. RunsMatchPlace'
  <2>1. \A x \in Item : InQueue(x)' => runs[x] = 0
    BY <1>9, <1>11
  <2>. QED
    BY <1>2, <1>3, <1>4, <1>6, <2>1 DEF RunsMatchPlace, Busy, InExecute, Item
<1>17. FirstItemRuns'
  BY <1>2, <1>4 DEF FirstItemRuns
<1>. QED
  BY <1>12, <1>13, <1>14, <1>15, <1>16, <1>17

\* The calling thread's kernel returns.
LEMMA RunFirstPreserves ==
  ASSUME ITypeOK, BatchInv, NEW c \in Callers, RunFirst(c)
  PROVE  BatchInv'
<1>. USE DEF BatchInv
<1>. DEFINE x0 == <<c, 1>>
<1>1. /\ pc \in [Callers -> {"idle"} \cup BlasPcs \cup ConfigPcs]
      /\ runs \in [Item -> Nat] /\ x0 \in Item /\ finished \subseteq Item
      /\ x0[1] = c /\ x0[2] = 1
  BY FirstItem DEF ITypeOK, TypeOK, CallerTypeOK, BatchTypeOK
<1>2. /\ pc[c] = "kernel"
      /\ pc' = [pc EXCEPT ![c] = "finish"]
      /\ runs' = [runs EXCEPT ![x0] = runs[x0] + 1]
      /\ UNCHANGED <<work_queue, execute_lock, work_item, wpc, idx, items, finished>>
  BY DEF RunFirst, Goto, workerVars, localVars
<1>3. /\ execute_lock = c
      /\ pc'[c] = "finish" /\ \A d \in Callers \ {c} : pc'[d] = pc[d]
  BY <1>1, <1>2 DEF LockHeld, InExecute
<1>4. /\ runs[x0] = 0 /\ runs'[x0] = 1
      /\ \A x \in Item \ {x0} : runs'[x] = runs[x]
  BY <1>1, <1>2 DEF FirstItemRuns
<1>5. ~InQueue(x0) /\ ~InHand(x0) /\ x0 \notin finished
  BY <1>1, <1>4 DEF NoDanglingItem, RunsMatchPlace
<1>6. \A x : (InQueue(x)' <=> InQueue(x)) /\ (InHand(x)' <=> InHand(x))
  BY <1>2 DEF InQueue, InHand
<1>7. LockHeld' /\ SizesSet' /\ PrefixFinished'
  BY <1>2, <1>3 DEF LockHeld, SizesSet, PrefixFinished, InExecute
<1>8. OnePlace'
  BY <1>2 DEF OnePlace, Busy
<1>9. NoDanglingItem' /\ NoTaskLost'
  BY <1>2, <1>3, <1>6 DEF NoDanglingItem, NoTaskLost, Submitted, Item
<1>10. RunsMatchPlace'
  <2>1. \A x \in Item : InQueue(x)' \/ execute_lock' # x[1] => runs'[x] = 0
    BY <1>1, <1>2, <1>3, <1>4, <1>5, <1>6 DEF RunsMatchPlace
  <2>2. \A x \in Item : pc'[x[1]] = "async" => runs'[x] = 0
    BY <1>1, <1>2, <1>3, <1>4 DEF RunsMatchPlace, Item
  <2>3. \A v \in Handles :
          Busy(v)' => runs'[work_item'[v]] = IF wpc'[v] = "finish" THEN 1 ELSE 0
    <3>1. \A v \in Handles : Busy(v) => work_item[v] \in Item \ {x0}
      BY <1>5 DEF ITypeOK, HandsFull, Busy, InHand
    <3>. QED
      BY <1>2, <1>4, <3>1 DEF RunsMatchPlace, Busy
  <2>4. \A x \in finished' : runs'[x] = 1
    BY <1>1, <1>2, <1>4 DEF RunsMatchPlace
  <2>. QED
    BY <2>1, <2>2, <2>3, <2>4 DEF RunsMatchPlace
<1>11. FirstItemRuns'
  <2>1. ASSUME NEW d \in Callers \ {c}
        PROVE  <<d, 1>> \in Item \ {x0}
    <3>1. <<d, 1>>[1] = d
      OBVIOUS
    <3>. QED
      BY <1>1, <3>1, FirstItem
  <2>2. \A d \in Callers \ {c} : runs'[<<d, 1>>] = runs[<<d, 1>>]
    BY <1>4, <2>1
  <2>. QED
    BY <1>3, <1>4, <2>2 DEF FirstItemRuns
<1>. QED
  BY <1>7, <1>8, <1>9, <1>10, <1>11

\* The calling thread marks its own item.
LEMMA FinishFirstPreserves ==
  ASSUME ITypeOK, BatchInv, NEW c \in Callers, FinishFirst(c)
  PROVE  BatchInv'
<1>. USE DEF BatchInv
<1>. DEFINE x0 == <<c, 1>>
<1>1. /\ pc \in [Callers -> {"idle"} \cup BlasPcs \cup ConfigPcs]
      /\ idx \in [Callers -> 0..(MaxTasks + 1)]
      /\ items[c] \in Nat /\ x0 \in Item /\ x0[1] = c /\ x0[2] = 1
  BY FirstItem, BoundsAssumption
  DEF ITypeOK, TypeOK, CallerTypeOK, BatchTypeOK
<1>2. /\ pc[c] = "finish"
      /\ finished' = finished \cup {x0}
      /\ idx' = [idx EXCEPT ![c] = 2]
      /\ pc' = [pc EXCEPT ![c] = IF items[c] > 1 THEN "join" ELSE "unlock"]
      /\ UNCHANGED <<work_queue, execute_lock, work_item, wpc, items, runs>>
  BY DEF FinishFirst, Goto, workerVars
<1>3. /\ execute_lock = c /\ idx'[c] = 2 /\ items[c] >= 1
      /\ \A d \in Callers \ {c} : pc'[d] = pc[d] /\ idx'[d] = idx[d]
      /\ \A d \in Callers \ {c} : pc[d] \notin InExecute
  BY <1>1, <1>2 DEF LockHeld, SizesSet, InExecute
<1>4. \/ pc'[c] = "join" /\ items[c] > 1
      \/ pc'[c] = "unlock" /\ items[c] = 1
  BY <1>1, <1>2, <1>3
<1>5. /\ runs[x0] = 1
      /\ ~InQueue(x0) /\ ~InHand(x0)
  BY <1>1, <1>2 DEF FirstItemRuns, NoDanglingItem
<1>6. \A x : (InQueue(x)' <=> InQueue(x)) /\ (InHand(x)' <=> InHand(x))
  BY <1>2 DEF InQueue, InHand
<1>7. LockHeld' /\ FirstItemRuns'
  BY <1>2, <1>3, <1>4 DEF LockHeld, FirstItemRuns, InExecute
<1>8. SizesSet'
  BY <1>1, <1>2, <1>3, <1>4 DEF SizesSet, InExecute
<1>9. OnePlace'
  BY <1>2 DEF OnePlace, Busy
<1>10. NoDanglingItem'
  <2>. SUFFICES ASSUME NEW x \in Item, InQueue(x) \/ InHand(x)
                PROVE  /\ Submitted(x[1])' /\ execute_lock' = x[1]
                       /\ x[2] \in 2..items'[x[1]] /\ x \notin finished'
    BY <1>6 DEF NoDanglingItem
  <2>1. x[1] = c /\ x[2] \in 2..items[c] /\ x \notin finished
    BY <1>3 DEF NoDanglingItem
  <2>2. pc'[c] = "join"
    BY <1>1, <1>4, <2>1
  <2>. QED
    BY <1>2, <1>3, <1>5, <2>1, <2>2 DEF Submitted
<1>11. NoTaskLost'
  <2>1. Submitted(c)
    BY <1>2 DEF Submitted
  <2>. QED
    BY <1>2, <1>3, <1>6, <2>1 DEF NoTaskLost, Submitted, InExecute
<1>12. RunsMatchPlace'
  <2>1. \A x \in Item : pc'[x[1]] = "async" => runs[x] = 0
    BY <1>3, <1>4 DEF RunsMatchPlace, Item
  <2>. QED
    BY <1>2, <1>5, <1>6, <2>1 DEF RunsMatchPlace, Busy
<1>13. PrefixFinished'
  <2>1. pc'[c] = "join" => \A i \in 1..(idx'[c] - 1) : <<c, i>> \in finished'
    BY <1>2, <1>3
  <2>2. pc'[c] = "unlock" => \A i \in 1..items[c] : <<c, i>> \in finished'
    BY <1>2, <1>4
  <2>. QED
    BY <1>2, <1>3, <2>1, <2>2 DEF PrefixFinished, InExecute
<1>. QED
  BY <1>7, <1>8, <1>9, <1>10, <1>11, <1>12, <1>13

\* The join passes a finished item; past the last one, no item is pending.
LEMMA JoinPreserves ==
  ASSUME ITypeOK, BatchInv, NEW c \in Callers, ExecuteJoin(c)
  PROVE  BatchInv'
<1>. USE DEF BatchInv
<1>1. /\ pc \in [Callers -> {"idle"} \cup BlasPcs \cup ConfigPcs]
      /\ idx \in [Callers -> 0..(MaxTasks + 1)]
      /\ items[c] \in Nat /\ idx[c] \in Nat
  BY BoundsAssumption DEF ITypeOK, TypeOK, CallerTypeOK, BatchTypeOK
<1>2. /\ pc[c] = "join" /\ <<c, idx[c]>> \in finished
      /\ idx' = [idx EXCEPT ![c] = idx[c] + 1]
      /\ pc' = [pc EXCEPT ![c] = IF idx[c] = items[c] THEN "unlock" ELSE "join"]
      /\ UNCHANGED <<work_queue, execute_lock, work_item, wpc, items, runs, finished>>
  BY DEF ExecuteJoin, Goto, workerVars, itemVars
<1>3. /\ execute_lock = c /\ idx'[c] = idx[c] + 1 /\ idx[c] \in 2..items[c]
      /\ \A d \in Callers \ {c} : pc'[d] = pc[d] /\ idx'[d] = idx[d]
      /\ \A d \in Callers \ {c} : pc[d] \notin InExecute
  BY <1>1, <1>2 DEF LockHeld, SizesSet, InExecute
<1>4. \/ pc'[c] = "join" /\ idx[c] # items[c]
      \/ pc'[c] = "unlock" /\ idx[c] = items[c]
  BY <1>1, <1>2
<1>5. \A i \in 1..idx[c] : <<c, i>> \in finished
  <2>1. \A i \in 1..idx[c] : i = idx[c] \/ i \in 1..(idx[c] - 1)
    BY <1>1
  <2>. QED
    BY <1>2, <2>1 DEF PrefixFinished
<1>6. \A x : (InQueue(x)' <=> InQueue(x)) /\ (InHand(x)' <=> InHand(x))
  BY <1>2 DEF InQueue, InHand
<1>7. LockHeld' /\ FirstItemRuns'
  BY <1>2, <1>3, <1>4 DEF LockHeld, FirstItemRuns, InExecute
<1>8. SizesSet'
  <2>1. pc'[c] = "join" => idx'[c] \in 2..items[c]
    BY <1>1, <1>3, <1>4
  <2>2. items[c] >= 1
    BY <1>1, <1>3
  <2>. QED
    BY <1>2, <1>3, <2>1, <2>2 DEF SizesSet, InExecute
<1>9. OnePlace'
  BY <1>2 DEF OnePlace, Busy
<1>10. NoDanglingItem'
  <2>. SUFFICES ASSUME NEW x \in Item, InQueue(x) \/ InHand(x)
                PROVE  /\ Submitted(x[1])' /\ execute_lock' = x[1]
                       /\ x[2] \in 2..items'[x[1]] /\ x \notin finished'
    BY <1>6 DEF NoDanglingItem
  <2>1. x[1] = c /\ x[2] \in 2..items[c] /\ x \notin finished
    BY <1>3 DEF NoDanglingItem
  <2>2. x = <<c, x[2]>>
    BY <2>1 DEF Item
  <2>3. pc'[c] = "join"
    BY <1>4, <1>5, <2>1, <2>2
  <2>. QED
    BY <1>2, <1>3, <2>1, <2>3 DEF Submitted
<1>11. NoTaskLost'
  <2>1. Submitted(c)
    BY <1>2 DEF Submitted
  <2>. QED
    BY <1>2, <1>3, <1>6, <2>1 DEF NoTaskLost, Submitted, InExecute
<1>12. RunsMatchPlace'
  <2>1. \A x \in Item : pc'[x[1]] = "async" => runs[x] = 0
    BY <1>3, <1>4 DEF RunsMatchPlace, Item
  <2>. QED
    BY <1>2, <1>6, <2>1 DEF RunsMatchPlace, Busy
<1>13. PrefixFinished'
  <2>1. pc'[c] = "join" => \A i \in 1..(idx'[c] - 1) : <<c, i>> \in finished'
    BY <1>1, <1>2, <1>3, <1>5
  <2>2. pc'[c] = "unlock" => \A i \in 1..items[c] : <<c, i>> \in finished'
    BY <1>2, <1>4, <1>5
  <2>. QED
    BY <1>2, <1>3, <2>1, <2>2 DEF PrefixFinished, InExecute
<1>. QED
  BY <1>7, <1>8, <1>9, <1>10, <1>11, <1>12, <1>13

\* cblas_execute returns; its items no longer exist.
LEMMA ReturnPreserves ==
  ASSUME ITypeOK, BatchInv, NEW c \in Callers, ExecuteReturn(c)
  PROVE  BatchInv'
<1>. USE DEF BatchInv
<1>1. /\ pc \in [Callers -> {"idle"} \cup BlasPcs \cup ConfigPcs]
      /\ items \in [Callers -> 0..MaxTasks]
      /\ idx \in [Callers -> 0..(MaxTasks + 1)]
      /\ finished \subseteq Item /\ Null \notin Callers
  BY ThreadsAssumption DEF ITypeOK, TypeOK, CallerTypeOK, BatchTypeOK
<1>2. /\ pc[c] = "unlock" /\ execute_lock' = Null
      /\ finished' = finished \ ItemsOf(c)
      /\ runs' = [x \in Item |-> IF x \in ItemsOf(c) THEN 0 ELSE runs[x]]
      /\ pc' = [pc EXCEPT ![c] = IF reduces[c] THEN "reduce" ELSE "idle"]
      /\ idx' = [idx EXCEPT ![c] = 0]
      /\ \A d \in Callers \ {c} : items'[d] = items[d]
      /\ UNCHANGED <<work_queue, work_item, wpc>>
  BY <1>1 DEF ExecuteReturn, Goto, workerVars
<1>3. /\ execute_lock = c /\ pc'[c] \in {"reduce", "idle"}
      /\ \A d \in Callers \ {c} : pc'[d] = pc[d] /\ pc[d] \notin InExecute
  BY <1>1, <1>2 DEF LockHeld, InExecute
<1>4. \A x \in Item : ~InQueue(x) /\ ~InHand(x)
  BY <1>2, <1>3 DEF NoDanglingItem, Submitted
<1>5. \A x \in Item : runs'[x] = 0 /\ x \notin finished'
  <2>1. \A x \in Item : x \in ItemsOf(c) <=> x[1] = c
    BY DEF ItemsOf, Item
  <2>2. \A x \in Item : x[1] # c => runs[x] = 0 /\ x \notin finished
    BY <1>3 DEF RunsMatchPlace
  <2>. QED
    BY <1>2, <2>1, <2>2
<1>6. \A w \in Handles : ~Busy(w)
  BY <1>4 DEF ITypeOK, HandsFull, Busy, InHand
<1>7. \A d \in Callers : pc'[d] \notin InExecute
  BY <1>3 DEF InExecute
<1>8. LockHeld'
  BY <1>1, <1>2, <1>7 DEF LockHeld
<1>9. SizesSet'
  BY <1>2, <1>3, <1>7 DEF SizesSet, InExecute
<1>10. OnePlace'
  BY <1>2 DEF OnePlace, Busy
<1>11. NoDanglingItem' /\ NoTaskLost'
  <2>1. \A x : (InQueue(x)' <=> InQueue(x)) /\ (InHand(x)' <=> InHand(x))
    BY <1>2 DEF InQueue, InHand
  <2>. QED
    BY <1>4, <1>7, <2>1 DEF NoDanglingItem, NoTaskLost, Submitted, InExecute
<1>12. RunsMatchPlace'
  <2>1. finished' = {}
    BY <1>1, <1>2, <1>5
  <2>. QED
    BY <1>2, <1>5, <1>6, <2>1 DEF RunsMatchPlace, Busy
<1>13. FirstItemRuns' /\ PrefixFinished'
  BY <1>7 DEF FirstItemRuns, PrefixFinished, InExecute
<1>. QED
  BY <1>8, <1>9, <1>10, <1>11, <1>12, <1>13

-------------------------------------------------------------------------------
LEMMA BatchInit == Init => BatchInv
<1>. SUFFICES ASSUME Init PROVE BatchInv
  OBVIOUS
<1>1. /\ \A c \in Callers : pc[c] = "idle"
      /\ \A w \in Handles : wpc[w] = "none"
      /\ \A x \in Item : runs[x] = 0
      /\ work_queue = <<>> /\ finished = {} /\ execute_lock = Null
  BY DEF Init
<1>2. /\ \A x : ~InQueue(x) /\ ~InHand(x)
      /\ \A w \in Handles : ~Busy(w)
      /\ \A c \in Callers : ~Submitted(c)
  BY <1>1 DEF InQueue, InHand, Busy, BusyPcs, Submitted
<1>3. LockHeld
  BY <1>1, ThreadsAssumption DEF LockHeld, InExecute
<1>4. SizesSet /\ FirstItemRuns /\ PrefixFinished
  BY <1>1 DEF SizesSet, FirstItemRuns, PrefixFinished, InExecute
<1>5. NoDanglingItem /\ NoTaskLost /\ OnePlace /\ RunsMatchPlace
  BY <1>1, <1>2 DEF NoDanglingItem, NoTaskLost, OnePlace, RunsMatchPlace
<1>. QED
  BY <1>3, <1>4, <1>5 DEF BatchInv

\* The steps that move an item; every other step is quiet.
Moving(w) == TakesHead(w) \/ WorkerKernel(w) \/ WorkerFinish(w)
MovingCall(c) ==
  \/ Execute(c) \/ ExecuteAsync(c) \/ RunFirst(c) \/ FinishFirst(c)
  \/ ExecuteJoin(c) \/ ExecuteReturn(c)

LEMMA QuietOrMoving ==
  ASSUME ITypeOK, [Next]_vars
  PROVE  \/ Quiet
         \/ \E w \in Handles : Moving(w)
         \/ \E c \in Callers : MovingCall(c)
<1>1. ASSUME NEW w \in Handles, Worker(w) \/ WorkerSpurious(w)
      PROVE  Quiet \/ Moving(w)
  <2>1. WorkerTake(w) => TakesHead(w)
    BY DEF WorkerTake, TakesHead
  <2>. QED
    BY <1>1, <2>1, QuietWorker DEF Worker, Moving
<1>2. ASSUME NEW c \in Callers, CallerStep(c)
      PROVE  Quiet \/ MovingCall(c)
  BY <1>2, QuietBlas, QuietConfig DEF CallerStep, BlasStep, MovingCall
<1>3. ASSUME NEW c \in Callers, NewCall(c)
      PROVE  Quiet
  BY <1>3, QuietConfig
<1>4. CASE UNCHANGED vars
  BY <1>4 DEF Quiet, Busy, vars, workerVars, localVars, itemVars
<1>. QED
  BY <1>1, <1>2, <1>3, <1>4 DEF Next

LEMMA BatchStep ==
  ASSUME ITypeOK, BatchInv, [Next]_vars
  PROVE  BatchInv'
<1>1. CASE Quiet
  BY <1>1, QuietPreserves
<1>2. ASSUME NEW w \in Handles, Moving(w)
      PROVE  BatchInv'
  BY <1>2, TakePreserves, KernelPreserves, FinishPreserves DEF Moving
<1>3. ASSUME NEW c \in Callers, MovingCall(c)
      PROVE  BatchInv'
  BY <1>3, ExecutePreserves, AsyncPreserves, RunFirstPreserves, FinishFirstPreserves,
     JoinPreserves, ReturnPreserves DEF MovingCall
<1>. QED
  BY <1>1, <1>2, <1>3, QuietOrMoving

THEOREM BatchInvariant == Spec => []BatchInv
<1>1. Init => ITypeOK /\ BatchInv
  BY TypeInit, BatchInit
<1>2. ITypeOK /\ BatchInv /\ [Next]_vars => (ITypeOK /\ BatchInv)'
  BY TypeStep, BatchStep
<1>. QED
  BY <1>1, <1>2, PTL DEF Spec

\* No worker holds or can reach an item whose caller has left cblas_execute:
\* the store of finished and of thread_id never hits a dead stack frame, for
\* any number of callers and workers and whatever they configure meanwhile.
THEOREM ItemsStayLive == Spec => []NoDanglingItem
<1>1. BatchInv => NoDanglingItem
  BY DEF BatchInv
<1>. QED
  BY BatchInvariant, <1>1, PTL

\* Every task of a submitted batch is in the queue, in a worker's hands or
\* finished: no exit, failed creation or shrink of the pool loses one.
THEOREM TasksStayKnown == Spec => []NoTaskLost
<1>1. BatchInv => NoTaskLost
  BY DEF BatchInv
<1>. QED
  BY BatchInvariant, <1>1, PTL

-------------------------------------------------------------------------------
(* The refinement *)

LEMMA StutterStep ==
  ASSUME execute_lock' = execute_lock, runs' = runs,
         execute_lock # Null => items'[execute_lock] = items[execute_lock]
  PROVE  UNCHANGED Batch!vars
BY DEF Batch!vars

LEMMA RefinementInit == Init => Batch!Init
BY DEF Init, Batch!Init, Batch!NothingDone

\* One more run of item j of caller o, seen as the task counts of its batch.
LEMMA RunOfTask ==
  ASSUME NEW o \in Callers, NEW j \in 1..MaxTasks,
         runs \in [Item -> Nat], runs[<<o, j>>] = 0,
         runs' = [runs EXCEPT ![<<o, j>>] = runs[<<o, j>>] + 1]
  PROVE  [i \in 1..MaxTasks |-> runs'[<<o, i>>]] =
           [[i \in 1..MaxTasks |-> runs[<<o, i>>]] EXCEPT ![j] = 1]
<1>1. \A i \in 1..MaxTasks : <<o, i>> \in Item /\ (<<o, i>> = <<o, j>> <=> i = j)
  BY DEF Item
<1>2. runs'[<<o, j>>] = 1
  BY <1>1
<1>3. \A i \in 1..MaxTasks : i # j => runs'[<<o, i>>] = runs[<<o, i>>]
  BY <1>1
<1>4. \A i \in 1..MaxTasks :
        runs'[<<o, i>>] = IF i = j THEN 1 ELSE runs[<<o, i>>]
  BY <1>2, <1>3
<1>5. [[i \in 1..MaxTasks |-> runs[<<o, i>>]] EXCEPT ![j] = 1] =
        [i \in 1..MaxTasks |-> IF i = j THEN 1 ELSE runs[<<o, i>>]]
  OBVIOUS
<1>. QED
  BY <1>4, <1>5

LEMMA QuietRefines ==
  ASSUME ITypeOK, BatchInv, Quiet
  PROVE  UNCHANGED Batch!vars
<1>1. execute_lock \in Callers \cup {Null}
  BY DEF ITypeOK, TypeOK, BatchTypeOK
<1>2. execute_lock # Null => items'[execute_lock] = items[execute_lock]
  BY <1>1 DEF BatchInv, LockHeld, Quiet, InExecute
<1>. QED
  BY <1>2, StutterStep DEF Quiet

\* A worker's steps are runs of a task, or invisible.
LEMMA WorkerRefines ==
  ASSUME ITypeOK, BatchInv, NEW w \in Handles, Moving(w)
  PROVE  [Batch!Next]_(Batch!vars)
<1>1. CASE TakesHead(w) \/ WorkerFinish(w)
  BY <1>1, StutterStep DEF TakesHead, WorkerFinish, itemVars, localVars
<1>2. CASE WorkerKernel(w)
  <2>. DEFINE x0 == work_item[w]
              o == execute_lock
  <2>1. /\ x0 \in Item /\ runs \in [Item -> Nat]
        /\ o \in Callers \cup {Null} /\ Null \notin Callers
        /\ items \in [Callers -> 0..MaxTasks]
    BY <1>2, ThreadsAssumption
    DEF ITypeOK, TypeOK, BatchTypeOK, HandsFull, WorkerKernel, BusyPcs
  <2>2. /\ Busy(w) /\ wpc[w] = "kernel" /\ InHand(x0)
        /\ runs' = [runs EXCEPT ![x0] = runs[x0] + 1]
        /\ UNCHANGED <<execute_lock, items>>
    BY <1>2 DEF WorkerKernel, Busy, InHand, BusyPcs, localVars
  <2>3. runs[x0] = 0
    BY <2>2 DEF BatchInv, RunsMatchPlace
  <2>4. o = x0[1] /\ x0[2] \in 2..items[o]
    BY <2>1, <2>2 DEF BatchInv, NoDanglingItem
  <2>5. x0[1] \in Callers /\ x0[2] \in 1..MaxTasks /\ x0 = <<o, x0[2]>>
    BY <2>1, <2>4 DEF Item
  <2>6. o # Null /\ x0[2] <= items[o]
    BY <2>1, <2>4, <2>5
  <2>7. PICK j \in 1..MaxTasks : j = x0[2]
    BY <2>5
  <2>8. o \in Callers /\ runs[<<o, j>>] = 0
        /\ runs' = [runs EXCEPT ![<<o, j>>] = runs[<<o, j>>] + 1]
    BY <2>1, <2>2, <2>3, <2>5, <2>6, <2>7
  <2>9. [i \in 1..MaxTasks |-> runs'[<<o, i>>]] =
          [[i \in 1..MaxTasks |-> runs[<<o, i>>]] EXCEPT ![j] = 1]
    BY <2>1, <2>8, RunOfTask
  <2>10. Batch!Run(j)
    BY <2>2, <2>6, <2>7, <2>8, <2>9 DEF Batch!Run
  <2>. QED
    BY <2>10 DEF Batch!Next
<1>. QED
  BY <1>1, <1>2 DEF Moving

\* A caller's steps begin a batch, run its first task, return, or are
\* invisible.
LEMMA CallerRefines ==
  ASSUME ITypeOK, BatchInv, NEW c \in Callers, MovingCall(c)
  PROVE  [Batch!Next]_(Batch!vars)
<1>. USE DEF BatchInv
<1>0. /\ Null \notin Callers /\ runs \in [Item -> Nat] /\ MaxTasks \in Nat
      /\ 1 \in 1..MaxTasks
      /\ items \in [Callers -> 0..MaxTasks] /\ finished \subseteq Item
      /\ \A d \in Callers, i \in 1..MaxTasks :
           /\ <<d, i>> \in Item /\ <<d, i>>[1] = d /\ <<d, i>>[2] = i
  BY ThreadsAssumption, BoundsAssumption
  DEF ITypeOK, TypeOK, BatchTypeOK, Item
<1>1. CASE ExecuteAsync(c) \/ FinishFirst(c) \/ ExecuteJoin(c)
  BY <1>1, StutterStep
  DEF ExecuteAsync, FinishFirst, ExecuteJoin, itemVars, localVars
<1>2. CASE Execute(c)
  <2>1. /\ execute_lock = Null /\ execute_lock' = c
        /\ UNCHANGED <<items, runs>>
        /\ pc[c] = "execute"
    BY <1>2 DEF Execute, itemVars, localVars
  <2>2. items[c] \in 1..MaxTasks
    BY <1>0, <2>1 DEF SizesSet
  <2>3. \A i \in 1..MaxTasks : runs[<<c, i>>] = 0
    BY <1>0, <2>1 DEF RunsMatchPlace
  <2>4. Batch!Begin(c, items[c])
    BY <1>0, <2>1, <2>3 DEF Batch!Begin
  <2>. QED
    BY <2>2, <2>4 DEF Batch!Next
<1>3. CASE RunFirst(c)
  <2>1. /\ pc[c] = "kernel"
        /\ runs' = [runs EXCEPT ![<<c, 1>>] = runs[<<c, 1>>] + 1]
        /\ UNCHANGED <<execute_lock, items>>
    BY <1>3 DEF RunFirst, localVars
  <2>2. /\ execute_lock = c /\ c # Null /\ items[c] >= 1 /\ runs[<<c, 1>>] = 0
    BY <1>0, <2>1 DEF LockHeld, SizesSet, FirstItemRuns, InExecute
  <2>3. [i \in 1..MaxTasks |-> runs'[<<c, i>>]] =
          [[i \in 1..MaxTasks |-> runs[<<c, i>>]] EXCEPT ![1] = 1]
    BY <1>0, <2>1, <2>2, RunOfTask
  <2>4. Batch!Run(1)
    BY <1>0, <2>1, <2>2, <2>3 DEF Batch!Run
  <2>. QED
    BY <1>0, <2>4 DEF Batch!Next
<1>4. CASE ExecuteReturn(c)
  <2>1. /\ pc[c] = "unlock" /\ execute_lock' = Null
    BY <1>4 DEF ExecuteReturn
  <2>2. execute_lock = c /\ c # Null
    BY <1>0, <2>1 DEF LockHeld, InExecute
  <2>3. items[c] \in 0..MaxTasks /\ \A i \in 1..items[c] : i \in 1..MaxTasks
    BY <1>0
  <2>4. \A i \in 1..items[c] : runs[<<c, i>>] = 1
    BY <2>1 DEF PrefixFinished, RunsMatchPlace
  <2>5. Batch!Return
    BY <2>1, <2>2, <2>3, <2>4 DEF Batch!Return, Batch!NothingDone
  <2>. QED
    BY <2>5 DEF Batch!Next
<1>. QED
  BY <1>1, <1>2, <1>3, <1>4 DEF MovingCall

\* The server implements its promise: one batch at a time, each task of it
\* run exactly once, the return only after all of them - for any number of
\* threads and callers, any batch size, and applications that break every
\* rule of use.
THEOREM Refinement == Spec => ImplementsBatch
<1>1. ITypeOK /\ BatchInv /\ [Next]_vars => [Batch!Next]_(Batch!vars)
  BY QuietOrMoving, QuietRefines, WorkerRefines, CallerRefines
<1>. QED
  BY RefinementInit, <1>1, StrongTypeCorrect, BatchInvariant, PTL
  DEF Spec, ImplementsBatch, Batch!Spec

-------------------------------------------------------------------------------
(***************************************************************************)
(* Part 3.  The pool of worker threads, under the rules of use the         *)
(* documentation asks for: which workers exist at each point of each       *)
(* configuration call, and from that, between the calls, that the workers  *)
(* are those the thread count says, that running kernels pack into         *)
(* different buffer slots, that the slots exist, and that a shutdown       *)
(* leaves no worker behind.                                                *)
(***************************************************************************)

\* The rules the argument about workers needs; the one about buffers needs all.
ServerRules == {"no_compute", "config_alone", "set_alone", "init_once"}

\* One configuration call at a time, and none during a BLAS call.
OneConfig == \A c, d \in Callers : pc[c] \in ConfigPcs /\ pc[d] \in ConfigPcs => c = d

Apart == \A c, d \in Callers : pc[c] \in ConfigPcs => pc[d] \notin BlasPcs

\* A worker's handle is in the place its number says, and only there.
Registered ==
  /\ \A w \in Handles : wpc[w] # "none" =>
       thread_num[w] \in WorkerNums /\ cblas_thread_ids[thread_num[w]] = w
  /\ \A i \in WorkerNums : cblas_thread_ids[i] \in Handles =>
       wpc[cblas_thread_ids[i]] # "none" /\ thread_num[cblas_thread_ids[i]] = i

\* A worker that has left is one the thread count no longer asks for.
ExitedExcess == \A w \in Handles : wpc[w] = "exited" => thread_num[w] > cblas_max_threads - 2

\* Exactly the workers in S exist, but for those that could not be created
\* when the pool was grown.
Staffed(S) ==
  \A i \in WorkerNums :
    IF i \in S
    THEN \/ cblas_thread_ids[i] \in Handles
         \/ "grow" \in CreateFails /\ cblas_thread_ids[i] \in {Null, Junk}
    ELSE cblas_thread_ids[i] = Null

Asked == 0..(cblas_max_threads - 2)
AskedIfAlive == IF cblas_server_alive THEN Asked ELSE {}

\* Which workers exist at each point of a configuration call.
InitStage(c) ==
  /\ pc[c] \in {"init_threads", "init_buffers", "init_server", "init_lock"} =>
       ~cblas_server_alive /\ Staffed({})
  /\ pc[c] = "init_create" =>
       /\ ~cblas_server_alive /\ idx[c] \in 0..(cblas_max_threads - 1)
       /\ Staffed(0..(idx[c] - 1))
  /\ pc[c] = "init_alive" => ~cblas_server_alive /\ Staffed(Asked)
  /\ pc[c] = "init_done" => cblas_server_alive /\ Staffed(Asked)

SetStage(c) ==
  /\ pc[c] \in {"set_shrink", "set_grow", "set_late"} => Staffed(AskedIfAlive)
  /\ pc[c] \in {"shrink_lock", "shrink_signal"} =>
       cblas_server_alive /\ threads[c] < cblas_max_threads /\ Staffed(Asked)
  /\ pc[c] = "shrink_signal" => thread_count[c] = cblas_max_threads
  /\ pc[c] = "shrink_join" =>
       /\ cblas_server_alive /\ idx[c] >= cblas_max_threads - 1
       /\ Staffed(Asked \cup idx[c]..(thread_count[c] - 2))
  /\ pc[c] = "grow_lock" =>
       cblas_server_alive /\ threads[c] > cblas_max_threads /\ Staffed(Asked)
  /\ pc[c] = "grow_create" =>
       /\ cblas_server_alive /\ cblas_max_threads = threads[c]
       /\ idx[c] \in 0..(cblas_max_threads - 1)
       /\ Staffed(0..(idx[c] - 1))

ShutStage(c) ==
  /\ pc[c] = "shut_dead" => cblas_server_alive /\ Staffed(Asked)
  /\ pc[c] \in {"shut_lock", "shut_signal"} => ~cblas_server_alive /\ Staffed(Asked)
  /\ pc[c] = "shut_signal" => thread_count[c] = cblas_max_threads
  /\ pc[c] = "shut_join" =>
       /\ ~cblas_server_alive /\ cblas_max_threads = 1
       /\ Staffed(idx[c]..(thread_count[c] - 2))
  /\ pc[c] = "shut_clean" => ~cblas_server_alive /\ Staffed({})

Stage(c) == InitStage(c) /\ SetStage(c) /\ ShutStage(c)

PoolInv ==
  /\ OneConfig /\ Apart /\ Registered /\ ExitedExcess
  /\ NoConfigCall => Staffed(AskedIfAlive)
  /\ \A c \in Callers : Stage(c)

\* The pool of packing buffers has a slot for each thread.
Backed == cblas_max_threads <= gemm_buffers_count

BuffersInv ==
  /\ NoConfigCall /\ inited => Backed
  /\ \A c \in Callers :
       /\ pc[c] \in InitPcs \ {"init_threads", "init_buffers"} => Backed
       /\ pc[c] \in SetPcs /\ inited => cblas_server_alive /\ Backed
       /\ pc[c] \in ShutdownPcs => ~inited
       /\ pc[c] \in BlasPcs => inited

\* A running kernel was given the slot of the thread that runs it.
SlotsInv ==
  /\ \A w \in Handles : wpc[w] = "kernel" => thread_id[work_item[w]] = thread_num[w]
  /\ \A c \in Callers : pc[c] = "kernel" => thread_id[<<c, 1>>] = CallerSlot

\* A reducing batch has a task for each thread.
ReducesInv ==
  \A c \in Callers :
    /\ pc[c] \in BlasPcs \ {"partition"} /\ reduces[c] => items[c] = cblas_max_threads
    /\ pc[c] = "reduce" => reduces[c]

-------------------------------------------------------------------------------
(* Steps aside *)

\* Steps that neither create nor join a worker nor change the count: those of
\* the workers, of BLAS calls, and the start of one.
Aside ==
  /\ UNCHANGED <<cblas_max_threads, cblas_server_alive, cblas_thread_ids, thread_num>>
  /\ \A w \in Handles :
       /\ wpc'[w] = "none" <=> wpc[w] = "none"
       /\ wpc'[w] = "exited" => wpc[w] = "exited" \/ thread_num[w] > cblas_max_threads - 2
  /\ \A c \in Callers :
       \/ UNCHANGED <<pc[c], idx[c], threads[c], thread_count[c]>>
       \/ /\ pc[c] \notin ConfigPcs /\ pc'[c] \notin ConfigPcs
          /\ pc'[c] \in BlasPcs => pc[c] \in BlasPcs \/ NoConfigCall

LEMMA AsidePreserves ==
  ASSUME PoolInv, Aside
  PROVE  PoolInv'
<1>. USE DEF PoolInv
<1>1. UNCHANGED <<cblas_max_threads, cblas_server_alive, cblas_thread_ids, thread_num>>
  BY DEF Aside
<1>2. \A c \in Callers : pc'[c] \in ConfigPcs <=> pc[c] \in ConfigPcs
  BY DEF Aside
<1>3. OneConfig' /\ (NoConfigCall' <=> NoConfigCall)
  BY <1>2 DEF OneConfig, NoConfigCall
<1>4. Apart'
  BY <1>2 DEF Apart, Aside, NoConfigCall
<1>5. Registered' /\ ExitedExcess'
  BY <1>1 DEF Registered, ExitedExcess, Aside
<1>6. \A S : Staffed(S)' <=> Staffed(S)
  BY <1>1 DEF Staffed
<1>7. NoConfigCall' => Staffed(AskedIfAlive)'
  BY <1>1, <1>3, <1>6 DEF AskedIfAlive, Asked, Staffed
<1>8. ASSUME NEW c \in Callers PROVE Stage(c)'
  <2>1. CASE pc[c] \notin ConfigPcs
    <3>1. pc'[c] \notin ConfigPcs
      BY <1>2, <2>1
    <3>. QED
      BY <3>1 DEF Stage, InitStage, SetStage, ShutStage, ConfigPcs, InitPcs, SetPcs, ShutdownPcs
  <2>2. CASE pc[c] \in ConfigPcs
    <3>1. UNCHANGED <<pc[c], idx[c], threads[c], thread_count[c]>>
      BY <2>2 DEF Aside
    <3>2. Stage(c)
      OBVIOUS
    <3>3. InitStage(c)'
      BY <1>1, <3>1, <3>2 DEF Stage, InitStage, Asked, Staffed
    <3>4. SetStage(c)'
      BY <1>1, <3>1, <3>2 DEF Stage, SetStage, Asked, AskedIfAlive, Staffed
    <3>5. ShutStage(c)'
      BY <1>1, <3>1, <3>2 DEF Stage, ShutStage, Asked, Staffed
    <3>. QED
      BY <3>3, <3>4, <3>5 DEF Stage
  <2>. QED
    BY <2>1, <2>2
<1>. QED
  BY <1>3, <1>4, <1>5, <1>7, <1>8

LEMMA AsideWorker ==
  ASSUME ITypeOK, NEW w \in Handles, Worker(w) \/ WorkerSpurious(w)
  PROVE  Aside
<1>. USE DEF Aside, configVars, localVars, itemVars, workerVars, ITypeOK, TypeOK,
         WorkerTypeOK, WGoto
<1>1. CASE WorkerLock(w)
  BY <1>1 DEF WorkerLock
<1>2. CASE WorkerCheck(w)
  BY <1>2 DEF WorkerCheck
<1>3. CASE WorkerPark(w)
  BY <1>3 DEF WorkerPark
<1>4. CASE WorkerSpurious(w)
  BY <1>4 DEF WorkerSpurious
<1>5. CASE WorkerExit(w)
  BY <1>5 DEF WorkerExit
<1>6. CASE WorkerTake(w)
  BY <1>6 DEF WorkerTake
<1>7. CASE WorkerRetry(w)
  BY <1>7 DEF WorkerRetry
<1>8. CASE WorkerBegin(w)
  BY <1>8 DEF WorkerBegin
<1>9. CASE WorkerKernel(w)
  BY <1>9 DEF WorkerKernel
<1>10. CASE WorkerFinish(w)
  BY <1>10 DEF WorkerFinish
<1>. QED
  BY <1>1, <1>2, <1>3, <1>4, <1>5, <1>6, <1>7, <1>8, <1>9, <1>10 DEF Worker

LEMMA AsideBlas ==
  ASSUME ITypeOK, Keeps("no_compute"), NEW c \in Callers, BlasStep(c) \/ CallBlas(c)
  PROVE  Aside
<1>. USE DEF Aside, configVars, localVars, itemVars, workerVars, ITypeOK, TypeOK,
         WorkerTypeOK, CallerTypeOK, Goto
<1>. USE DEF ConfigPcs, InitPcs, SetPcs, ShutdownPcs, BlasPcs
<1>1. CASE Partition(c)
  BY <1>1 DEF Partition
<1>2. CASE Execute(c)
  BY <1>2 DEF Execute
<1>3. CASE ExecuteAsync(c)
  BY <1>3 DEF ExecuteAsync
<1>4. CASE AsyncBroadcast(c)
  BY <1>4 DEF AsyncBroadcast, Broadcast
<1>5. CASE BeginFirst(c)
  BY <1>5 DEF BeginFirst
<1>6. CASE RunFirst(c)
  BY <1>6 DEF RunFirst
<1>7. CASE FinishFirst(c)
  BY <1>7 DEF FinishFirst
<1>8. CASE ExecuteJoin(c)
  BY <1>8 DEF ExecuteJoin
<1>9. CASE ExecuteReturn(c)
  BY <1>9 DEF ExecuteReturn
<1>10. CASE Reduce(c)
  BY <1>10 DEF Reduce
<1>11. CASE CallBlas(c)
  BY <1>11 DEF CallBlas
<1>. QED
  BY <1>1, <1>2, <1>3, <1>4, <1>5, <1>6, <1>7, <1>8, <1>9, <1>10, <1>11 DEF BlasStep

-------------------------------------------------------------------------------
(* Configuration calls *)

Alone(c) == \A d \in Callers \ {c} : pc[d] \notin ConfigPcs \cup BlasPcs

LEMMA ConfigAlone ==
  ASSUME PoolInv, NEW c \in Callers, pc[c] \in ConfigPcs
  PROVE  Alone(c)
BY DEF PoolInv, OneConfig, Apart, Alone

\* What a step of the only configuration call has to show.
LEMMA AlonePreserves ==
  ASSUME PoolInv, NEW c \in Callers, Alone(c),
         \A d \in Callers \ {c} : pc'[d] = pc[d],
         pc'[c] \in ConfigPcs \cup {"idle"},
         Registered', ExitedExcess',
         pc'[c] = "idle" => Staffed(AskedIfAlive)',
         Stage(c)'
  PROVE  PoolInv'
<1>1. \A d \in Callers \ {c} : pc'[d] \notin ConfigPcs \cup BlasPcs
  BY DEF Alone
<1>2. pc'[c] \notin BlasPcs
  BY DEF ConfigPcs, InitPcs, SetPcs, ShutdownPcs, BlasPcs
<1>3. OneConfig' /\ Apart'
  BY <1>1, <1>2 DEF OneConfig, Apart
<1>4. NoConfigCall' => Staffed(AskedIfAlive)'
  BY DEF NoConfigCall
<1>5. ASSUME NEW d \in Callers \ {c} PROVE Stage(d)'
  BY <1>1 DEF Stage, InitStage, SetStage, ShutStage, ConfigPcs, InitPcs, SetPcs, ShutdownPcs
<1>. QED
  BY <1>3, <1>4, <1>5 DEF PoolInv

\* Without a change of the workers, a handle stays with its number.
LEMMA RegisteredKept ==
  ASSUME Registered, UNCHANGED <<cblas_thread_ids, thread_num>>,
         \A w \in Handles : wpc'[w] = "none" <=> wpc[w] = "none"
  PROVE  Registered'
BY DEF Registered

\* Asking for fewer threads, those that left are in excess all the more.
LEMMA FewerKeepsExited ==
  ASSUME ITypeOK, ExitedExcess, UNCHANGED thread_num,
         cblas_max_threads' \in Int, cblas_max_threads' <= cblas_max_threads,
         \A w \in Handles : wpc'[w] = "exited" => wpc[w] = "exited"
  PROVE  ExitedExcess'
<1>1. \A w \in Handles : thread_num[w] \in Int
  BY DEF ITypeOK, TypeOK, WorkerTypeOK, WorkerNums
<1>2. cblas_max_threads \in Int
  BY DEF ITypeOK, TypeOK, ConfigTypeOK
<1>. QED
  BY <1>1, <1>2 DEF ExitedExcess

\* Creating worker i, where there is none.
LEMMA CreateKeepsRegistered ==
  ASSUME ITypeOK, Registered, ExitedExcess, NEW i \in WorkerNums,
         cblas_thread_ids[i] \notin Handles, CreateThread(i)
  PROVE  /\ Registered' /\ cblas_thread_ids'[i] \in Handles
         /\ \A j \in WorkerNums \ {i} : cblas_thread_ids'[j] = cblas_thread_ids[j]
         /\ \A w \in Handles : wpc'[w] = "exited" =>
              wpc[w] = "exited" /\ thread_num'[w] = thread_num[w]
BY DEF CreateThread, WGoto, Registered, ITypeOK, TypeOK, ConfigTypeOK, WorkerTypeOK

LEMMA InitPool ==
  ASSUME ITypeOK, PoolInv, NEW c \in Callers, InitStep(c)
  PROVE  PoolInv'
<1>. USE DEF ITypeOK, TypeOK, ConfigTypeOK, WorkerTypeOK, CallerTypeOK, Goto
<1>1. pc[c] \in InitPcs
  BY DEF InitStep, InitThreads, InitBuffers, InitServer, InitLock, InitCreate,
         InitCreateFails, InitAlive, InitDone, InitPcs
<1>2. Alone(c)
  BY <1>1, ConfigAlone DEF ConfigPcs
<1>3. Stage(c) /\ Registered /\ ExitedExcess
  BY DEF PoolInv
<1>4. /\ Registered' /\ ExitedExcess' /\ Stage(c)'
      /\ pc'[c] = "idle" => Staffed(AskedIfAlive)'
      /\ pc'[c] \in ConfigPcs \cup {"idle"}
      /\ \A d \in Callers \ {c} : pc'[d] = pc[d]
  <2>. USE DEF ConfigPcs, InitPcs
  <2>1. CASE InitThreads(c)
    <3>1. \A w \in Handles : wpc[w] = "none"
      BY <1>3, <2>1, ThreadsAssumption DEF InitThreads, Stage, InitStage, Staffed, Registered
    <3>2. Registered' /\ ExitedExcess'
      BY <1>3, <2>1, <3>1 DEF InitThreads, workerVars, Registered, ExitedExcess
    <3>. QED
      BY <1>3, <2>1, <3>2 DEF InitThreads, Stage, InitStage, SetStage, ShutStage, Staffed
  <2>2. CASE InitBuffers(c)
    <3>1. Registered' /\ ExitedExcess'
      BY <1>3, <2>2 DEF InitBuffers, workerVars, Registered, ExitedExcess
    <3>. QED
      BY <1>3, <2>2, <3>1 DEF InitBuffers, Stage, InitStage, SetStage, ShutStage, Staffed
  <2>3. CASE InitServer(c)
    <3>1. Registered' /\ ExitedExcess'
      BY <1>3, <2>3 DEF InitServer, workerVars, Registered, ExitedExcess
    <3>. QED
      BY <1>3, <2>3, <3>1
      DEF InitServer, Stage, InitStage, SetStage, ShutStage, Staffed, AskedIfAlive
  <2>4. CASE InitLock(c)
    <3>1. Registered' /\ ExitedExcess'
      BY <1>3, <2>4 DEF InitLock, workerVars, Registered, ExitedExcess
    <3>. QED
      BY <1>3, <2>4, <3>1 DEF InitLock, Stage, InitStage, SetStage, ShutStage, Staffed
  <2>5. CASE InitCreate(c)
    <3>1. /\ pc[c] = "init_create" /\ ~cblas_server_alive
          /\ idx[c] \in 0..(cblas_max_threads - 1) /\ Staffed(0..(idx[c] - 1))
      BY <1>3, <2>5 DEF InitCreate, Stage, InitStage
    <3>2. idx[c] \in WorkerNums /\ idx[c] < cblas_max_threads - 1 /\ cblas_thread_ids[idx[c]] = Null
      BY <2>5, <3>1, BoundsAssumption DEF InitCreate, WorkerNums, Staffed
    <3>3. /\ Registered' /\ cblas_thread_ids'[idx[c]] \in Handles
          /\ \A j \in WorkerNums \ {idx[c]} : cblas_thread_ids'[j] = cblas_thread_ids[j]
          /\ \A w \in Handles : wpc'[w] = "exited" =>
               wpc[w] = "exited" /\ thread_num'[w] = thread_num[w]
      BY <1>3, <2>5, <3>2, CreateKeepsRegistered, ThreadsAssumption DEF InitCreate
    <3>4. /\ idx' = [idx EXCEPT ![c] = idx[c] + 1]
          /\ UNCHANGED <<cblas_max_threads, cblas_server_alive, pc>>
      BY <2>5 DEF InitCreate
    <3>5. ExitedExcess'
      BY <1>3, <3>3, <3>4 DEF ExitedExcess
    <3>6. Staffed(0..(idx[c] - 1))' /\ idx'[c] \in 0..(cblas_max_threads' - 1)
      BY <3>1, <3>2, <3>3, <3>4, BoundsAssumption DEF Staffed, WorkerNums
    <3>7. Stage(c)'
      BY <3>1, <3>4, <3>6 DEF Stage, InitStage, SetStage, ShutStage, Staffed
    <3>. QED
      BY <3>1, <3>3, <3>4, <3>5, <3>7
  <2>6. CASE InitCreateFails(c)
    <3>1. /\ pc[c] = "init_create" /\ ~cblas_server_alive
          /\ idx[c] \in 0..(cblas_max_threads - 1) /\ Staffed(0..(idx[c] - 1))
      BY <1>3, <2>6 DEF InitCreateFails, Stage, InitStage
    <3>2. idx[c] \in WorkerNums /\ idx[c] < cblas_max_threads - 1 /\ cblas_thread_ids[idx[c]] = Null
      BY <2>6, <3>1, BoundsAssumption DEF InitCreateFails, WorkerNums, Staffed
    <3>3. cblas_thread_ids' = cblas_thread_ids
      BY <2>6, <3>2 DEF InitCreateFails
    <3>4. Registered'
      BY <1>3, <2>6, <3>3, RegisteredKept DEF InitCreateFails, workerVars
    <3>5. ExitedExcess'
      <4>1. cblas_max_threads' \in Int /\ cblas_max_threads' <= cblas_max_threads
        BY <2>6, <3>1, <3>2 DEF InitCreateFails
      <4>. QED
        BY <1>3, <2>6, <4>1, FewerKeepsExited DEF InitCreateFails, workerVars
    <3>. QED
      BY <2>6, <3>1, <3>2, <3>3, <3>4, <3>5
      DEF InitCreateFails, Stage, InitStage, SetStage, ShutStage, Staffed, Asked
  <2>7. CASE InitAlive(c)
    <3>1. Registered' /\ ExitedExcess'
      BY <1>3, <2>7 DEF InitAlive, workerVars, Registered, ExitedExcess
    <3>. QED
      BY <1>3, <2>7, <3>1 DEF InitAlive, Stage, InitStage, SetStage, ShutStage, Staffed, Asked
  <2>8. CASE InitDone(c)
    <3>1. Registered' /\ ExitedExcess'
      BY <1>3, <2>8 DEF InitDone, workerVars, Registered, ExitedExcess
    <3>. QED
      BY <1>3, <2>8, <3>1
      DEF InitDone, Stage, InitStage, SetStage, ShutStage, Staffed, Asked, AskedIfAlive
  <2>. QED
    BY <2>1, <2>2, <2>3, <2>4, <2>5, <2>6, <2>7, <2>8 DEF InitStep
<1>. QED
  BY <1>2, <1>4, AlonePreserves

LEMMA SetPool ==
  ASSUME ITypeOK, PoolInv, NEW c \in Callers, SetStep(c)
  PROVE  PoolInv'
<1>. USE DEF ITypeOK, TypeOK, ConfigTypeOK, WorkerTypeOK, CallerTypeOK, Goto
<1>1. pc[c] \in SetPcs
  BY DEF SetStep, SetShrink, ShrinkLock, ShrinkSignal, ShrinkDone, SetGrow, GrowLock,
         GrowCreate, GrowCreateFails, GrowDone, SetLate, SetPcs
<1>2. Alone(c)
  BY <1>1, ConfigAlone DEF ConfigPcs
<1>3. Stage(c) /\ Registered /\ ExitedExcess
  BY DEF PoolInv
<1>4. /\ Registered' /\ ExitedExcess' /\ Stage(c)'
      /\ pc'[c] = "idle" => Staffed(AskedIfAlive)'
      /\ pc'[c] \in ConfigPcs \cup {"idle"}
      /\ \A d \in Callers \ {c} : pc'[d] = pc[d]
  <2>. USE DEF ConfigPcs, SetPcs
  <2>1. CASE SetShrink(c)
    <3>1. Registered' /\ ExitedExcess'
      BY <1>3, <2>1 DEF SetShrink, workerVars, configVars, Registered, ExitedExcess
    <3>. QED
      BY <1>3, <2>1, <3>1
      DEF SetShrink, configVars, localVars, Stage, InitStage, SetStage, ShutStage, Staffed,
          Asked, AskedIfAlive
  <2>2. CASE ShrinkLock(c)
    <3>1. Registered' /\ ExitedExcess'
      BY <1>3, <2>2 DEF ShrinkLock, workerVars, Registered, ExitedExcess
    <3>. QED
      BY <1>3, <2>2, <3>1
      DEF ShrinkLock, Stage, InitStage, SetStage, ShutStage, Staffed, Asked
  <2>3. CASE ShrinkSignal(c)
    <3>1. /\ pc[c] = "shrink_signal" /\ cblas_server_alive /\ threads[c] < cblas_max_threads
          /\ Staffed(Asked) /\ thread_count[c] = cblas_max_threads
      BY <1>3, <2>3 DEF ShrinkSignal, Stage, SetStage
    <3>2. threads[c] \in Int /\ threads[c] >= 1 /\ cblas_max_threads \in Int
      BY <1>1, BoundsAssumption DEF LocalsSet
    <3>3. \A w \in Handles : (wpc'[w] = "none" <=> wpc[w] = "none")
                             /\ (wpc'[w] = "exited" => wpc[w] = "exited")
      BY <2>3 DEF ShrinkSignal, Broadcast
    <3>4. Registered'
      BY <1>3, <2>3, <3>3, RegisteredKept DEF ShrinkSignal
    <3>5. ExitedExcess'
      BY <1>3, <2>3, <3>1, <3>2, <3>3, FewerKeepsExited DEF ShrinkSignal
    <3>6. /\ cblas_max_threads' = threads[c] /\ idx'[c] = threads[c] - 1 /\ pc'[c] = "shrink_join"
          /\ UNCHANGED <<cblas_server_alive, cblas_thread_ids, thread_count, threads>>
      BY <2>3 DEF ShrinkSignal
    <3>7. Staffed(Asked \cup idx[c]..(thread_count[c] - 2))'
      BY <3>1, <3>2, <3>6 DEF Staffed, Asked, WorkerNums
    <3>8. Stage(c)'
      BY <3>1, <3>2, <3>6, <3>7 DEF Stage, InitStage, SetStage, ShutStage
    <3>. QED
      BY <2>3, <3>4, <3>5, <3>6, <3>8 DEF ShrinkSignal
  <2>4. CASE ShrinkDone(c)
    <3>1. Registered' /\ ExitedExcess'
      BY <1>3, <2>4 DEF ShrinkDone, workerVars, Registered, ExitedExcess
    <3>2. /\ pc[c] = "shrink_join" /\ cblas_server_alive
          /\ Staffed(Asked \cup idx[c]..(thread_count[c] - 2))
          /\ idx[c] >= thread_count[c] - 1
      BY <1>3, <2>4 DEF ShrinkDone, Stage, SetStage
    <3>3. Staffed(Asked)
      BY <3>2, BoundsAssumption DEF Staffed, WorkerNums
    <3>. QED
      BY <2>4, <3>1, <3>2, <3>3
      DEF ShrinkDone, Stage, InitStage, SetStage, ShutStage, Staffed, Asked, AskedIfAlive
  <2>5. CASE SetGrow(c)
    <3>1. Registered' /\ ExitedExcess'
      BY <1>3, <2>5 DEF SetGrow, workerVars, configVars, Registered, ExitedExcess
    <3>. QED
      BY <1>3, <2>5, <3>1
      DEF SetGrow, configVars, localVars, Stage, InitStage, SetStage, ShutStage, Staffed,
          Asked, AskedIfAlive
  <2>6. CASE GrowLock(c)
    <3>1. /\ pc[c] = "grow_lock" /\ cblas_server_alive /\ threads[c] > cblas_max_threads
          /\ Staffed(Asked)
      BY <1>3, <2>6 DEF GrowLock, Stage, SetStage
    <3>2. threads[c] \in Int /\ cblas_max_threads \in Int /\ cblas_max_threads >= 1
      BY BoundsAssumption
    <3>3. Registered'
      BY <1>3, <2>6, RegisteredKept DEF GrowLock, workerVars
    <3>4. \A w \in Handles : wpc[w] # "exited"
      <4>1. ASSUME NEW w \in Handles, wpc[w] = "exited"
            PROVE  FALSE
        <5>1. /\ thread_num[w] \in WorkerNums /\ cblas_thread_ids[thread_num[w]] = w
              /\ thread_num[w] > cblas_max_threads - 2
          BY <1>3, <4>1 DEF Registered, ExitedExcess
        <5>2. thread_num[w] \notin Asked
          BY <3>2, <5>1 DEF Asked, WorkerNums
        <5>3. cblas_thread_ids[thread_num[w]] = Null
          BY <3>1, <5>1, <5>2 DEF Staffed
        <5>. QED
          BY <5>1, <5>3, ThreadsAssumption
      <4>. QED
        BY <4>1
    <3>5. ExitedExcess'
      BY <2>6, <3>4 DEF GrowLock, workerVars, ExitedExcess
    <3>6. /\ cblas_max_threads' = threads[c] /\ idx'[c] = cblas_max_threads - 1
          /\ pc'[c] = "grow_create"
          /\ UNCHANGED <<cblas_server_alive, cblas_thread_ids, threads>>
      BY <2>6, <3>2 DEF GrowLock, GrowStart
    <3>7. Staffed(0..(idx[c] - 1))' /\ idx'[c] \in 0..(cblas_max_threads' - 1)
      BY <3>1, <3>2, <3>6 DEF Staffed, Asked
    <3>8. Stage(c)'
      BY <3>1, <3>6, <3>7 DEF Stage, InitStage, SetStage, ShutStage
    <3>. QED
      BY <2>6, <3>3, <3>5, <3>6, <3>8 DEF GrowLock
  <2>7. CASE GrowCreate(c) \/ GrowCreateFails(c)
    <3>1. /\ pc[c] = "grow_create" /\ cblas_server_alive /\ cblas_max_threads = threads[c]
          /\ idx[c] \in 0..(cblas_max_threads - 1) /\ Staffed(0..(idx[c] - 1))
      BY <1>3, <2>7 DEF GrowCreate, GrowCreateFails, Stage, SetStage
    <3>2. /\ idx[c] \in WorkerNums /\ idx[c] < cblas_max_threads - 1
          /\ cblas_thread_ids[idx[c]] = Null
      <4>1. idx[c] < cblas_max_threads - 1
        BY <2>7, <3>1 DEF GrowCreate, GrowCreateFails
      <4>2. idx[c] \in WorkerNums
        BY <3>1, <4>1, BoundsAssumption DEF WorkerNums
      <4>. QED
        BY <3>1, <4>1, <4>2 DEF Staffed
    <3>3. /\ idx' = [idx EXCEPT ![c] = idx[c] + 1]
          /\ UNCHANGED <<cblas_max_threads, cblas_server_alive, pc, threads>>
      BY <2>7 DEF GrowCreate, GrowCreateFails
    <3>4. /\ Registered' /\ ExitedExcess'
          /\ \/ cblas_thread_ids'[idx[c]] \in Handles
             \/ "grow" \in CreateFails /\ cblas_thread_ids'[idx[c]] \in {Null, Junk}
          /\ \A j \in WorkerNums \ {idx[c]} : cblas_thread_ids'[j] = cblas_thread_ids[j]
      <4>1. CASE GrowCreate(c)
        <5>1. /\ Registered' /\ cblas_thread_ids'[idx[c]] \in Handles
              /\ \A j \in WorkerNums \ {idx[c]} : cblas_thread_ids'[j] = cblas_thread_ids[j]
              /\ \A w \in Handles : wpc'[w] = "exited" =>
                   wpc[w] = "exited" /\ thread_num'[w] = thread_num[w]
          BY <1>3, <4>1, <3>2, CreateKeepsRegistered, ThreadsAssumption DEF GrowCreate
        <5>2. ExitedExcess'
          BY <1>3, <3>3, <5>1 DEF ExitedExcess
        <5>. QED
          BY <5>1, <5>2
      <4>2. CASE GrowCreateFails(c)
        <5>1. PICK h \in {Null, Junk} : cblas_thread_ids' = [cblas_thread_ids EXCEPT ![idx[c]] = h]
          BY <4>2, <3>2 DEF GrowCreateFails
        <5>2. /\ cblas_thread_ids'[idx[c]] = h
              /\ \A j \in WorkerNums \ {idx[c]} : cblas_thread_ids'[j] = cblas_thread_ids[j]
          BY <5>1, <3>2
        <5>3. Registered'
          BY <1>3, <4>2, <3>2, <5>2, ThreadsAssumption DEF GrowCreateFails, workerVars, Registered
        <5>4. ExitedExcess'
          BY <1>3, <4>2 DEF GrowCreateFails, workerVars, ExitedExcess
        <5>. QED
          BY <4>2, <5>2, <5>3, <5>4 DEF GrowCreateFails
      <4>. QED
        BY <2>7, <4>1, <4>2
    <3>6. Staffed(0..(idx[c] - 1))' /\ idx'[c] \in 0..(cblas_max_threads' - 1)
      BY <3>1, <3>2, <3>3, <3>4, BoundsAssumption DEF Staffed, WorkerNums
    <3>7. Stage(c)'
      BY <3>1, <3>3, <3>6 DEF Stage, InitStage, SetStage, ShutStage
    <3>. QED
      BY <3>1, <3>3, <3>4, <3>7
  <2>8. CASE GrowDone(c)
    <3>1. Registered' /\ ExitedExcess'
      BY <1>3, <2>8 DEF GrowDone, workerVars, Registered, ExitedExcess
    <3>2. /\ pc[c] = "grow_create" /\ cblas_server_alive /\ cblas_max_threads = threads[c]
          /\ idx[c] \in 0..(cblas_max_threads - 1) /\ Staffed(0..(idx[c] - 1))
          /\ idx[c] = cblas_max_threads - 1
      BY <1>3, <2>8, BoundsAssumption DEF GrowDone, Stage, SetStage
    <3>3. Staffed(Asked)
      BY <3>2 DEF Staffed, Asked
    <3>. QED
      BY <2>8, <3>1, <3>2, <3>3
      DEF GrowDone, Stage, InitStage, SetStage, ShutStage, Staffed, Asked, AskedIfAlive
  <2>9. CASE SetLate(c)
    <3>1. pc[c] = "set_late" /\ Staffed(AskedIfAlive)
      BY <1>3, <2>9 DEF SetLate, Stage, SetStage
    <3>2. Registered'
      BY <1>3, <2>9, RegisteredKept DEF SetLate, workerVars
    <3>3. ExitedExcess'
      <4>1. CASE cblas_server_alive
        BY <1>3, <2>9, <4>1 DEF SetLate, workerVars, ExitedExcess
      <4>2. CASE ~cblas_server_alive
        <5>1. \A w \in Handles : wpc[w] = "none"
          BY <1>3, <3>1, <4>2, ThreadsAssumption DEF AskedIfAlive, Staffed, Registered
        <5>. QED
          BY <2>9, <5>1 DEF SetLate, workerVars, ExitedExcess
      <4>. QED
        BY <4>1, <4>2
    <3>4. Staffed(AskedIfAlive)'
      BY <2>9, <3>1 DEF SetLate, Staffed, AskedIfAlive, Asked
    <3>5. Stage(c)'
      BY <2>9 DEF SetLate, Stage, InitStage, SetStage, ShutStage
    <3>. QED
      BY <2>9, <3>2, <3>3, <3>4, <3>5 DEF SetLate
  <2>. QED
    BY <2>1, <2>2, <2>3, <2>4, <2>5, <2>6, <2>7, <2>8, <2>9 DEF SetStep
<1>. QED
  BY <1>2, <1>4, AlonePreserves

\* A turn of the join loop: the worker's place becomes empty, and the worker
\* was the one in that place.
LEMMA JoinPool ==
  ASSUME ITypeOK, PoolInv, NEW c \in Callers, JoinWorker(c)
  PROVE  PoolInv'
<1>. USE DEF ITypeOK, TypeOK, ConfigTypeOK, WorkerTypeOK, CallerTypeOK
<1>1. /\ pc[c] \in {"shrink_join", "shut_join"} /\ idx[c] < thread_count[c] - 1
      /\ idx' = [idx EXCEPT ![c] = idx[c] + 1]
      /\ UNCHANGED <<cblas_max_threads, cblas_server_alive, pc, threads, thread_count, thread_num>>
  BY DEF JoinWorker
<1>2. Alone(c) /\ pc[c] \in ConfigPcs
  BY <1>1, ConfigAlone DEF ConfigPcs, SetPcs, ShutdownPcs
<1>3. Stage(c) /\ Registered /\ ExitedExcess
  BY DEF PoolInv
<1>4. idx[c] \in WorkerNums /\ idx[c] + 1 \in 1..MAX_THREADS
  BY <1>1, LoopBounds
<1>5. /\ cblas_thread_ids'[idx[c]] = Null
      /\ \A j \in WorkerNums \ {idx[c]} : cblas_thread_ids'[j] = cblas_thread_ids[j]
      /\ Registered' /\ ExitedExcess'
  <2>1. CASE cblas_thread_ids[idx[c]] = Null
    <3>1. UNCHANGED <<wpc, cblas_thread_ids>>
      BY <2>1, ThreadsAssumption DEF JoinWorker
    <3>. QED
      BY <1>1, <1>3, <2>1, <3>1 DEF Registered, ExitedExcess
  <2>2. CASE cblas_thread_ids[idx[c]] # Null
    <3>1. PICK h \in Handles : h = cblas_thread_ids[idx[c]]
      BY <2>2 DEF JoinWorker
    <3>2. /\ wpc' = [wpc EXCEPT ![h] = "none"]
          /\ cblas_thread_ids' = [cblas_thread_ids EXCEPT ![idx[c]] = Null]
      BY <2>2, <3>1 DEF JoinWorker, WGoto
    <3>3. thread_num[h] = idx[c]
      BY <1>3, <1>4, <3>1 DEF Registered
    <3>4. Registered'
      BY <1>1, <1>3, <1>4, <3>1, <3>2, <3>3, ThreadsAssumption DEF Registered
    <3>5. ExitedExcess'
      BY <1>1, <1>3, <3>2 DEF ExitedExcess
    <3>. QED
      BY <1>4, <3>2, <3>4, <3>5
  <2>. QED
    BY <2>1, <2>2
<1>6. Stage(c)'
  <2>1. CASE pc[c] = "shrink_join"
    <3>1. /\ cblas_server_alive /\ idx[c] >= cblas_max_threads - 1
          /\ Staffed(Asked \cup idx[c]..(thread_count[c] - 2))
      BY <1>3, <2>1 DEF Stage, SetStage
    <3>2. idx'[c] = idx[c] + 1 /\ idx[c] \in Int /\ cblas_max_threads \in Int
      BY <1>1, <1>4 DEF WorkerNums
    <3>3. Staffed(Asked \cup idx[c]..(thread_count[c] - 2))'
      BY <1>1, <1>4, <1>5, <3>1, <3>2 DEF Staffed, Asked, WorkerNums
    <3>4. idx'[c] >= cblas_max_threads'
      BY <1>1, <3>1, <3>2
    <3>. QED
      BY <1>1, <2>1, <3>1, <3>2, <3>3, <3>4 DEF Stage, InitStage, SetStage, ShutStage
  <2>2. CASE pc[c] = "shut_join"
    <3>1. /\ ~cblas_server_alive /\ cblas_max_threads = 1
          /\ Staffed(idx[c]..(thread_count[c] - 2))
      BY <1>3, <2>2 DEF Stage, ShutStage
    <3>2. idx'[c] = idx[c] + 1 /\ idx[c] \in Int
      BY <1>1, <1>4 DEF WorkerNums
    <3>3. Staffed(idx[c]..(thread_count[c] - 2))'
      <4>1. PICK k \in Int, n \in Int : k = idx[c] /\ n = thread_count[c]
        BY <3>2
      <4>2. idx'[c] = k + 1 /\ thread_count'[c] = n
        BY <1>1, <3>2, <4>1
      <4>3. \A i \in WorkerNums : i \in Int
        BY DEF WorkerNums
      <4>4. \A i \in WorkerNums \ {k} : i \in (k + 1)..(n - 2) <=> i \in k..(n - 2)
        BY <4>1, <4>3
      <4>5. k \notin (k + 1)..(n - 2)
        BY <4>1
      <4>. QED
        BY <1>4, <1>5, <3>1, <4>1, <4>2, <4>4, <4>5 DEF Staffed
    <3>. QED
      BY <1>1, <2>2, <3>1, <3>3 DEF Stage, InitStage, SetStage, ShutStage
  <2>. QED
    BY <1>1, <2>1, <2>2
<1>7. pc'[c] \in ConfigPcs \cup {"idle"} /\ pc'[c] # "idle"
  BY <1>1, <1>2
<1>. QED
  BY <1>1, <1>2, <1>5, <1>6, <1>7, AlonePreserves

LEMMA ShutPool ==
  ASSUME ITypeOK, PoolInv, NEW c \in Callers, ShutStep(c)
  PROVE  PoolInv'
<1>. USE DEF ITypeOK, TypeOK, ConfigTypeOK, WorkerTypeOK, CallerTypeOK, Goto
<1>1. pc[c] \in ShutdownPcs
  BY DEF ShutStep, ShutDead, ShutLock, ShutSignal, ShutJoined, ShutClean, ShutdownPcs
<1>2. Alone(c)
  BY <1>1, ConfigAlone DEF ConfigPcs
<1>3. Stage(c) /\ Registered /\ ExitedExcess
  BY DEF PoolInv
<1>4. /\ Registered' /\ ExitedExcess' /\ Stage(c)'
      /\ pc'[c] = "idle" => Staffed(AskedIfAlive)'
      /\ pc'[c] \in ConfigPcs \cup {"idle"}
      /\ \A d \in Callers \ {c} : pc'[d] = pc[d]
  <2>. USE DEF ConfigPcs, ShutdownPcs
  <2>1. CASE ShutDead(c)
    <3>1. Registered' /\ ExitedExcess'
      BY <1>3, <2>1 DEF ShutDead, workerVars, Registered, ExitedExcess
    <3>. QED
      BY <1>3, <2>1, <3>1
      DEF ShutDead, Stage, InitStage, SetStage, ShutStage, Staffed, Asked
  <2>2. CASE ShutLock(c)
    <3>1. Registered' /\ ExitedExcess'
      BY <1>3, <2>2 DEF ShutLock, workerVars, Registered, ExitedExcess
    <3>. QED
      BY <1>3, <2>2, <3>1
      DEF ShutLock, Stage, InitStage, SetStage, ShutStage, Staffed, Asked
  <2>3. CASE ShutSignal(c)
    <3>1. /\ pc[c] = "shut_signal" /\ ~cblas_server_alive /\ Staffed(Asked)
          /\ thread_count[c] = cblas_max_threads
      BY <1>3, <2>3 DEF ShutSignal, Stage, ShutStage
    <3>2. cblas_max_threads \in Int /\ 1 <= cblas_max_threads
      BY BoundsAssumption
    <3>3. \A w \in Handles : (wpc'[w] = "none" <=> wpc[w] = "none")
                             /\ (wpc'[w] = "exited" => wpc[w] = "exited")
      BY <2>3 DEF ShutSignal, Broadcast
    <3>4. Registered'
      BY <1>3, <2>3, <3>3, RegisteredKept DEF ShutSignal
    <3>5. ExitedExcess'
      BY <1>3, <2>3, <3>2, <3>3, FewerKeepsExited DEF ShutSignal
    <3>6. /\ cblas_max_threads' = 1 /\ idx'[c] = 0 /\ pc'[c] = "shut_join"
          /\ UNCHANGED <<cblas_server_alive, cblas_thread_ids, thread_count>>
      BY <2>3 DEF ShutSignal
    <3>7. Staffed(idx[c]..(thread_count[c] - 2))'
      BY <3>1, <3>2, <3>6 DEF Staffed, Asked
    <3>8. Stage(c)'
      BY <3>1, <3>6, <3>7 DEF Stage, InitStage, SetStage, ShutStage
    <3>. QED
      BY <2>3, <3>4, <3>5, <3>6, <3>8 DEF ShutSignal
  <2>4. CASE ShutJoined(c)
    <3>1. Registered' /\ ExitedExcess'
      BY <1>3, <2>4 DEF ShutJoined, workerVars, Registered, ExitedExcess
    <3>2. /\ pc[c] = "shut_join" /\ ~cblas_server_alive /\ cblas_max_threads = 1
          /\ Staffed(idx[c]..(thread_count[c] - 2)) /\ idx[c] >= thread_count[c] - 1
      BY <1>3, <2>4 DEF ShutJoined, Stage, ShutStage
    <3>3. Staffed({})
      BY <3>2, BoundsAssumption DEF Staffed, WorkerNums
    <3>. QED
      BY <2>4, <3>1, <3>2, <3>3
      DEF ShutJoined, Stage, InitStage, SetStage, ShutStage, Staffed
  <2>5. CASE ShutClean(c)
    <3>1. Registered' /\ ExitedExcess'
      BY <1>3, <2>5 DEF ShutClean, workerVars, Registered, ExitedExcess
    <3>. QED
      BY <1>3, <2>5, <3>1
      DEF ShutClean, Stage, InitStage, SetStage, ShutStage, Staffed, AskedIfAlive
  <2>. QED
    BY <2>1, <2>2, <2>3, <2>4, <2>5 DEF ShutStep
<1>. QED
  BY <1>2, <1>4, AlonePreserves

\* A configuration call begins when no other call is in progress.
LEMMA CallAlone ==
  ASSUME ServerRules \subseteq Rules, NEW c \in Callers,
         CallInit(c) \/ CallSetNumThreads(c) \/ CallShutdown(c)
  PROVE  NoConfigCall /\ NoBlasCall
<1>1. \A r \in ServerRules : Keeps(r)
  BY DEF Keeps
<1>2. CASE CallInit(c)
  BY <1>1, <1>2 DEF CallInit, MayConfigure, ServerRules
<1>3. CASE CallSetNumThreads(c)
  BY <1>1, <1>3 DEF CallSetNumThreads, MayConfigure, ServerRules, NoConfigCall
<1>4. CASE CallShutdown(c)
  BY <1>1, <1>4 DEF CallShutdown, MayConfigure, ServerRules
<1>. QED
  BY <1>2, <1>3, <1>4

LEMMA CallPool ==
  ASSUME ITypeOK, PoolInv, ServerRules \subseteq Rules, NEW c \in Callers,
         CallInit(c) \/ CallSetNumThreads(c) \/ CallShutdown(c)
  PROVE  PoolInv'
<1>. USE DEF ITypeOK, TypeOK, CallerTypeOK, Goto
<1>1. \A r \in ServerRules : Keeps(r)
  BY DEF Keeps
<1>2. NoConfigCall /\ NoBlasCall
  BY CallAlone
<1>3. Alone(c)
  BY <1>2 DEF NoConfigCall, NoBlasCall, Alone
<1>4. Staffed(AskedIfAlive) /\ Registered /\ ExitedExcess
  BY <1>2 DEF PoolInv
<1>5. /\ UNCHANGED <<cblas_max_threads, cblas_server_alive, cblas_thread_ids, wpc, thread_num>>
      /\ \A d \in Callers \ {c} : pc'[d] = pc[d]
  BY DEF CallInit, CallSetNumThreads, CallShutdown, configVars, workerVars
<1>6. Registered' /\ ExitedExcess'
  BY <1>4, <1>5 DEF Registered, ExitedExcess
<1>7. \/ pc'[c] = "init_threads" /\ ~cblas_server_alive
      \/ pc'[c] = "set_shrink"
      \/ pc'[c] = "shut_dead" /\ cblas_server_alive
  BY <1>1 DEF CallInit, CallSetNumThreads, CallShutdown, ServerRules
<1>8. Stage(c)'
  BY <1>4, <1>5, <1>7
  DEF Stage, InitStage, SetStage, ShutStage, Staffed, Asked, AskedIfAlive
<1>9. pc'[c] \in ConfigPcs \cup {"idle"} /\ pc'[c] # "idle"
  BY <1>7 DEF ConfigPcs, InitPcs, SetPcs, ShutdownPcs
<1>. QED
  BY <1>3, <1>5, <1>6, <1>8, <1>9, AlonePreserves

\* The invariant of the pool.
LEMMA PoolStep ==
  ASSUME ITypeOK, PoolInv, ServerRules \subseteq Rules, [Next]_vars
  PROVE  PoolInv'
<1>1. CASE \E w \in Handles : Worker(w) \/ WorkerSpurious(w)
  BY <1>1, AsideWorker, AsidePreserves
<1>2. ASSUME NEW c \in Callers, BlasStep(c) \/ CallBlas(c)
      PROVE  PoolInv'
  <2>1. Keeps("no_compute")
    BY DEF Keeps, ServerRules
  <2>. QED
    BY <1>2, <2>1, AsideBlas, AsidePreserves
<1>3. ASSUME NEW c \in Callers, CallInit(c) \/ CallSetNumThreads(c) \/ CallShutdown(c)
      PROVE  PoolInv'
  BY <1>3, CallPool
<1>4. ASSUME NEW c \in Callers, InitStep(c) \/ SetStep(c) \/ ShutStep(c) \/ JoinWorker(c)
      PROVE  PoolInv'
  BY <1>4, InitPool, SetPool, ShutPool, JoinPool
<1>5. CASE UNCHANGED vars
  BY <1>5
  DEF vars, configVars, localVars, workerVars, PoolInv, OneConfig, Apart, Registered,
      ExitedExcess, NoConfigCall, Stage, InitStage, SetStage, ShutStage, Staffed, Asked,
      AskedIfAlive
<1>. QED
  BY <1>1, <1>2, <1>3, <1>4, <1>5 DEF Next, CallerStep, NewCall

LEMMA PoolInitially == Init => PoolInv
BY ThreadsAssumption
DEF Init, PoolInv, OneConfig, Apart, Registered, ExitedExcess, NoConfigCall, Stage,
    InitStage, SetStage, ShutStage, Staffed, Asked, AskedIfAlive, ConfigPcs, InitPcs,
    SetPcs, ShutdownPcs

\* Which workers exist is known at each point of each configuration call, for
\* applications that keep the four rules of ServerRules.
THEOREM PoolInvariant ==
  ASSUME ServerRules \subseteq Rules
  PROVE  Spec => []PoolInv
<1>1. ITypeOK /\ PoolInv /\ [Next]_vars => PoolInv'
  BY PoolStep
<1>. QED
  BY <1>1, PoolInitially, StrongTypeCorrect, PTL DEF Spec

\* Between configuration calls the workers are exactly those the thread count
\* asks for, each with its handle in its place and none about to leave
\* (server.c:51-104, 170-190), if creation does not fail where the code does not look
\* (server.c:102).
THEOREM WorkersMatch ==
  ASSUME ServerRules \subseteq Rules, "grow" \notin CreateFails
  PROVE  Spec => []WorkersMatchCount
<1>1. ITypeOK /\ PoolInv => WorkersMatchCount
  <2>. SUFFICES ASSUME ITypeOK, PoolInv, NoConfigCall
                PROVE  WorkersMatchCount
    BY DEF WorkersMatchCount
  <2>1. cblas_max_threads \in Int /\ \A i \in WorkerNums : i \in Int
    BY DEF ITypeOK, TypeOK, ConfigTypeOK, WorkerNums
  <2>2. Staffed(AskedIfAlive) /\ Registered /\ ExitedExcess
    BY DEF PoolInv
  <2>3. ASSUME NEW i \in WorkerNums, cblas_server_alive /\ i <= cblas_max_threads - 2
        PROVE  /\ cblas_thread_ids[i] \in Handles
               /\ wpc[cblas_thread_ids[i]] \notin {"none", "exited"}
    <3>1. i \in AskedIfAlive
      BY <2>1, <2>3 DEF AskedIfAlive, Asked, WorkerNums
    <3>2. cblas_thread_ids[i] \in Handles
      BY <2>2, <3>1 DEF Staffed
    <3>. QED
      BY <2>1, <2>2, <2>3, <3>2 DEF Registered, ExitedExcess
  <2>4. ASSUME NEW i \in WorkerNums, ~(cblas_server_alive /\ i <= cblas_max_threads - 2)
        PROVE  cblas_thread_ids[i] = Null
    <3>1. i \notin AskedIfAlive
      BY <2>1, <2>4 DEF AskedIfAlive, Asked
    <3>. QED
      BY <2>2, <3>1 DEF Staffed
  <2>. QED
    BY <2>2, <2>3, <2>4 DEF WorkersMatchCount, Registered
<1>. QED
  BY <1>1, PoolInvariant, StrongTypeCorrect, PTL

\* Once the server is down and no configuration call runs, no worker is left,
\* however often the pool grew and shrank (cblas.h:1025).
THEOREM ShutdownLeavesNobody ==
  ASSUME ServerRules \subseteq Rules
  PROVE  Spec => []ShutdownJoinsAll
<1>1. PoolInv => ShutdownJoinsAll
  BY ThreadsAssumption DEF PoolInv, ShutdownJoinsAll, Staffed, AskedIfAlive, Registered
<1>. QED
  BY <1>1, PoolInvariant, PTL

-------------------------------------------------------------------------------
(* The buffer slots of running kernels *)

\* Steps that give no task a slot and leave the slots given as they are.
SlotsKept ==
  /\ thread_id' = thread_id
  /\ \A w \in Handles : wpc'[w] = "kernel" =>
       wpc[w] = "kernel" /\ UNCHANGED <<work_item[w], thread_num[w]>>
  /\ \A c \in Callers : pc'[c] = "kernel" =>
       pc[c] = "kernel" /\ UNCHANGED cblas_max_threads

LEMMA SlotsKeptPreserves ==
  ASSUME SlotsInv, SlotsKept
  PROVE  SlotsInv'
BY DEF SlotsInv, SlotsKept, CallerSlot

LEMMA SlotsKeptWorker ==
  ASSUME ITypeOK, NEW w \in Handles, Worker(w) \/ WorkerSpurious(w), ~WorkerBegin(w)
  PROVE  SlotsKept
<1>. USE DEF SlotsKept, configVars, localVars, itemVars, workerVars, ITypeOK, TypeOK,
         WorkerTypeOK, WGoto
<1>1. CASE WorkerLock(w)
  BY <1>1 DEF WorkerLock
<1>2. CASE WorkerCheck(w)
  BY <1>2 DEF WorkerCheck
<1>3. CASE WorkerPark(w)
  BY <1>3 DEF WorkerPark
<1>4. CASE WorkerSpurious(w)
  BY <1>4 DEF WorkerSpurious
<1>5. CASE WorkerExit(w)
  BY <1>5 DEF WorkerExit
<1>6. CASE WorkerTake(w)
  BY <1>6 DEF WorkerTake
<1>7. CASE WorkerRetry(w)
  BY <1>7 DEF WorkerRetry
<1>8. CASE WorkerKernel(w)
  BY <1>8 DEF WorkerKernel
<1>9. CASE WorkerFinish(w)
  BY <1>9 DEF WorkerFinish
<1>. QED
  BY <1>1, <1>2, <1>3, <1>4, <1>5, <1>6, <1>7, <1>8, <1>9 DEF Worker

LEMMA SlotsKeptBlas ==
  ASSUME ITypeOK, NEW c \in Callers, BlasStep(c) \/ CallBlas(c),
         ~BeginFirst(c), ~ExecuteReturn(c)
  PROVE  SlotsKept
<1>. USE DEF SlotsKept, configVars, localVars, itemVars, workerVars, ITypeOK, TypeOK,
         WorkerTypeOK, CallerTypeOK, Goto
<1>1. CASE Partition(c)
  BY <1>1 DEF Partition
<1>2. CASE Execute(c)
  BY <1>2 DEF Execute
<1>3. CASE ExecuteAsync(c)
  BY <1>3 DEF ExecuteAsync
<1>4. CASE AsyncBroadcast(c)
  BY <1>4 DEF AsyncBroadcast, Broadcast
<1>5. CASE RunFirst(c)
  BY <1>5 DEF RunFirst
<1>6. CASE FinishFirst(c)
  BY <1>6 DEF FinishFirst
<1>7. CASE ExecuteJoin(c)
  BY <1>7 DEF ExecuteJoin
<1>8. CASE Reduce(c)
  BY <1>8 DEF Reduce
<1>9. CASE CallBlas(c)
  BY <1>9 DEF CallBlas
<1>. QED
  BY <1>1, <1>2, <1>3, <1>4, <1>5, <1>6, <1>7, <1>8, <1>9 DEF BlasStep

\* A step inside a configuration call leads on in it or ends it.
LEMMA ConfigStepStays ==
  ASSUME ITypeOK, NEW c \in Callers,
         InitStep(c) \/ SetStep(c) \/ ShutStep(c) \/ JoinWorker(c)
  PROVE  /\ pc[c] \in ConfigPcs /\ pc'[c] \in ConfigPcs \cup {"idle"}
         /\ \A d \in Callers \ {c} : pc'[d] = pc[d]
<1>. USE DEF ITypeOK, TypeOK, CallerTypeOK, ConfigPcs, InitPcs, SetPcs, ShutdownPcs, Goto
<1>1. CASE InitStep(c)
  BY <1>1 DEF InitStep, InitThreads, InitBuffers, InitServer, InitLock, InitCreate,
         InitCreateFails, InitAlive, InitDone
<1>2. CASE SetStep(c)
  BY <1>2 DEF SetStep, SetShrink, ShrinkLock, ShrinkSignal, ShrinkDone, SetGrow, GrowLock,
         GrowCreate, GrowCreateFails, GrowDone, SetLate
<1>3. CASE ShutStep(c)
  BY <1>3 DEF ShutStep, ShutDead, ShutLock, ShutSignal, ShutJoined, ShutClean
<1>4. CASE JoinWorker(c)
  BY <1>4 DEF JoinWorker
<1>. QED
  BY <1>1, <1>2, <1>3, <1>4

\* Configuration calls change the count, but not while a kernel runs.
LEMMA SlotsKeptConfig ==
  ASSUME ITypeOK, PoolInv, NEW c \in Callers,
         InitStep(c) \/ SetStep(c) \/ ShutStep(c) \/ JoinWorker(c)
  PROVE  SlotsKept
<1>. USE DEF ITypeOK, TypeOK, WorkerTypeOK, CallerTypeOK
<1>1. pc[c] \in ConfigPcs
  BY ConfigStepStays
<1>2. \A d \in Callers : pc[d] # "kernel"
  BY <1>1, ConfigAlone DEF Alone, BlasPcs, ConfigPcs, InitPcs, SetPcs, ShutdownPcs
<1>3. /\ thread_id' = thread_id /\ work_item' = work_item
      /\ \A d \in Callers \ {c} : pc'[d] = pc[d]
      /\ pc'[c] # "kernel"
      /\ \A w \in Handles : wpc'[w] = "kernel" =>
           wpc[w] = "kernel" /\ thread_num'[w] = thread_num[w]
  <2>. USE DEF Goto, WGoto, batchVars, itemVars, workerVars, localVars
  <2>1. CASE InitStep(c)
    BY <1>2, <2>1
    DEF InitStep, InitThreads, InitBuffers, InitServer, InitLock, InitCreate,
        InitCreateFails, InitAlive, InitDone, CreateThread
  <2>2. CASE SetStep(c)
    BY <1>2, <2>2
    DEF SetStep, SetShrink, ShrinkLock, ShrinkSignal, ShrinkDone, SetGrow, GrowLock,
        GrowCreate, GrowCreateFails, GrowDone, SetLate, CreateThread, Broadcast
  <2>3. CASE ShutStep(c)
    BY <1>2, <2>3
    DEF ShutStep, ShutDead, ShutLock, ShutSignal, ShutJoined, ShutClean, Broadcast
  <2>4. CASE JoinWorker(c)
    BY <1>2, <2>4 DEF JoinWorker
  <2>. QED
    BY <2>1, <2>2, <2>3, <2>4
<1>. QED
  BY <1>2, <1>3 DEF SlotsKept

LEMMA SlotsKeptCall ==
  ASSUME ITypeOK, NEW c \in Callers, CallInit(c) \/ CallSetNumThreads(c) \/ CallShutdown(c)
  PROVE  SlotsKept
BY DEF CallInit, CallSetNumThreads, CallShutdown, SlotsKept, Goto, batchVars, itemVars,
       workerVars, configVars, ITypeOK, TypeOK, CallerTypeOK

\* Items in the hands of workers are not first items, and belong to a batch
\* that has not returned.
LEMMA HandsHoldTail ==
  ASSUME ITypeOK, BatchInv, NEW w \in Handles, wpc[w] \in BusyPcs
  PROVE  /\ work_item[w] \in Item /\ work_item[w][2] >= 2
         /\ work_item[w][1] \in Callers /\ Submitted(work_item[w][1])
<1>1. work_item[w] \in Item /\ InHand(work_item[w])
  BY DEF ITypeOK, HandsFull, InHand
<1>2. Submitted(work_item[w][1]) /\ work_item[w][2] \in 2..items[work_item[w][1]]
  BY <1>1 DEF BatchInv, NoDanglingItem
<1>. QED
  BY <1>1, <1>2 DEF Item

LEMMA SlotsStep ==
  ASSUME ITypeOK, BatchInv, PoolInv, SlotsInv, [Next]_vars
  PROVE  SlotsInv'
<1>. USE DEF ITypeOK, TypeOK, WorkerTypeOK, CallerTypeOK, BatchTypeOK
<1>1. ASSUME NEW w \in Handles, WorkerBegin(w)
      PROVE  SlotsInv'
  <2>1. /\ wpc[w] = "begin" /\ wpc' = [wpc EXCEPT ![w] = "kernel"]
        /\ thread_id' = [thread_id EXCEPT ![work_item[w]] = thread_num[w]]
        /\ UNCHANGED <<work_item, thread_num, cblas_max_threads, pc>>
    BY <1>1 DEF WorkerBegin, WGoto, configVars
  <2>2. work_item[w] \in Item /\ work_item[w][2] >= 2
    BY <2>1, HandsHoldTail DEF BusyPcs
  <2>3. ASSUME NEW v \in Handles, wpc'[v] = "kernel"
        PROVE  thread_id'[work_item'[v]] = thread_num'[v]
    <3>1. CASE v = w
      BY <2>1, <2>2, <3>1
    <3>2. CASE v # w
      <4>1. wpc[v] = "kernel"
        BY <2>1, <2>3, <3>2
      <4>2. Busy(v) /\ Busy(w)
        BY <2>1, <4>1 DEF Busy, BusyPcs
      <4>3. work_item[v] # work_item[w] /\ work_item[v] \in Item
        BY <3>2, <4>1, <4>2, HandsHoldTail DEF BatchInv, OnePlace, BusyPcs
      <4>. QED
        BY <2>1, <2>2, <4>1, <4>3 DEF SlotsInv
    <3>. QED
      BY <3>1, <3>2
  <2>4. ASSUME NEW c \in Callers, pc'[c] = "kernel"
        PROVE  thread_id'[<<c, 1>>] = CallerSlot'
    <3>1. <<c, 1>> \in Item /\ <<c, 1>> # work_item[w]
      BY <2>2, FirstItem
    <3>. QED
      BY <2>1, <2>2, <2>4, <3>1 DEF SlotsInv, CallerSlot
  <2>. QED
    BY <2>3, <2>4 DEF SlotsInv
<1>2. ASSUME NEW c \in Callers, BeginFirst(c)
      PROVE  SlotsInv'
  <2>1. /\ pc' = [pc EXCEPT ![c] = "kernel"]
        /\ thread_id' = [thread_id EXCEPT ![<<c, 1>>] = CallerSlot]
        /\ UNCHANGED <<wpc, work_item, thread_num, cblas_max_threads>>
    BY <1>2 DEF BeginFirst, Goto, configVars, workerVars
  <2>2. \A d \in Callers : <<d, 1>> \in Item
    BY FirstItem
  <2>3. ASSUME NEW w \in Handles, wpc'[w] = "kernel"
        PROVE  thread_id'[work_item'[w]] = thread_num'[w]
    <3>1. wpc[w] = "kernel" /\ work_item[w] \in Item /\ work_item[w] # <<c, 1>>
      BY <2>1, <2>3, HandsHoldTail DEF BusyPcs
    <3>. QED
      BY <2>1, <2>2, <3>1 DEF SlotsInv
  <2>4. ASSUME NEW d \in Callers, pc'[d] = "kernel"
        PROVE  thread_id'[<<d, 1>>] = CallerSlot'
    BY <2>1, <2>2, <2>4 DEF SlotsInv, CallerSlot
  <2>. QED
    BY <2>3, <2>4 DEF SlotsInv
<1>3. ASSUME NEW c \in Callers, ExecuteReturn(c)
      PROVE  SlotsInv'
  <2>1. /\ pc[c] = "unlock" /\ pc' = [pc EXCEPT ![c] = IF reduces[c] THEN "reduce" ELSE "idle"]
        /\ thread_id' = [x \in Item |-> IF x \in ItemsOf(c) THEN NoSlot ELSE thread_id[x]]
        /\ UNCHANGED <<wpc, work_item, thread_num, cblas_max_threads>>
    BY <1>3 DEF ExecuteReturn, Goto, configVars, workerVars
  <2>2. \A x \in Item : x \in ItemsOf(c) => x[1] = c
    BY DEF ItemsOf
  <2>3. ASSUME NEW w \in Handles, wpc'[w] = "kernel"
        PROVE  thread_id'[work_item'[w]] = thread_num'[w]
    <3>1. wpc[w] = "kernel" /\ work_item[w] \in Item /\ Submitted(work_item[w][1])
      BY <2>1, <2>3, HandsHoldTail DEF BusyPcs
    <3>2. work_item[w] \notin ItemsOf(c)
      BY <2>1, <2>2, <3>1 DEF Submitted
    <3>. QED
      BY <2>1, <3>1, <3>2 DEF SlotsInv
  <2>4. ASSUME NEW d \in Callers, pc'[d] = "kernel"
        PROVE  thread_id'[<<d, 1>>] = CallerSlot'
    <3>1. pc[d] = "kernel" /\ d # c
      BY <2>1, <2>4
    <3>2. <<d, 1>> \in Item /\ <<d, 1>> \notin ItemsOf(c)
      BY <2>2, <3>1, FirstItem
    <3>. QED
      BY <2>1, <3>1, <3>2 DEF SlotsInv, CallerSlot
  <2>. QED
    BY <2>3, <2>4 DEF SlotsInv
<1>4. CASE \E w \in Handles : (Worker(w) \/ WorkerSpurious(w)) /\ ~WorkerBegin(w)
  BY <1>4, SlotsKeptWorker, SlotsKeptPreserves
<1>5. CASE \E c \in Callers : (BlasStep(c) \/ CallBlas(c)) /\ ~BeginFirst(c) /\ ~ExecuteReturn(c)
  BY <1>5, SlotsKeptBlas, SlotsKeptPreserves
<1>6. CASE \E c \in Callers : InitStep(c) \/ SetStep(c) \/ ShutStep(c) \/ JoinWorker(c)
  BY <1>6, SlotsKeptConfig, SlotsKeptPreserves
<1>7. CASE \E c \in Callers : CallInit(c) \/ CallSetNumThreads(c) \/ CallShutdown(c)
  BY <1>7, SlotsKeptCall, SlotsKeptPreserves
<1>8. CASE UNCHANGED vars
  BY <1>8 DEF vars, configVars, workerVars, itemVars, SlotsInv, CallerSlot
<1>. QED
  BY <1>1, <1>2, <1>3, <1>4, <1>5, <1>6, <1>7, <1>8 DEF Next, CallerStep, NewCall

LEMMA SlotsInitially == Init => SlotsInv
BY DEF Init, SlotsInv

\* A worker runs a kernel only inside a BLAS call, so its number is one the
\* thread count asks for.
LEMMA WorkerSlot ==
  ASSUME ITypeOK, BatchInv, PoolInv, NEW w \in Handles, wpc[w] = "kernel"
  PROVE  NoConfigCall /\ thread_num[w] \in 0..(cblas_max_threads - 2)
<1>1. PICK c \in Callers : pc[c] \in BlasPcs
  BY HandsHoldTail DEF BusyPcs, Submitted, BlasPcs
<1>2. NoConfigCall
  BY <1>1 DEF PoolInv, Apart, NoConfigCall
<1>3. thread_num[w] \in WorkerNums /\ cblas_thread_ids[thread_num[w]] # Null
  BY ThreadsAssumption DEF PoolInv, Registered
<1>4. thread_num[w] \in AskedIfAlive
  BY <1>2, <1>3 DEF PoolInv, Staffed
<1>. QED
  BY <1>2, <1>4 DEF AskedIfAlive, Asked

\* Only the caller that holds execute_lock runs a kernel.
LEMMA OneCallerKernel ==
  ASSUME BatchInv
  PROVE  \A c, d \in Callers : pc[c] = "kernel" /\ pc[d] = "kernel" => c = d
BY DEF BatchInv, LockHeld, InExecute

LEMMA RunningSlots ==
  ASSUME ITypeOK, BatchInv, PoolInv, SlotsInv
  PROVE  SlotsExclusive
<1>. SUFFICES ASSUME NEW x \in Running, NEW y \in Running, x # y
              PROVE  thread_id[x] # thread_id[y]
  BY DEF SlotsExclusive
<1>1. cblas_max_threads \in Int
  BY DEF ITypeOK, TypeOK, ConfigTypeOK
<1>2. ASSUME NEW w \in Handles, NEW c \in Callers, wpc[w] = "kernel", pc[c] = "kernel"
      PROVE  thread_id[work_item[w]] # thread_id[<<c, 1>>]
  <2>1. thread_id[work_item[w]] = thread_num[w] /\ thread_id[<<c, 1>>] = cblas_max_threads - 1
    BY <1>2 DEF SlotsInv, CallerSlot
  <2>2. thread_num[w] \in 0..(cblas_max_threads - 2)
    BY <1>2, WorkerSlot
  <2>. QED
    BY <1>1, <2>1, <2>2
<1>3. ASSUME NEW v \in Handles, NEW w \in Handles, wpc[v] = "kernel", wpc[w] = "kernel", v # w
      PROVE  thread_id[work_item[v]] # thread_id[work_item[w]]
  <2>1. thread_id[work_item[v]] = thread_num[v] /\ thread_id[work_item[w]] = thread_num[w]
    BY <1>3 DEF SlotsInv
  <2>2. cblas_thread_ids[thread_num[v]] = v /\ cblas_thread_ids[thread_num[w]] = w
    BY <1>3 DEF PoolInv, Registered
  <2>. QED
    BY <1>3, <2>1, <2>2
<1>. QED
  BY <1>2, <1>3, OneCallerKernel DEF Running

\* Two kernels that run at the same time never pack into the same buffer slot
\* (server.c:322), though the slots are numbered from a thread count that
\* cblas_set_num_threads changes.
THEOREM SlotsStayExclusive ==
  ASSUME ServerRules \subseteq Rules
  PROVE  Spec => []SlotsExclusive
<1>1. ITypeOK /\ BatchInv /\ PoolInv /\ SlotsInv /\ [Next]_vars => SlotsInv'
  BY SlotsStep
<1>2. ITypeOK /\ BatchInv /\ PoolInv /\ SlotsInv => SlotsExclusive
  BY RunningSlots
<1>. QED
  BY <1>1, <1>2, SlotsInitially, PoolInvariant, BatchInvariant, StrongTypeCorrect, PTL DEF Spec

-------------------------------------------------------------------------------
(* The buffers behind the slots *)

\* AppRules has two rules more than ServerRules: BLAS is called after cblas_init,
\* and the thread count is then changed only while there is a server.
LEMMA AppRulesCover ==
  ASSUME AppRules \subseteq Rules
  PROVE  ServerRules \subseteq Rules /\ Keeps("init_first") /\ Keeps("set_alive")
BY DEF AppRules, ServerRules, Keeps

\* Steps of workers and of BLAS calls.
BuffersAside ==
  /\ UNCHANGED <<cblas_max_threads, cblas_server_alive, gemm_buffers_count, inited>>
  /\ \A c \in Callers :
       \/ UNCHANGED pc[c]
       \/ /\ {pc[c], pc'[c]} \cap ConfigPcs = {}
          /\ pc'[c] \in BlasPcs => pc[c] \in BlasPcs \/ inited

LEMMA BuffersAsidePreserves ==
  ASSUME BuffersInv, BuffersAside
  PROVE  BuffersInv'
<1>1. \A c \in Callers : \A P \in {InitPcs \ {"init_threads", "init_buffers"}, SetPcs, ShutdownPcs} :
        pc'[c] \in P <=> pc[c] \in P
  BY DEF BuffersAside, ConfigPcs
<1>2. NoConfigCall' <=> NoConfigCall
  BY DEF BuffersAside, NoConfigCall
<1>3. \A c \in Callers : pc'[c] \in BlasPcs => inited'
  BY DEF BuffersAside, BuffersInv
<1>. QED
  BY <1>1, <1>2, <1>3 DEF BuffersAside, BuffersInv, Backed

LEMMA BuffersAsideWorker ==
  ASSUME NEW w \in Handles, Worker(w) \/ WorkerSpurious(w)
  PROVE  BuffersAside
BY DEF BuffersAside, Worker, WorkerLock, WorkerCheck, WorkerPark, WorkerExit, WorkerTake,
       WorkerRetry, WorkerBegin, WorkerKernel, WorkerFinish, WorkerSpurious, configVars

LEMMA BuffersAsideBlas ==
  ASSUME ITypeOK, Keeps("init_first"), NEW c \in Callers, BlasStep(c) \/ CallBlas(c)
  PROVE  BuffersAside
<1>. USE DEF BuffersAside, configVars, ITypeOK, TypeOK, CallerTypeOK, Goto, ConfigPcs, InitPcs,
         SetPcs, ShutdownPcs, BlasPcs
<1>1. CASE CallBlas(c)
  BY <1>1 DEF CallBlas
<1>2. CASE BlasStep(c)
  BY <1>2
  DEF BlasStep, Partition, Execute, ExecuteAsync, AsyncBroadcast, BeginFirst, RunFirst,
      FinishFirst, ExecuteJoin, ExecuteReturn, Reduce
<1>. QED
  BY <1>1, <1>2

\* What a step of the only configuration call has to show.
LEMMA BuffersAlone ==
  ASSUME ITypeOK, NEW c \in Callers, Alone(c), pc'[c] \notin BlasPcs,
         \A d \in Callers \ {c} : pc'[d] = pc[d],
         pc'[c] = "idle" /\ inited' => Backed',
         pc'[c] \in InitPcs \ {"init_threads", "init_buffers"} => Backed',
         pc'[c] \in SetPcs /\ inited' => cblas_server_alive' /\ Backed',
         pc'[c] \in ShutdownPcs => ~inited',
         pc'[c] \in ConfigPcs \cup {"idle"}
  PROVE  BuffersInv'
<1>1. \A d \in Callers \ {c} : pc'[d] \notin ConfigPcs \cup BlasPcs
  BY DEF Alone
<1>. QED
  BY <1>1 DEF BuffersInv, NoConfigCall, ConfigPcs

LEMMA BuffersConfig ==
  ASSUME ITypeOK, PoolInv, BuffersInv, NEW c \in Callers,
         InitStep(c) \/ SetStep(c) \/ ShutStep(c) \/ JoinWorker(c)
  PROVE  BuffersInv'
<1>. USE DEF ITypeOK, TypeOK, ConfigTypeOK, CallerTypeOK, Goto
<1>1. /\ pc[c] \in ConfigPcs /\ pc'[c] \in ConfigPcs \cup {"idle"}
      /\ \A d \in Callers \ {c} : pc'[d] = pc[d]
  BY ConfigStepStays
<1>2. Alone(c)
  BY <1>1, ConfigAlone
<1>3. pc'[c] \notin BlasPcs
  BY <1>1 DEF ConfigPcs, InitPcs, SetPcs, ShutdownPcs, BlasPcs
<1>4. /\ pc[c] \in InitPcs \ {"init_threads", "init_buffers"} => Backed
      /\ pc[c] \in SetPcs /\ inited => cblas_server_alive /\ Backed
      /\ pc[c] \in ShutdownPcs => ~inited
  BY DEF BuffersInv
<1>5. cblas_max_threads \in Int /\ gemm_buffers_count \in Int /\ idx[c] \in Int /\ threads[c] \in Int
  BY BoundsAssumption
<1>6. /\ pc'[c] = "idle" /\ inited' => Backed'
      /\ pc'[c] \in InitPcs \ {"init_threads", "init_buffers"} => Backed'
      /\ pc'[c] \in SetPcs /\ inited' => cblas_server_alive' /\ Backed'
      /\ pc'[c] \in ShutdownPcs => ~inited'
  <2>. USE DEF InitPcs, SetPcs, ShutdownPcs, Backed
  <2>1. CASE InitStep(c)
    BY <1>4, <1>5, <2>1
    DEF InitStep, InitThreads, InitBuffers, InitServer, InitLock, InitCreate,
        InitCreateFails, InitAlive, InitDone, EnsureGemmBuffers
  <2>2. CASE ShrinkSignal(c)
    <3>1. threads[c] < cblas_max_threads
      BY <2>2 DEF ShrinkSignal, PoolInv, Stage, SetStage
    <3>. QED
      BY <1>4, <1>5, <2>2, <3>1 DEF ShrinkSignal
  <2>3. CASE SetStep(c) /\ ~ShrinkSignal(c)
    BY <1>4, <1>5, <2>3
    DEF SetStep, SetShrink, ShrinkLock, ShrinkDone, SetGrow, GrowLock, GrowCreate,
        GrowCreateFails, GrowDone, SetLate, EnsureGemmBuffers, configVars
  <2>4. CASE ShutStep(c)
    BY <1>4, <1>5, <2>4 DEF ShutStep, ShutDead, ShutLock, ShutSignal, ShutJoined, ShutClean
  <2>5. CASE JoinWorker(c)
    BY <1>4, <2>5 DEF JoinWorker
  <2>. QED
    BY <2>1, <2>2, <2>3, <2>4, <2>5
<1>. QED
  BY <1>1, <1>2, <1>3, <1>6, BuffersAlone

LEMMA BuffersCall ==
  ASSUME ITypeOK, BuffersInv, ServerRules \subseteq Rules, Keeps("set_alive"),
         NEW c \in Callers, CallInit(c) \/ CallSetNumThreads(c) \/ CallShutdown(c)
  PROVE  BuffersInv'
<1>. USE DEF ITypeOK, TypeOK, CallerTypeOK, Goto
<1>1. NoConfigCall /\ NoBlasCall
  BY CallAlone
<1>2. Alone(c) /\ (inited => Backed)
  BY <1>1 DEF NoConfigCall, NoBlasCall, Alone, BuffersInv
<1>3. /\ UNCHANGED <<cblas_max_threads, cblas_server_alive, gemm_buffers_count>>
      /\ \A d \in Callers \ {c} : pc'[d] = pc[d]
      /\ \/ pc'[c] = "init_threads"
         \/ pc'[c] = "set_shrink" /\ inited' = inited /\ (cblas_server_alive \/ ~inited)
         \/ pc'[c] = "shut_dead" /\ ~inited'
  BY DEF CallInit, CallSetNumThreads, CallShutdown, configVars
<1>4. pc'[c] \notin BlasPcs /\ pc'[c] # "idle" /\ pc'[c] \in ConfigPcs
  BY <1>3 DEF BlasPcs, ConfigPcs, InitPcs, SetPcs, ShutdownPcs
<1>5. /\ pc'[c] \in InitPcs \ {"init_threads", "init_buffers"} => Backed'
      /\ pc'[c] \in SetPcs /\ inited' => cblas_server_alive' /\ Backed'
      /\ pc'[c] \in ShutdownPcs => ~inited'
  BY <1>2, <1>3 DEF InitPcs, SetPcs, ShutdownPcs, Backed
<1>. QED
  BY <1>2, <1>3, <1>4, <1>5, BuffersAlone

LEMMA BuffersStep ==
  ASSUME ITypeOK, PoolInv, BuffersInv, AppRules \subseteq Rules, [Next]_vars
  PROVE  BuffersInv'
<1>1. CASE \E w \in Handles : Worker(w) \/ WorkerSpurious(w)
  BY <1>1, BuffersAsideWorker, BuffersAsidePreserves
<1>2. CASE \E c \in Callers : BlasStep(c) \/ CallBlas(c)
  BY <1>2, AppRulesCover, BuffersAsideBlas, BuffersAsidePreserves
<1>3. CASE \E c \in Callers : InitStep(c) \/ SetStep(c) \/ ShutStep(c) \/ JoinWorker(c)
  BY <1>3, BuffersConfig
<1>4. CASE \E c \in Callers : CallInit(c) \/ CallSetNumThreads(c) \/ CallShutdown(c)
  BY <1>4, AppRulesCover, BuffersCall
<1>5. CASE UNCHANGED vars
  BY <1>5 DEF vars, configVars, BuffersInv, NoConfigCall, Backed
<1>. QED
  BY <1>1, <1>2, <1>3, <1>4, <1>5 DEF Next, CallerStep, NewCall

LEMMA BuffersInitially == Init => BuffersInv
BY DEF Init, BuffersInv, InitPcs, SetPcs, ShutdownPcs, BlasPcs

\* The slot of a running kernel exists in the pool of packing buffers, however
\* the thread count was raised since cblas_init (server.c:94).
THEOREM SlotsStayBacked ==
  ASSUME AppRules \subseteq Rules
  PROVE  Spec => []SlotsBacked
<1>1. ITypeOK /\ PoolInv /\ BuffersInv /\ [Next]_vars => BuffersInv'
  BY BuffersStep
<1>2. ITypeOK /\ BatchInv /\ PoolInv /\ SlotsInv /\ [Next]_vars => SlotsInv'
  BY SlotsStep
<1>3. ITypeOK /\ BatchInv /\ PoolInv /\ SlotsInv /\ BuffersInv => SlotsBacked
  <2>. SUFFICES ASSUME ITypeOK, BatchInv, PoolInv, SlotsInv, BuffersInv
                PROVE  SlotsBacked
    OBVIOUS
  <2>1. cblas_max_threads \in Int /\ gemm_buffers_count \in Int
    BY DEF ITypeOK, TypeOK, ConfigTypeOK
  <2>2. ASSUME NEW w \in Handles, wpc[w] = "kernel"
        PROVE  thread_id[work_item[w]] < gemm_buffers_count
    <3>1. PICK c \in Callers : pc[c] \in BlasPcs
      BY <2>2, HandsHoldTail DEF BusyPcs, Submitted, BlasPcs
    <3>2. NoConfigCall /\ thread_num[w] \in 0..(cblas_max_threads - 2)
      BY <2>2, WorkerSlot
    <3>3. Backed
      BY <3>1, <3>2 DEF BuffersInv
    <3>. QED
      BY <2>1, <2>2, <3>2, <3>3 DEF SlotsInv, Backed
  <2>3. ASSUME NEW c \in Callers, pc[c] = "kernel"
        PROVE  thread_id[<<c, 1>>] < gemm_buffers_count
    <3>1. NoConfigCall /\ pc[c] \in BlasPcs
      BY <2>3 DEF PoolInv, Apart, NoConfigCall, BlasPcs
    <3>2. Backed
      BY <3>1 DEF BuffersInv
    <3>. QED
      BY <2>1, <2>3, <3>2 DEF SlotsInv, CallerSlot, Backed
  <2>. QED
    BY <2>2, <2>3 DEF SlotsBacked, Running
<1>4. ServerRules \subseteq Rules
  BY AppRulesCover
<1>5. Spec => []PoolInv
  BY <1>4, PoolInvariant
<1>. QED
  BY <1>1, <1>2, <1>3, <1>5, BuffersInitially, SlotsInitially, BatchInvariant,
     StrongTypeCorrect, PTL DEF Spec

-------------------------------------------------------------------------------
(* Partial results of a reduction; no_compute is all this needs. *)

\* The batch of a reducing caller, once it is built, stays as it is.
BuiltPcs == BlasPcs \ {"partition"}

ReducesKept ==
  /\ UNCHANGED cblas_max_threads
  /\ \A c \in Callers :
       \/ UNCHANGED <<pc[c], items[c], reduces[c]>>
       \/ pc'[c] \notin BuiltPcs
       \/ /\ pc[c] \in BuiltPcs
          /\ reduces'[c] => reduces[c] /\ items'[c] = items[c]
          /\ pc'[c] = "reduce" => reduces'[c]

LEMMA ReducesKeptPreserves ==
  ASSUME ReducesInv, ReducesKept
  PROVE  ReducesInv'
BY DEF ReducesInv, ReducesKept, BuiltPcs, BlasPcs

LEMMA ReducesWorker ==
  ASSUME NEW w \in Handles, Worker(w) \/ WorkerSpurious(w)
  PROVE  UNCHANGED pc /\ ReducesKept
BY DEF ReducesKept, Worker, WorkerLock, WorkerCheck, WorkerPark, WorkerExit, WorkerTake,
       WorkerRetry, WorkerBegin, WorkerKernel, WorkerFinish, WorkerSpurious, configVars,
       localVars

LEMMA ReducesBlas ==
  ASSUME ITypeOK, ReducesInv, NEW c \in Callers, BlasStep(c) \/ CallBlas(c)
  PROVE  ReducesInv'
<1>. USE DEF configVars, localVars, ITypeOK, TypeOK, CallerTypeOK, BatchTypeOK, Goto
<1>1. CASE Partition(c)
  <2>1. PICK r \in BOOLEAN :
          /\ reduces' = [reduces EXCEPT ![c] = r]
          /\ \E k \in TaskCounts(r) : items' = [items EXCEPT ![c] = k]
    BY <1>1 DEF Partition
  <2>2. PICK k \in TaskCounts(r) : items' = [items EXCEPT ![c] = k]
    BY <2>1
  <2>3. /\ pc' = [pc EXCEPT ![c] = "execute"]
        /\ UNCHANGED cblas_max_threads
    BY <1>1 DEF Partition
  <2>4. r => k = cblas_max_threads
    BY <2>2 DEF TaskCounts
  <2>. QED
    BY <2>1, <2>2, <2>3, <2>4 DEF ReducesInv
<1>2. CASE ExecuteReturn(c)
  <2>1. ReducesKept
    BY <1>2 DEF ExecuteReturn, ReducesKept, BuiltPcs, BlasPcs
  <2>. QED
    BY <2>1, ReducesKeptPreserves
<1>3. CASE (BlasStep(c) \/ CallBlas(c)) /\ ~Partition(c) /\ ~ExecuteReturn(c)
  <2>1. ReducesKept
    BY <1>3
    DEF CallBlas, BlasStep, Execute, ExecuteAsync, AsyncBroadcast, BeginFirst, RunFirst,
        FinishFirst, ExecuteJoin, Reduce, ReducesKept, BuiltPcs, BlasPcs
  <2>. QED
    BY <2>1, ReducesKeptPreserves
<1>. QED
  BY <1>1, <1>2, <1>3 DEF BlasStep

\* The count may change now: nobody is in a BLAS call.
LEMMA ReducesConfig ==
  ASSUME ITypeOK, Apart, NEW c \in Callers,
         InitStep(c) \/ SetStep(c) \/ ShutStep(c) \/ JoinWorker(c)
  PROVE  Apart' /\ ReducesInv'
<1>1. /\ pc[c] \in ConfigPcs /\ pc'[c] \in ConfigPcs \cup {"idle"}
      /\ \A d \in Callers \ {c} : pc'[d] = pc[d]
  BY ConfigStepStays
<1>2. ConfigPcs \cap BlasPcs = {} /\ "idle" \notin BlasPcs
  BY DEF ConfigPcs, InitPcs, SetPcs, ShutdownPcs, BlasPcs
<1>3. \A d \in Callers : pc'[d] \notin BlasPcs
  BY <1>1, <1>2 DEF Apart
<1>. QED
  BY <1>3 DEF Apart, ReducesInv, BlasPcs

LEMMA ApartBlas ==
  ASSUME ITypeOK, Apart, Keeps("no_compute"), NEW c \in Callers, BlasStep(c) \/ CallBlas(c)
  PROVE  Apart'
<1>1. Aside
  BY AsideBlas
<1>2. \A d \in Callers : pc'[d] \in ConfigPcs <=> pc[d] \in ConfigPcs
  BY <1>1 DEF Aside
<1>. QED
  BY <1>1, <1>2 DEF Apart, Aside, NoConfigCall

LEMMA ReducesCall ==
  ASSUME ITypeOK, ReducesInv, Keeps("no_compute"), NEW c \in Callers,
         CallInit(c) \/ CallSetNumThreads(c) \/ CallShutdown(c)
  PROVE  Apart' /\ ReducesInv'
<1>. USE DEF ITypeOK, TypeOK, CallerTypeOK, Goto
<1>1. NoBlasCall
  BY DEF CallInit, CallSetNumThreads, CallShutdown, MayConfigure
<1>2. pc'[c] \notin BlasPcs /\ \A d \in Callers \ {c} : pc'[d] = pc[d]
  BY DEF CallInit, CallSetNumThreads, CallShutdown, BlasPcs
<1>3. \A d \in Callers : pc'[d] \notin BlasPcs
  BY <1>1, <1>2 DEF NoBlasCall
<1>. QED
  BY <1>3 DEF Apart, ReducesInv, BlasPcs

\* dot, nrm2 and asum add up exactly the partial results their batch wrote,
\* though they read the thread count again after it (dot.c:40), if only no
\* configuration call overlaps a BLAS call.
THEOREM ReductionsCover ==
  ASSUME "no_compute" \in Rules
  PROVE  Spec => []ReductionCoversBatch
<1>1. ITypeOK /\ Apart /\ ReducesInv /\ [Next]_vars => Apart' /\ ReducesInv'
  <2>. SUFFICES ASSUME ITypeOK, Apart, ReducesInv, [Next]_vars
                PROVE  Apart' /\ ReducesInv'
    OBVIOUS
  <2>. Keeps("no_compute")
    BY DEF Keeps
  <2>1. CASE \E w \in Handles : Worker(w) \/ WorkerSpurious(w)
    BY <2>1, ReducesWorker, ReducesKeptPreserves DEF Apart
  <2>2. CASE \E c \in Callers : BlasStep(c) \/ CallBlas(c)
    BY <2>2, ApartBlas, ReducesBlas
  <2>3. CASE \E c \in Callers : InitStep(c) \/ SetStep(c) \/ ShutStep(c) \/ JoinWorker(c)
    BY <2>3, ReducesConfig
  <2>4. CASE \E c \in Callers : CallInit(c) \/ CallSetNumThreads(c) \/ CallShutdown(c)
    BY <2>4, ReducesCall
  <2>5. CASE UNCHANGED vars
    BY <2>5 DEF vars, configVars, localVars, Apart, ReducesInv
  <2>. QED
    BY <2>1, <2>2, <2>3, <2>4, <2>5 DEF Next, CallerStep, NewCall
<1>2. Init => Apart /\ ReducesInv
  BY DEF Init, Apart, ReducesInv, ConfigPcs, InitPcs, SetPcs, ShutdownPcs, BlasPcs
<1>3. ReducesInv => ReductionCoversBatch
  BY DEF ReducesInv, ReductionCoversBatch, BlasPcs
<1>. QED
  BY <1>1, <1>2, <1>3, StrongTypeCorrect, PTL DEF Spec
===============================================================================
