------------------------------ MODULE Partition ------------------------------
(****************************************************************************)
(* How a multi-threaded routine is cut into the tasks it gives to           *)
(* cblas_execute: the dispatchers of util.c and the band and chunk loops of *)
(* gemm.c.  A call is followed iteration by iteration, so that a property   *)
(* can speak of the array that holds the tasks while it is filled.          *)
(*                                                                          *)
(* Two schemes.  The level-1 routines and the row-wise level-2 routines     *)
(* give every thread a share of what is left.  The column-wise level-2      *)
(* routines and GEMM fix one width, rounded up to a granule (a cache line   *)
(* or a micro-kernel's panel), and cut until nothing is left.               *)
(****************************************************************************)
EXTENDS Integers, Sequences

CONSTANTS
  MaxLength,    \* bound on the length that is cut (the code has none)
  MaxThreads    \* MAX_THREADS, the size of the arrays queue[] and args[]

ASSUME BoundsAssumption == MaxLength \in Nat /\ MaxThreads \in Nat \ {0}

VARIABLES
  pc,        \* "idle", "cutting" (in the loop), "dispatched" (in cblas_execute)
  routine,   \* which loop this call runs
  total,     \* the length to cut: n, rows, cols, m_use or n_use
  threads,   \* thread_count / num_threads, read once per call
  width,     \* cols_per_thread, band or col_chunk; 0 for the even scheme
  offset,    \* where the next task starts (col_offset, row_offset, row, col)
  tasks      \* the tasks written so far: queue[0 .. Len(tasks) - 1]

vars == <<pc, routine, total, threads, width, offset, tasks>>

(* The elements a task covers are start .. start + size - 1. *)
Task == [start : Nat, size : Nat]

EvenRoutines  == {"level1", "level2_rows"}
FixedRoutines == {"scols", "dcols", "sbands", "spack", "dbands"}
Routines      == EvenRoutines \cup FixedRoutines

CeilDiv(a, b) == (a + b - 1) \div b
RoundUp(a, g) == CeilDiv(a, g) * g

(* 64 / element_size for the columns of GEMV, the 6 and 4 rows of the SGEMM *)
(* and DGEMM micro-kernels, PACK_NR for the columns of a packed panel.      *)
Granule(r) ==
  CASE r = "scols"  -> 16
    [] r = "dcols"  -> 8
    [] r = "sbands" -> 6
    [] r = "spack"  -> 12
    [] r = "dbands" -> 4

\* Mutants: the length per thread is rounded down; the granule is only a minimum.
WidthFloor(r, n, t) ==
  LET w == RoundUp(n \div t, Granule(r))
  IN  IF w < Granule(r) THEN Granule(r) ELSE w

WidthUnaligned(r, n, t) ==
  LET w == CeilDiv(n, t)
  IN  IF w < Granule(r) THEN Granule(r) ELSE w

(* The width every task but the last has: at least one granule, which the   *)
(* code of the GEMM loops spells out.                                       *)
Width(r, n, t) ==
  LET w == RoundUp(CeilDiv(n, t), Granule(r))
  IN  IF w < Granule(r) THEN Granule(r) ELSE w

(* How many tasks the array was sized for: the stack arrays of the          *)
(* dispatchers, nbands for the bands, at least num_threads for the packing  *)
(* chunks (qcap).                                                           *)
Capacity(r) ==
  CASE r \in {"sbands", "dbands"} -> CeilDiv(total, width)
    [] r = "spack"                -> threads
    [] OTHER                      -> MaxThreads

AddTask(size) == tasks' = Append(tasks, [start |-> offset, size |-> size])

Rest == total - offset

-----------------------------------------------------------------------------
Init ==
  /\ pc = "idle"
  /\ routine = "level1"
  /\ total = 0 /\ threads = 1 /\ width = 0 /\ offset = 0
  /\ tasks = <<>>

\* Mutant: the calling thread is not counted, and nothing clamps the result.
CallUnclamped(r, n, t) ==
  /\ pc = "idle"
  /\ routine' = r /\ total' = n /\ threads' = t - 1
  /\ width' = IF r \in EvenRoutines THEN 0 ELSE Width(r, n, t)
  /\ pc' = "cutting"
  /\ UNCHANGED <<offset, tasks>>

(* A routine passed its threshold, so there is something to cut, and read   *)
(* the thread count (at least 1, at most MAX_THREADS).  There may be less   *)
(* to cut than threads: the thresholds can be set to anything.              *)
Call(r, n, t) ==
  /\ pc = "idle"
  /\ routine' = r /\ total' = n /\ threads' = t
  /\ width' = IF r \in EvenRoutines THEN 0 ELSE Width(r, n, t)
  /\ pc' = "cutting"
  /\ UNCHANGED <<offset, tasks>>

\* Mutants: what is left is divided by all threads; shares are whole pairs.
ShareOfAll == CeilDiv(Rest, threads)

SharePairs ==
  LET pairs == RoundUp(CeilDiv(Rest, threads - Len(tasks)), 2)
  IN  IF pairs < Rest THEN pairs ELSE Rest

(* partition_size: what is left over the threads that are left. *)
Share == CeilDiv(Rest, threads - Len(tasks))

(* One iteration of the loop of cblas_level1_exec and of its _result twin:  *)
(* both operands advance by the share.                                      *)
Level1Task ==
  /\ pc = "cutting" /\ routine = "level1"
  /\ Len(tasks) < threads
  /\ AddTask(Share)
  /\ offset' = offset + Share
  /\ UNCHANGED <<pc, routine, total, threads, width>>

(* One iteration of cblas_level2_exec: rows of A, and of x or y with them. *)
Level2RowsTask ==
  /\ pc = "cutting" /\ routine = "level2_rows"
  /\ Len(tasks) < threads
  /\ AddTask(Share)
  /\ offset' = offset + Share
  /\ UNCHANGED <<pc, routine, total, threads, width>>

(* One iteration of cblas_level2_exec_cols; the number of tasks was counted *)
(* beforehand.                                                              *)
Level2ColsTask ==
  /\ pc = "cutting" /\ routine \in {"scols", "dcols"}
  /\ Len(tasks) < CeilDiv(total, width)
  /\ LET cols == IF width < Rest THEN width ELSE Rest
     IN  /\ AddTask(cols)
         /\ offset' = offset + cols
  /\ UNCHANGED <<pc, routine, total, threads, width>>

(* One iteration of a GEMM loop over row bands, or over the column chunks   *)
(* of a packing phase: the loop variable advances by the full width.        *)
GemmTask ==
  /\ pc = "cutting" /\ routine \in {"sbands", "spack", "dbands"}
  /\ offset < total
  /\ AddTask(IF width < Rest THEN width ELSE Rest)
  /\ offset' = offset + width
  /\ UNCHANGED <<pc, routine, total, threads, width>>

(* The loop is over: queue[count - 1].next = NULL and cblas_execute. *)
LoopOver ==
  CASE routine \in EvenRoutines       -> Len(tasks) = threads
    [] routine \in {"scols", "dcols"} -> Len(tasks) = CeilDiv(total, width)
    [] OTHER                          -> offset >= total

Dispatch ==
  /\ pc = "cutting"
  /\ LoopOver
  /\ pc' = "dispatched"
  /\ UNCHANGED <<routine, total, threads, width, offset, tasks>>

(* cblas_execute came back; the arrays are gone. *)
Return ==
  /\ pc = "dispatched"
  /\ pc' = "idle"
  /\ total' = 0 /\ threads' = 1 /\ width' = 0 /\ offset' = 0
  /\ tasks' = <<>>
  /\ UNCHANGED routine

Next ==
  \/ \E r \in Routines, n \in 1..MaxLength, t \in 1..MaxThreads : Call(r, n, t)
  \/ Level1Task \/ Level2RowsTask \/ Level2ColsTask \/ GemmTask
  \/ Dispatch
  \/ Return

Spec == Init /\ [][Next]_vars

-----------------------------------------------------------------------------
(* Properties. *)

TypeOK ==
  /\ pc \in {"idle", "cutting", "dispatched"}
  /\ routine \in Routines
  /\ total \in 0..MaxLength
  /\ threads \in 1..MaxThreads
  /\ width \in Nat
  /\ offset \in Nat
  /\ tasks \in Seq(Task)

Covers(i, x) == tasks[i].start <= x /\ x < tasks[i].start + tasks[i].size

(* When the batch is handed over, every element of the vector, every row or *)
(* column of the matrix and every packed panel belongs to exactly one task: *)
(* none is left out (the last share takes the rest, the fixed widths reach  *)
(* the end), no two threads write the same element, and no task reaches     *)
(* past the end of the operands.  cblas_level1_exec, cblas_level2_exec,     *)
(* cblas_level2_exec_cols, the loops of cblas_sgemm and cblas_dgemm.        *)
ExactCover ==
  pc = "dispatched" =>
    /\ \A x \in 0..(total - 1) :
         \E i \in 1..Len(tasks) :
           /\ Covers(i, x)
           /\ \A j \in 1..Len(tasks) : Covers(j, x) => j = i
    /\ \A i \in 1..Len(tasks) : tasks[i].start + tasks[i].size <= total

(* The array is never written past its end, at any iteration, and holds at  *)
(* least one task when queue[count - 1] closes the list: stack arrays of    *)
(* MAX_THREADS, nbands computed before the loop and asserted after it       *)
(* (gemm.c:524), "at most num_threads tasks" of a packing phase             *)
(* (gemm.c:384).                                                            *)
TasksFit ==
  /\ pc = "cutting"    => Len(tasks) <= Capacity(routine)
  /\ pc = "dispatched" => Len(tasks) \in 1..Capacity(routine)
  /\ pc = "dispatched" /\ routine \in {"sbands", "dbands"}
       => Len(tasks) = CeilDiv(total, width)

(* Only the last task of a fixed-width batch holds a partial granule: the   *)
(* slow remainder kernel runs at most once (gemm.c:363), a packing chunk    *)
(* starts on a panel (gemm.c:391), and two threads write no common cache    *)
(* line of y (util.c:832).  And no task is empty.                           *)
WholePanels ==
  pc = "dispatched" /\ routine \in FixedRoutines =>
    \A i \in 1..Len(tasks) :
      /\ tasks[i].size > 0
      /\ tasks[i].start % Granule(routine) = 0
      /\ i < Len(tasks) => tasks[i].size % Granule(routine) = 0

(* The even scheme is even: two shares differ by one at most, so no thread  *)
(* idles while another has two elements more (util.c:900, "distribute rows  *)
(* evenly").  Each share is rounded up from what the earlier ones left.     *)
Balanced ==
  pc = "dispatched" /\ routine \in EvenRoutines =>
    \A i, j \in 1..Len(tasks) : tasks[i].size <= tasks[j].size + 1

=============================================================================
