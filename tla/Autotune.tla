------------------------------- MODULE Autotune -------------------------------
(***************************************************************************)
(* cblas_autotune_thresholds of src/util.c: for each of three level-1      *)
(* routines a search for the length from which threads pay.  A probe runs  *)
(* the routine with one thread and with all, through the public interface: *)
(* it sets and restores the thread count, it is counted by the statistics, *)
(* and it uses threads only above the threshold that is still in force.    *)
(*                                                                         *)
(* The hardware is a length: a call that uses threads is faster enough     *)
(* than one that does not from `crossover' on.                             *)
(***************************************************************************)
EXTENDS Stats

CONSTANTS
  Crossovers,
  ThreadCounts, Cores,
  AUTOTUNE_MIN_SIZE, AUTOTUNE_MAX_SIZE,
  BenchmarkCalls,                  \* warm-up and measured calls of one benchmark
  MT_DEFAULT,                      \* of each tuned routine
  MT_GER_DEFAULT,
  Tuned                            \* the routines in the order of their search

ASSUME AutotuneAssumption ==
  /\ Tuned \in Seq(Operations) /\ \E i \in DOMAIN Tuned : Tuned[i] = "scopy"
  /\ AUTOTUNE_MIN_SIZE \in Nat \ {0} /\ AUTOTUNE_MAX_SIZE \in Nat
  /\ Crossovers \subseteq Nat /\ ThreadCounts \subseteq Nat \ {0}
  /\ MT_DEFAULT \in [{Tuned[i] : i \in DOMAIN Tuned} -> Nat] /\ MT_GER_DEFAULT \in Nat
  /\ Cores \in Nat \ {0} /\ BenchmarkCalls \in Nat

VARIABLES
  crossover,
  cblas_max_threads,
  threshold,       \* of each tuned routine, and "ger"
  tpc,             \* "none", "search", "st", "mt", "narrow", "found", "tuned"
  routine,         \* index in Tuned
  low, high, optimal_threshold,
  orig_threads,    \* saved by a benchmark
  paid,            \* the benchmark with threads was faster
  failed,          \* a benchmark got no memory
  first_threads    \* history: the thread count the tuning started with

tuneVars ==
  <<crossover, cblas_max_threads, threshold, tpc, routine, low, high,
    optimal_threshold, orig_threads, paid, failed, first_threads>>
autotuneVars == <<statsVars, tuneVars>>

Lesser(x, y) == IF x < y THEN x ELSE y
Greater(x, y) == IF x > y THEN x ELSE y

Routines == {Tuned[i] : i \in DOMAIN Tuned}
Defaults == [r \in Routines \cup {"ger"} |->
               IF r = "ger" THEN MT_GER_DEFAULT ELSE MT_DEFAULT[r]]

AutotuneInit ==
  /\ StatsInit
  /\ crossover \in Crossovers /\ cblas_max_threads \in ThreadCounts
  /\ threshold = Defaults
  /\ tpc = "none" /\ routine = 1
  /\ low = 0 /\ high = 0 /\ optimal_threshold = 0
  /\ orig_threads = 0 /\ paid = FALSE /\ failed = FALSE
  /\ first_threads = cblas_max_threads

(* cblas_set_num_threads *)
SetNumThreads(n) == cblas_max_threads' = Lesser(Greater(n, 1), Cores)

-----------------------------------------------------------------------------
(* find_mt_threshold *)

mid == low + ((high - low) \div 2)

(* test_size after each of at most MaxDoublings turns of its loop. *)
MaxDoublings == 30
Power[e \in 0..MaxDoublings] == IF e = 0 THEN 1 ELSE 2 * Power[e - 1]
IsPowerOf2(x) == \E e \in 0..MaxDoublings : x = Power[e]

(* The range has more than one length, the first (1000 in the code) is not a *)
(* power of two, and the last (1000000) is reached by the doublings.         *)
ASSUME RangeAssumption ==
  /\ AUTOTUNE_MIN_SIZE < AUTOTUNE_MAX_SIZE
  /\ ~IsPowerOf2(AUTOTUNE_MIN_SIZE)
  /\ AUTOTUNE_MAX_SIZE <= Power[MaxDoublings]

(* The power of two that is not smaller, within the range. *)
PowerAbove(x) == CHOOSE p \in x..(2 * x) : IsPowerOf2(p) /\ \A q \in x..(p - 1) : ~IsPowerOf2(q)
test_size == Lesser(PowerAbove(mid), AUTOTUNE_MAX_SIZE)

SearchFrom(r) ==
  /\ routine' = r
  /\ low' = AUTOTUNE_MIN_SIZE /\ high' = AUTOTUNE_MAX_SIZE
  /\ optimal_threshold' = AUTOTUNE_MAX_SIZE
  /\ failed' = FALSE

NoSearch ==
  UNCHANGED <<low, high, optimal_threshold, routine, failed>>

(* cblas_autotune_thresholds, when no other call is in progress. *)
cblas_autotune_thresholds ==
  /\ tpc = "none" /\ StatsIdle
  /\ first_threads' = cblas_max_threads
  /\ IF cblas_max_threads <= 1
     THEN threshold' = Defaults /\ UNCHANGED tpc /\ NoSearch
     ELSE SearchFrom(1) /\ tpc' = "search" /\ UNCHANGED threshold
  /\ UNCHANGED <<statsVars, crossover, cblas_max_threads, orig_threads, paid>>

cblas_reset_thresholds ==
  /\ tpc = "none" /\ StatsIdle
  /\ threshold' = Defaults
  /\ UNCHANGED <<statsVars, crossover, cblas_max_threads, tpc, orig_threads, paid,
                 first_threads>>
  /\ NoSearch

(* benchmark_operation: the thread count is saved and set. *)
BenchmarkStart ==
  /\ tpc = "search" /\ low < high
  /\ orig_threads' = cblas_max_threads
  /\ SetNumThreads(1)
  /\ tpc' = "st"
  /\ UNCHANGED <<statsVars, crossover, threshold, paid, first_threads>>
  /\ NoSearch

(* The calls of a benchmark, counted as any. *)
RecordBenchmark ==
  LET o == Tuned[routine]
      table == IF stats_initialized THEN stats_table ELSE Cleared
      i == Position(table, o)
  IN  /\ stats_initialized' = TRUE
      /\ IF i = NoEntry
         THEN lost' = lost \cup {o} /\ stats_table' = table /\ UNCHANGED recorded
         ELSE /\ stats_table' = Counted(Named(table, i, o), i, BenchmarkCalls)
              /\ recorded' = [recorded EXCEPT ![o] = Plus(@, BenchmarkCalls)]
              /\ UNCHANGED lost
      /\ UNCHANGED <<stats_mutex, spc, op, entry>>

\* Mutant: the thread count is left at one.
BenchmarkSingleKeepsOne ==
  /\ tpc = "st"
  /\ RecordBenchmark
  /\ tpc' = "mt"
  /\ orig_threads' = cblas_max_threads
  /\ UNCHANGED <<crossover, cblas_max_threads, threshold, paid, first_threads>>
  /\ NoSearch

(* One benchmark ends by restoring the count it saved; the next saves and   *)
(* sets that.                                                               *)
BenchmarkSingle ==
  /\ tpc = "st"
  /\ RecordBenchmark
  /\ SetNumThreads(orig_threads)
  /\ orig_threads' = cblas_max_threads'
  /\ tpc' = "mt"
  /\ UNCHANGED <<crossover, threshold, paid, first_threads>>
  /\ NoSearch

(* mt_used in the routine: above the threshold in force, with threads. *)
mt_used == test_size > threshold[Tuned[routine]] /\ cblas_max_threads > 1

BenchmarkThreads ==
  /\ tpc = "mt"
  /\ RecordBenchmark
  /\ paid' = (mt_used /\ test_size >= crossover)
  /\ SetNumThreads(orig_threads)
  /\ tpc' = "narrow"
  /\ UNCHANGED <<crossover, threshold, orig_threads, first_threads>>
  /\ NoSearch

(* Either benchmark may get no memory, before it sets the thread count; the *)
(* other one runs all the same.                                             *)
SingleFails ==
  /\ tpc = "search" /\ low < high
  /\ tpc' = "mt" /\ failed' = TRUE
  /\ orig_threads' = cblas_max_threads
  /\ UNCHANGED <<statsVars, crossover, cblas_max_threads, threshold, paid,
                 first_threads, low, high, optimal_threshold, routine>>

ThreadsFails ==
  /\ tpc = "mt"
  /\ tpc' = "narrow" /\ failed' = TRUE
  /\ UNCHANGED <<statsVars, crossover, cblas_max_threads, threshold, orig_threads,
                 paid, first_threads, low, high, optimal_threshold, routine>>

\* Mutant: the lower half is dropped in either case.
NarrowUpwards ==
  /\ tpc = "narrow" /\ ~failed
  /\ optimal_threshold' = IF paid THEN test_size ELSE optimal_threshold
  /\ low' = mid + 1
  /\ tpc' = "search"
  /\ UNCHANGED <<statsVars, crossover, cblas_max_threads, threshold, routine, high,
                 orig_threads, paid, failed, first_threads>>

Narrow ==
  /\ tpc = "narrow" /\ ~failed
  /\ IF paid
     THEN optimal_threshold' = test_size /\ high' = mid - 1 /\ UNCHANGED low
     ELSE low' = mid + 1 /\ UNCHANGED <<optimal_threshold, high>>
  /\ tpc' = "search"
  /\ UNCHANGED <<statsVars, crossover, cblas_max_threads, threshold, routine,
                 orig_threads, paid, failed, first_threads>>

(* The search also ends when a benchmark failed. *)
SearchEnds ==
  /\ \/ tpc = "search" /\ low >= high
     \/ tpc = "narrow" /\ failed
  /\ tpc' = "found"
  /\ UNCHANGED <<statsVars, crossover, cblas_max_threads, threshold, orig_threads,
                 paid, first_threads>>
  /\ NoSearch

(* The threshold is stored; after the last one, that of GER follows COPY's, *)
(* but not below half its default (which exceeds the other bound, 1024), and *)
(* GEMV's and GEMM's are the same.                                          *)
Store ==
  LET found == [threshold EXCEPT ![Tuned[routine]] = optimal_threshold]
  IN  /\ tpc = "found"
      /\ IF routine < Len(Tuned)
         THEN threshold' = found /\ SearchFrom(routine + 1) /\ tpc' = "search"
         ELSE /\ threshold' = [found EXCEPT !["ger"] =
                                 Greater(found["scopy"] \div 8, MT_GER_DEFAULT \div 2)]
              /\ tpc' = "tuned" /\ NoSearch
      /\ UNCHANGED <<statsVars, crossover, cblas_max_threads, orig_threads, paid,
                     first_threads>>

TuneReturn ==
  /\ tpc = "tuned"
  /\ tpc' = "none" /\ routine' = 1
  /\ low' = 0 /\ high' = 0 /\ optimal_threshold' = 0
  /\ orig_threads' = 0 /\ paid' = FALSE /\ failed' = FALSE
  /\ UNCHANGED <<statsVars, crossover, cblas_max_threads, threshold, first_threads>>

TuneStep ==
  \/ cblas_autotune_thresholds \/ cblas_reset_thresholds
  \/ BenchmarkStart \/ BenchmarkSingle \/ BenchmarkThreads
  \/ SingleFails \/ ThreadsFails \/ Narrow \/ SearchEnds \/ Store \/ TuneReturn

AutotuneNext ==
  \/ TuneStep
  \/ /\ tpc = "none"
     /\ cblas_cleanup_stats \/ \E t \in Callers : StatsStep(t)
     /\ UNCHANGED tuneVars

AutotuneSpec == AutotuneInit /\ [][AutotuneNext]_autotuneVars

-----------------------------------------------------------------------------
(* Properties *)

(* The lengths a probe can have. *)
ProbeSizes ==
  {Lesser(PowerAbove(x), AUTOTUNE_MAX_SIZE) : x \in AUTOTUNE_MIN_SIZE..AUTOTUNE_MAX_SIZE}

\* The search ends on the shortest probe on which threads were used and paid,
\* or on AUTOTUNE_MAX_SIZE when there is none, although it rounds each probe,
\* narrows by mid - 1 and never tries the last candidate (util.c:1366).
ThresholdIsCrossover ==
  tpc = "found" /\ ~failed =>
    LET paying == {s \in ProbeSizes :
                     s >= crossover /\ s > threshold[Tuned[routine]] /\ cblas_max_threads > 1}
    IN  optimal_threshold =
          IF paying = {} THEN AUTOTUNE_MAX_SIZE
          ELSE CHOOSE s \in paying : \A r \in paying : s <= r

\* Tuning leaves the thread count as it found it, up to the number of cores, to
\* which every cblas_set_num_threads cuts it (util.c:1335).
ThreadsRestored ==
  tpc = "tuned" =>
    cblas_max_threads \in {first_threads, Lesser(first_threads, Cores)}
===============================================================================
