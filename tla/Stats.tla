--------------------------------- MODULE Stats ---------------------------------
(***************************************************************************)
(* The performance counters of src/util.c: a table with an entry for each  *)
(* routine that was called, created on first use.  Threads record calls    *)
(* in two critical sections, one that finds the entry and one that counts, *)
(* with nothing but a pointer kept in between; the table is cleared on     *)
(* first use, after a test without the lock, and again after the library   *)
(* was shut down.                                                          *)
(***************************************************************************)
EXTENDS Integers, Sequences, FiniteSets

CONSTANTS
  Callers,           \* threads of the application
  Operations,        \* names of routines
  NoName,            \* the empty name of an unused entry
  STATS_TABLE_SIZE,
  COUNT_MOD          \* counters are unsigned and wrap (2^64 in the code)

ASSUME StatsAssumption ==
  /\ NoName \notin Operations
  /\ STATS_TABLE_SIZE \in Nat \ {0} /\ COUNT_MOD \in Nat \ {0}

VARIABLES
  stats_initialized,
  stats_table,   \* per entry its name and total_calls
  stats_mutex,   \* "free" or "held", by a thread in init_stats_table
  spc,           \* where each thread is
  op,            \* the routine it records
  entry,         \* the pointer get_stats_entry returned
  recorded,      \* history: calls counted for each routine since the last reset
  lost           \* history: routines that found the table full

statsVars ==
  <<stats_initialized, stats_table, stats_mutex, spc, op, entry, recorded, lost>>

Entries == 1..STATS_TABLE_SIZE
NoEntry == 0
Cleared == [i \in Entries |-> [name |-> NoName, calls |-> 0]]
Nothing == [o \in Operations |-> 0]

StatsInit ==
  /\ stats_initialized = FALSE
  /\ stats_table = Cleared
  /\ stats_mutex = "free"
  /\ spc = [t \in Callers |-> "idle"]
  /\ op = [t \in Callers |-> NoName]
  /\ entry = [t \in Callers |-> NoEntry]
  /\ recorded = Nothing
  /\ lost = {}

StatsGoto(t, label) == spc' = [spc EXCEPT ![t] = label]
StatsIdle == \A t \in Callers : spc[t] = "idle"

Plus(x, times) == (x + times) % COUNT_MOD

-----------------------------------------------------------------------------
(* get_stats_entry: the first entry that is free or the routine's own. *)
Candidates(table, o) == {i \in Entries : table[i].name \in {o, NoName}}

Position(table, o) ==
  IF Candidates(table, o) = {} THEN NoEntry
  ELSE CHOOSE i \in Candidates(table, o) : \A j \in Candidates(table, o) : i <= j

Named(table, i, o) == [table EXCEPT ![i].name = o]
Counted(table, i, times) == [table EXCEPT ![i].calls = Plus(@, times)]

(* A BLAS routine returns, in a build with CBLAS_ENABLE_STATS:              *)
(* cblas_record_operation.                                                  *)
RecordCall(t) ==
  /\ spc[t] = "idle"
  /\ \E o \in Operations : op' = [op EXCEPT ![t] = o]
  /\ StatsGoto(t, "record_test")
  /\ UNCHANGED <<stats_initialized, stats_table, stats_mutex, entry, recorded, lost>>

(* cblas_reset_stats, cblas_get_stats or cblas_print_stats is called. *)
ReadCall(t) ==
  /\ spc[t] = "idle"
  /\ StatsGoto(t, "read_test")
  /\ UNCHANGED <<stats_initialized, stats_table, stats_mutex, op, entry, recorded, lost>>

\* if (!stats_initialized) init_stats_table(), without the lock; that function
\* tests once more before it locks, and once more after.
TestInitialized(t) ==
  /\ spc[t] \in {"record_test", "read_test"}
  /\ StatsGoto(t, CASE spc[t] = "record_test" /\ stats_initialized -> "find"
                    [] spc[t] = "read_test" /\ stats_initialized -> "read"
                    [] spc[t] = "record_test" /\ ~stats_initialized -> "record_init"
                    [] OTHER -> "read_init")
  /\ UNCHANGED <<stats_initialized, stats_table, stats_mutex, op, entry, recorded, lost>>

InitTableLock(t) ==
  /\ spc[t] \in {"record_init", "read_init"}
  /\ stats_mutex = "free"
  /\ stats_mutex' = "held"
  /\ StatsGoto(t, IF spc[t] = "record_init" THEN "record_clear" ELSE "read_clear")
  /\ UNCHANGED <<stats_initialized, stats_table, op, entry, recorded, lost>>

AfterInit(t) ==
  StatsGoto(t, IF spc[t] \in {"record_clear", "record_set"} THEN "find" ELSE "read")

\* Mutant: the flag is not tested again under the lock.
ClearUntested(t) ==
  /\ spc[t] \in {"record_clear", "read_clear"}
  /\ stats_table' = Cleared
  /\ StatsGoto(t, IF spc[t] = "record_clear" THEN "record_set" ELSE "read_set")
  /\ UNCHANGED <<stats_initialized, stats_mutex, op, entry, recorded, lost>>

\* The second test, under the lock, then the table ...
ClearTable(t) ==
  /\ spc[t] \in {"record_clear", "read_clear"}
  /\ IF stats_initialized
     THEN AfterInit(t) /\ stats_mutex' = "free" /\ UNCHANGED stats_table
     ELSE /\ stats_table' = Cleared
          /\ StatsGoto(t, IF spc[t] = "record_clear" THEN "record_set" ELSE "read_set")
          /\ UNCHANGED stats_mutex
  /\ UNCHANGED <<stats_initialized, op, entry, recorded, lost>>

\* ... and the flag.
SetInitialized(t) ==
  /\ spc[t] \in {"record_set", "read_set"}
  /\ stats_initialized' = TRUE
  /\ stats_mutex' = "free"
  /\ AfterInit(t)
  /\ UNCHANGED <<stats_table, op, entry, recorded, lost>>

get_stats_entry(t) ==
  LET i == Position(stats_table, op[t])
  IN  /\ spc[t] = "find" /\ stats_mutex = "free"
      /\ entry' = [entry EXCEPT ![t] = i]
      /\ IF i = NoEntry
         THEN /\ lost' = lost \cup {op[t]}
              /\ op' = [op EXCEPT ![t] = NoName]
              /\ StatsGoto(t, "idle")
              /\ UNCHANGED stats_table
         ELSE /\ stats_table' = Named(stats_table, i, op[t])
              /\ StatsGoto(t, "count")
              /\ UNCHANGED <<lost, op>>
      /\ UNCHANGED <<stats_initialized, stats_mutex, recorded>>

CountCall(t) ==
  /\ spc[t] = "count" /\ stats_mutex = "free"
  /\ stats_table' = Counted(stats_table, entry[t], 1)
  /\ recorded' = [recorded EXCEPT ![op[t]] = Plus(@, 1)]
  /\ entry' = [entry EXCEPT ![t] = NoEntry]
  /\ op' = [op EXCEPT ![t] = NoName]
  /\ StatsGoto(t, "idle")
  /\ UNCHANGED <<stats_initialized, stats_mutex, lost>>

\* cblas_reset_stats clears the counters, not the names.
ResetStats(t) ==
  /\ spc[t] = "read" /\ stats_mutex = "free"
  /\ stats_table' = [i \in Entries |-> [stats_table[i] EXCEPT !.calls = 0]]
  /\ recorded' = Nothing
  /\ StatsGoto(t, "idle")
  /\ UNCHANGED <<stats_initialized, stats_mutex, op, entry, lost>>

\* cblas_get_stats and cblas_print_stats only read.
ReadStats(t) ==
  /\ spc[t] = "read" /\ stats_mutex = "free"
  /\ StatsGoto(t, "idle")
  /\ UNCHANGED <<stats_initialized, stats_table, stats_mutex, op, entry, recorded, lost>>

\* cblas_shutdown ends with cblas_cleanup_stats; applications call it when no
\* other call is in progress.
cblas_cleanup_stats ==
  /\ StatsIdle
  /\ stats_initialized' = FALSE
  /\ recorded' = Nothing /\ lost' = {}
  /\ UNCHANGED <<stats_table, stats_mutex, spc, op, entry>>

StatsStep(t) ==
  \/ RecordCall(t) \/ ReadCall(t) \/ TestInitialized(t)
  \/ InitTableLock(t) \/ ClearTable(t) \/ SetInitialized(t)
  \/ get_stats_entry(t) \/ CountCall(t) \/ ResetStats(t) \/ ReadStats(t)

-----------------------------------------------------------------------------
(* Properties *)

(* cblas_get_stats: the first entry with the name. *)
Entry(o) == {i \in Entries : stats_table[i].name = o}

\* Every recorded call is counted for its own routine, in the one entry with
\* its name, although a thread holds a bare pointer between two critical
\* sections and the table may be cleared under its feet (util.c:328); only
\* routines that found the table full are without one, and stay without
\* (util.c:339).
StatsExact ==
  stats_initialized =>
    \A o \in Operations :
      /\ Cardinality(Entry(o)) <= 1
      /\ \A i \in Entry(o) : stats_table[i].calls = recorded[o]
      /\ Entry(o) = {} => recorded[o] = 0
      /\ o \in lost => Entry(o) = {}
===============================================================================
