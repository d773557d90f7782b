---------------------------- MODULE AutotuneProofs ----------------------------
(***************************************************************************)
(* Proofs about Stats and Autotune, for every number of threads, routines, *)
(* entries and calls and whatever the hardware does: the statistics count  *)
(* every call for its own routine, tuning gives the thread count back, and *)
(* a search finds the least length on which threads pay.                   *)
(***************************************************************************)
EXTENDS Autotune, TLAPS, FiniteSetTheorems, WellFoundedInduction

Names == Operations \cup {NoName}
Tables == [Entries -> [name : Names, calls : Nat]]
Counts == [Operations -> Nat]

(* Used entries come first, so that a search for a name ends at the name    *)
(* or at the first free entry.                                              *)
NamesFirst(tab) ==
  \A i, j \in Entries : i < j /\ tab[i].name = NoName => tab[j].name = NoName

NamesUnique(tab) ==
  \A i, j \in Entries : tab[i].name = tab[j].name /\ tab[i].name # NoName => i = j

CountsRight(tab, rec) ==
  \A i \in Entries :
    /\ tab[i].name = NoName => tab[i].calls = 0
    /\ tab[i].name # NoName => tab[i].calls = rec[tab[i].name]

UnnamedUncounted(tab, rec) ==
  \A o \in Operations : (\A i \in Entries : tab[i].name # o) => rec[o] = 0

(* Who found the table full finds it full again.                            *)
LostForGood(tab, los) == \A o \in los, i \in Entries : tab[i].name \notin {o, NoName}

TableOK(tab, rec, los) ==
  /\ NamesFirst(tab) /\ NamesUnique(tab) /\ CountsRight(tab, rec)
  /\ UnnamedUncounted(tab, rec) /\ LostForGood(tab, los)

-----------------------------------------------------------------------------
(* Lemmas on tables *)

\* Every non-empty set of numbers has a least element.
LEMMA LeastExists ==
  ASSUME NEW S \in SUBSET Nat, S # {}
  PROVE  \E i \in S : \A j \in S : i <= j
<1>. DEFINE R == OpToRel(<, Nat)
<1>1. \A x, y \in Nat : <<y, x>> \in R <=> y < x
  BY DEF OpToRel
<1>2. IsWellFoundedOn(R, Nat)
  BY NatLessThanWellFounded
<1>. HIDE DEF R
<1>3. PICK i \in S : \A j \in S : ~(<<j, i>> \in R)
  BY <1>2, WFMin
<1>4. i \in Nat /\ \A j \in S : j \in Nat /\ ~(j < i)
  BY <1>1, <1>3
<1>5. \A j \in S : i <= j
  BY <1>4
<1>. QED
  BY <1>5

\* The scan of get_stats_entry returns the routine's entry if it has one, else
\* the first free one, else none.
LEMMA PositionFinds ==
  ASSUME NEW tab \in Tables, NEW o \in Operations, NEW i, i = Position(tab, o)
  PROVE  /\ i \in Entries \cup {NoEntry}
         /\ i = NoEntry => \A j \in Entries : tab[j].name \notin {o, NoName}
         /\ i # NoEntry => /\ tab[i].name \in {o, NoName}
                           /\ \A j \in Entries : tab[j].name \in {o, NoName} => i <= j
<1>. DEFINE C == Candidates(tab, o)
<1>0. NoEntry \notin Entries
  BY StatsAssumption DEF NoEntry, Entries
<1>1. C \in SUBSET Nat /\ C = {j \in Entries : tab[j].name \in {o, NoName}}
  BY StatsAssumption DEF Candidates, Entries
<1>3. i = IF C = {} THEN NoEntry ELSE CHOOSE k \in C : \A j \in C : k <= j
  BY DEF Position
<1>. HIDE DEF C
<1>4. CASE C = {}
  BY <1>0, <1>1, <1>3, <1>4
<1>5. CASE C # {}
  <2>1. i \in C /\ \A j \in C : i <= j
    BY <1>1, <1>3, <1>5, LeastExists
  <2>. QED
    BY <1>0, <1>1, <2>1
<1>. QED
  BY <1>4, <1>5

\* The empty table goes with nothing counted.
LEMMA ClearedOK ==
  Cleared \in Tables /\ Nothing \in Counts /\ TableOK(Cleared, Nothing, {})
BY DEF Cleared, Nothing, Tables, Counts, Names, TableOK, NamesFirst, NamesUnique,
       CountsRight, UnnamedUncounted, LostForGood

\* Giving the entry that was found its name disturbs no other and counts nothing.
LEMMA NamedOK ==
  ASSUME NEW tab \in Tables, NEW rec \in Counts, NEW los \in SUBSET Operations,
         TableOK(tab, rec, los), NEW o \in Operations,
         NEW i \in Entries, i = Position(tab, o),
         NEW new, new = Named(tab, i, o)
  PROVE  /\ new \in Tables /\ TableOK(new, rec, los)
         /\ new[i].name = o
         /\ \A j \in Entries : tab[j].name # NoName => new[j].name = tab[j].name
<1>0. NoEntry \notin Entries /\ Entries \subseteq Int /\ NoName \notin Operations
  BY StatsAssumption DEF NoEntry, Entries
<1>1. /\ tab[i].name \in {o, NoName}
      /\ \A j \in Entries : tab[j].name \in {o, NoName} => i <= j
  BY <1>0, PositionFinds
<1>2. /\ new \in Tables /\ new[i].name = o
      /\ \A j \in Entries : new[j].calls = tab[j].calls
      /\ \A j \in Entries \ {i} : new[j].name = tab[j].name
  BY DEF Named, Tables, Names
<1>3. ASSUME NEW j \in Entries, tab[j].name = o
      PROVE  j = i
  <2>1. i <= j
    BY <1>1, <1>3
  <2>2. CASE i < j
    <3>1. tab[i].name # NoName
      BY <1>0, <1>3, <2>2 DEF TableOK, NamesFirst
    <3>2. tab[i].name = o
      BY <1>1, <3>1
    <3>. QED
      BY <1>0, <1>3, <3>2 DEF TableOK, NamesUnique
  <2>. QED
    BY <1>0, <2>1, <2>2
<1>4. NamesFirst(new)
  <2>1. ASSUME NEW k \in Entries, NEW j \in Entries, k < j, new[k].name = NoName
        PROVE  new[j].name = NoName
    <3>1. k # i /\ tab[k].name = NoName
      BY <1>0, <1>2, <2>1
    <3>2. tab[j].name = NoName
      BY <2>1, <3>1 DEF TableOK, NamesFirst
    <3>3. i < j
      BY <1>0, <1>1, <2>1, <3>1
    <3>. QED
      BY <1>0, <1>2, <3>2, <3>3
  <2>. QED
    BY <2>1 DEF NamesFirst
<1>5. NamesUnique(new)
  <2>1. \A j \in Entries \ {i} : new[j].name # o
    BY <1>2, <1>3
  <2>. QED
    BY <1>2, <2>1 DEF TableOK, NamesUnique
<1>6. CountsRight(new, rec)
  <2>1. new[i].calls = rec[o]
    <3>1. CASE tab[i].name = o
      BY <1>0, <1>2, <3>1 DEF TableOK, CountsRight
    <3>2. CASE tab[i].name = NoName
      <4>1. \A j \in Entries : tab[j].name # o
        BY <1>0, <1>3, <3>2
      <4>2. rec[o] = 0
        BY <4>1 DEF TableOK, UnnamedUncounted
      <4>. QED
        BY <1>2, <3>2, <4>2 DEF TableOK, CountsRight
    <3>. QED
      BY <1>1, <3>1, <3>2
  <2>. QED
    BY <1>0, <1>2, <2>1 DEF TableOK, CountsRight
<1>7. UnnamedUncounted(new, rec)
  <2>1. ASSUME NEW p \in Operations, \A j \in Entries : new[j].name # p
        PROVE  \A j \in Entries : tab[j].name # p
    BY <1>0, <1>1, <1>2, <2>1
  <2>. QED
    BY <2>1 DEF TableOK, UnnamedUncounted
<1>8. LostForGood(new, los)
  BY <1>0, <1>1, <1>2 DEF TableOK, LostForGood
<1>9. \A j \in Entries : tab[j].name # NoName => new[j].name = tab[j].name
  BY <1>1, <1>2
<1>. QED
  BY <1>2, <1>4, <1>5, <1>6, <1>7, <1>8, <1>9 DEF TableOK

\* A counter that wraps is still a number.
LEMMA PlusNat ==
  ASSUME NEW x \in Nat, NEW n \in Nat
  PROVE  Plus(x, n) \in Nat
BY StatsAssumption DEF Plus

\* Counting in the entry of a routine counts for that routine.
LEMMA CountedOK ==
  ASSUME NEW tab \in Tables, NEW rec \in Counts, NEW los \in SUBSET Operations,
         TableOK(tab, rec, los), NEW o \in Operations,
         NEW i \in Entries, tab[i].name = o, NEW n \in Nat,
         NEW new, new = Counted(tab, i, n),
         NEW more \in Counts, more[o] = Plus(rec[o], n),
         \A p \in Operations \ {o} : more[p] = rec[p]
  PROVE  /\ new \in Tables /\ TableOK(new, more, los)
         /\ \A j \in Entries : new[j].name = tab[j].name
<1>1. \A x \in Nat : Plus(x, n) \in Nat
  BY PlusNat
<1>2. /\ new \in Tables
      /\ \A j \in Entries : new[j].name = tab[j].name
      /\ new[i].calls = Plus(tab[i].calls, n)
      /\ \A j \in Entries \ {i} : new[j].calls = tab[j].calls
  BY <1>1 DEF Counted, Tables
<1>4. NamesFirst(new) /\ NamesUnique(new) /\ LostForGood(new, los)
  BY <1>2 DEF TableOK, NamesFirst, NamesUnique, LostForGood
<1>5. CountsRight(new, more)
  <2>1. tab[i].calls = rec[o] /\ o # NoName
    BY StatsAssumption DEF TableOK, CountsRight
  <2>2. \A j \in Entries \ {i} : tab[j].name # o /\ tab[j].name \in Names
    BY <2>1 DEF TableOK, NamesUnique, Tables
  <2>. QED
    BY <1>2, <2>1, <2>2 DEF TableOK, CountsRight, Names
<1>6. UnnamedUncounted(new, more)
  BY <1>2 DEF TableOK, UnnamedUncounted
<1>. QED
  BY <1>2, <1>4, <1>5, <1>6 DEF TableOK

\* A routine without an entry, in a table without a free one, has none to come.
LEMMA FullOK ==
  ASSUME NEW tab \in Tables, NEW rec \in Counts, NEW los \in SUBSET Operations,
         TableOK(tab, rec, los), NEW o \in Operations, Position(tab, o) = NoEntry
  PROVE  TableOK(tab, rec, los \cup {o})
<1>1. \A j \in Entries : tab[j].name \notin {o, NoName}
  BY PositionFinds
<1>. QED
  BY <1>1 DEF TableOK, LostForGood

\* Clearing the counters and not the names.
LEMMA ResetOK ==
  ASSUME NEW tab \in Tables, NEW rec \in Counts, NEW los \in SUBSET Operations,
         TableOK(tab, rec, los),
         NEW new, new = [i \in Entries |-> [tab[i] EXCEPT !.calls = 0]]
  PROVE  new \in Tables /\ TableOK(new, Nothing, los)
         /\ \A j \in Entries : new[j].name = tab[j].name
<1>1. /\ new \in Tables
      /\ \A j \in Entries : new[j].name = tab[j].name /\ new[j].calls = 0
  BY DEF Tables
<1>2. \A j \in Entries : new[j].name # NoName => new[j].name \in Operations
  BY <1>1 DEF Tables, Names
<1>3. NamesFirst(new) /\ NamesUnique(new) /\ LostForGood(new, los)
  BY <1>1 DEF TableOK, NamesFirst, NamesUnique, LostForGood
<1>4. CountsRight(new, Nothing) /\ UnnamedUncounted(new, Nothing)
  BY <1>1, <1>2 DEF CountsRight, UnnamedUncounted, Nothing
<1>. QED
  BY <1>1, <1>3, <1>4 DEF TableOK

-----------------------------------------------------------------------------
(* The invariant of the statistics *)

Clearing == {"record_clear", "read_clear"}
Setting == {"record_set", "read_set"}
Recording == {"record_test", "record_init", "record_clear", "record_set", "find", "count"}
Inside == {"find", "count", "read"}
Steps == {"idle", "record_test", "read_test", "record_init", "read_init",
          "record_clear", "read_clear", "record_set", "read_set", "find", "count", "read"}

StatsTypeOK ==
  /\ stats_initialized \in BOOLEAN
  /\ stats_table \in Tables
  /\ stats_mutex \in {"free", "held"}
  /\ spc \in [Callers -> Steps]
  /\ op \in [Callers -> Names]
  /\ entry \in [Callers -> Entries \cup {NoEntry}]
  /\ recorded \in Counts
  /\ lost \in SUBSET Operations

(* One thread at most is between the test under the lock and the flag, and  *)
(* what it is about to publish is an empty table.                           *)
OneClears ==
  /\ \A t \in Callers : spc[t] \in Clearing \cup Setting => stats_mutex = "held"
  /\ \A s, t \in Callers :
       spc[s] \in Clearing \cup Setting /\ spc[t] \in Clearing \cup Setting => s = t
  /\ \A t \in Callers : spc[t] \in Setting => ~stats_initialized /\ stats_table = Cleared

(* Before the table is there, nobody uses it and nothing was counted.       *)
NothingYet ==
  ~stats_initialized =>
    /\ recorded = Nothing /\ lost = {}
    /\ \A t \in Callers : spc[t] \notin Inside

(* The pointer a thread brings back to the lock is to its routine's entry.  *)
PointerGood ==
  \A t \in Callers :
    /\ spc[t] \in Recording => op[t] \in Operations
    /\ spc[t] = "count" => entry[t] \in Entries /\ stats_table[entry[t]].name = op[t]

CountedRight == stats_initialized => TableOK(stats_table, recorded, lost)

StatsInv ==
  StatsTypeOK /\ OneClears /\ NothingYet /\ PointerGood /\ CountedRight

\* Initially the table is empty and nobody is in it.
LEMMA StatsInitially ==
  ASSUME StatsInit
  PROVE  StatsInv
<1>1. StatsTypeOK
  BY ClearedOK DEF StatsInit, StatsTypeOK, Steps, Names
<1>2. OneClears /\ NothingYet /\ PointerGood /\ CountedRight
  BY DEF StatsInit, OneClears, NothingYet, PointerGood, CountedRight, Clearing,
         Setting, Inside, Recording
<1>. QED
  BY <1>1, <1>2 DEF StatsInv

\* The steps that touch neither table nor counters: only the place of a thread,
\* what it records and the mutex change.
LEMMA MovePreserves ==
  ASSUME StatsInv, NEW t \in Callers,
         \/ RecordCall(t) \/ ReadCall(t) \/ TestInitialized(t) \/ InitTableLock(t)
         \/ ReadStats(t)
  PROVE  StatsInv'
<1>. USE DEF StatsInv, StatsTypeOK, OneClears, NothingYet, PointerGood, CountedRight
<1>. USE DEF Clearing, Setting, Inside, Recording, Steps, StatsGoto
<1>1. CASE RecordCall(t)
  BY <1>1 DEF RecordCall, Names
<1>2. CASE ReadCall(t)
  BY <1>2 DEF ReadCall
<1>3. CASE TestInitialized(t)
  BY <1>3 DEF TestInitialized
<1>4. CASE InitTableLock(t)
  BY <1>4 DEF InitTableLock
<1>5. CASE ReadStats(t)
  BY <1>5 DEF ReadStats
<1>. QED
  BY <1>1, <1>2, <1>3, <1>4, <1>5

\* The table is emptied only by the thread that saw the flag down under the lock.
LEMMA ClearPreserves ==
  ASSUME StatsInv, NEW t \in Callers, ClearTable(t)
  PROVE  StatsInv'
<1>. USE DEF StatsInv, StatsTypeOK, OneClears, NothingYet, PointerGood, CountedRight
<1>. USE DEF Clearing, Setting, Inside, Recording, Steps, StatsGoto, ClearTable
<1>1. CASE stats_initialized
  BY <1>1 DEF AfterInit
<1>2. CASE ~stats_initialized
  BY <1>2, ClearedOK
<1>. QED
  BY <1>1, <1>2

\* The flag goes up on an empty table.
LEMMA SetPreserves ==
  ASSUME StatsInv, NEW t \in Callers, SetInitialized(t)
  PROVE  StatsInv'
<1>. USE DEF StatsInv, StatsTypeOK, OneClears, NothingYet, PointerGood, CountedRight
<1>1. ~stats_initialized /\ stats_table = Cleared /\ recorded = Nothing /\ lost = {}
  BY DEF SetInitialized, Setting
<1>2. UNCHANGED <<stats_table, recorded, lost, op, entry>>
  BY DEF SetInitialized
<1>3. CountedRight'
  BY <1>1, <1>2, ClearedOK
<1>4. StatsTypeOK' /\ OneClears' /\ NothingYet' /\ PointerGood'
  BY <1>1, <1>2 DEF SetInitialized, AfterInit, StatsGoto, Clearing, Setting, Inside,
                    Recording, Steps
<1>. QED
  BY <1>3, <1>4


\* The first critical section: the entry is found or made, or the table is full.
LEMMA FindPreserves ==
  ASSUME StatsInv, NEW t \in Callers, get_stats_entry(t)
  PROVE  StatsInv'
<1>. USE DEF StatsInv
<1>1. PICK o : o = op[t]
  OBVIOUS
<1>2. PICK i : i = Position(stats_table, o)
  OBVIOUS
<1>3. PICK new : new = Named(stats_table, i, o)
  OBVIOUS
<1>4. spc[t] = "find" /\ stats_mutex = "free" /\ UNCHANGED <<stats_initialized, stats_mutex, recorded>>
  BY DEF get_stats_entry
<1>5. entry' = [entry EXCEPT ![t] = i]
  BY <1>1, <1>2 DEF get_stats_entry
<1>6. stats_initialized /\ o \in Operations
  BY <1>1, <1>4 DEF NothingYet, PointerGood, Inside, Recording
<1>7. stats_table \in Tables /\ recorded \in Counts /\ lost \in SUBSET Operations
      /\ TableOK(stats_table, recorded, lost)
  BY <1>6 DEF StatsTypeOK, CountedRight
<1>8. i \in Entries \cup {NoEntry}
  BY <1>2, <1>6, <1>7, PositionFinds
<1>9. \A s \in Callers : spc[s] \notin Clearing \cup Setting
  BY <1>4 DEF OneClears
<1>10. CASE i = NoEntry
  <2>1. /\ lost' = lost \cup {o} /\ stats_table' = stats_table
        /\ op' = [op EXCEPT ![t] = NoName] /\ spc' = [spc EXCEPT ![t] = "idle"]
    BY <1>1, <1>2, <1>10 DEF get_stats_entry, StatsGoto
  <2>2. CountedRight'
    BY <1>2, <1>4, <1>6, <1>7, <1>10, <2>1, FullOK DEF CountedRight
  <2>3. StatsTypeOK'
    BY <1>4, <1>5, <1>6, <1>8, <2>1 DEF StatsTypeOK, Steps, Names
  <2>4. OneClears' /\ NothingYet' /\ PointerGood'
    BY <1>4, <1>5, <1>6, <1>9, <2>1
    DEF StatsTypeOK, OneClears, NothingYet, PointerGood, Clearing, Setting, Inside, Recording
  <2>. QED
    BY <2>2, <2>3, <2>4
<1>11. CASE i # NoEntry
  <2>1. stats_table' = new /\ UNCHANGED <<lost, op>> /\ spc' = [spc EXCEPT ![t] = "count"]
    BY <1>1, <1>2, <1>3, <1>11 DEF get_stats_entry, StatsGoto
  <2>2. /\ new \in Tables /\ TableOK(new, recorded, lost) /\ new[i].name = o
        /\ \A j \in Entries : stats_table[j].name # NoName => new[j].name = stats_table[j].name
    BY <1>2, <1>3, <1>6, <1>7, <1>8, <1>11, NamedOK
  <2>3. CountedRight' /\ NothingYet'
    BY <1>4, <1>6, <2>1, <2>2 DEF CountedRight, NothingYet
  <2>4. StatsTypeOK'
    BY <1>4, <1>5, <1>8, <2>1, <2>2 DEF StatsTypeOK, Steps
  <2>5. OneClears'
    BY <1>4, <1>9, <2>1 DEF StatsTypeOK, OneClears, Clearing, Setting
  <2>6. PointerGood'
    <3>1. ASSUME NEW s \in Callers
          PROVE  /\ spc'[s] \in Recording => op'[s] \in Operations
                 /\ spc'[s] = "count" => entry'[s] \in Entries /\ stats_table'[entry'[s]].name = op'[s]
      <4>1. CASE s = t
        BY <1>1, <1>5, <1>6, <1>8, <1>11, <2>1, <2>2, <4>1 DEF StatsTypeOK
      <4>2. CASE s # t
        <5>1. spc'[s] = spc[s] /\ op'[s] = op[s] /\ entry'[s] = entry[s]
          BY <1>5, <2>1, <4>2 DEF StatsTypeOK
        <5>2. spc[s] = "count" => entry[s] \in Entries /\ stats_table[entry[s]].name = op[s]
                                  /\ op[s] \in Operations
          BY DEF PointerGood, Recording
        <5>3. spc[s] = "count" => new[entry[s]].name = op[s]
          BY <2>2, <5>2, StatsAssumption
        <5>. QED
          BY <2>1, <5>1, <5>2, <5>3 DEF PointerGood
      <4>. QED
        BY <4>1, <4>2
    <3>. QED
      BY <3>1 DEF PointerGood
  <2>. QED
    BY <2>3, <2>4, <2>5, <2>6
<1>. QED
  BY <1>10, <1>11

\* The second one: the pointer still leads to the routine's entry.
LEMMA CountPreserves ==
  ASSUME StatsInv, NEW t \in Callers, CountCall(t)
  PROVE  StatsInv'
<1>. USE DEF StatsInv
<1>1. PICK o : o = op[t]
  OBVIOUS
<1>2. PICK i : i = entry[t]
  OBVIOUS
<1>3. PICK new : new = Counted(stats_table, i, 1)
  OBVIOUS
<1>4. PICK more : more = [recorded EXCEPT ![o] = Plus(@, 1)]
  OBVIOUS
<1>5. /\ spc[t] = "count" /\ stats_mutex = "free"
      /\ stats_table' = new /\ recorded' = more
      /\ entry' = [entry EXCEPT ![t] = NoEntry] /\ op' = [op EXCEPT ![t] = NoName]
      /\ spc' = [spc EXCEPT ![t] = "idle"]
      /\ UNCHANGED <<stats_initialized, stats_mutex, lost>>
  BY <1>1, <1>2, <1>3, <1>4 DEF CountCall, StatsGoto
<1>6. stats_initialized /\ o \in Operations /\ i \in Entries /\ stats_table[i].name = o
  BY <1>1, <1>2, <1>5 DEF NothingYet, PointerGood, Inside, Recording
<1>7. stats_table \in Tables /\ recorded \in Counts /\ lost \in SUBSET Operations
      /\ TableOK(stats_table, recorded, lost)
  BY <1>6 DEF StatsTypeOK, CountedRight
<1>8. /\ more \in Counts /\ more[o] = Plus(recorded[o], 1)
      /\ \A p \in Operations \ {o} : more[p] = recorded[p]
  BY <1>4, <1>6, <1>7, PlusNat DEF Counts
<1>9. /\ new \in Tables /\ TableOK(new, more, lost)
       /\ \A j \in Entries : new[j].name = stats_table[j].name
  BY <1>3, <1>6, <1>7, <1>8, CountedOK
<1>10. CountedRight' /\ NothingYet'
  BY <1>5, <1>6, <1>8, <1>9 DEF CountedRight, NothingYet
<1>11. StatsTypeOK'
  BY <1>5, <1>8, <1>9 DEF StatsTypeOK, Steps, Names
<1>12. OneClears'
  BY <1>5 DEF StatsTypeOK, OneClears, Clearing, Setting
<1>13. PointerGood'
  BY <1>5, <1>8, <1>9 DEF StatsTypeOK, PointerGood, Recording
<1>. QED
  BY <1>10, <1>11, <1>12, <1>13

\* Clearing the counters leaves every pointer right.
LEMMA ResetPreserves ==
  ASSUME StatsInv, NEW t \in Callers, ResetStats(t)
  PROVE  StatsInv'
<1>. USE DEF StatsInv
<1>1. PICK new : new = [i \in Entries |-> [stats_table[i] EXCEPT !.calls = 0]]
  OBVIOUS
<1>2. /\ spc[t] = "read" /\ stats_mutex = "free"
      /\ stats_table' = new /\ recorded' = Nothing /\ spc' = [spc EXCEPT ![t] = "idle"]
      /\ UNCHANGED <<stats_initialized, stats_mutex, op, entry, lost>>
  BY <1>1 DEF ResetStats, StatsGoto
<1>3. stats_initialized
  BY <1>2 DEF NothingYet, Inside
<1>4. /\ new \in Tables /\ TableOK(new, Nothing, lost)
      /\ \A j \in Entries : new[j].name = stats_table[j].name
  BY <1>1, <1>3, ResetOK DEF StatsTypeOK, CountedRight
<1>5. CountedRight' /\ NothingYet'
  BY <1>2, <1>3, <1>4 DEF CountedRight, NothingYet
<1>6. StatsTypeOK'
  BY <1>2, <1>4, ClearedOK DEF StatsTypeOK, Steps
<1>7. OneClears'
  BY <1>2 DEF StatsTypeOK, OneClears, Clearing, Setting
<1>8. PointerGood'
  BY <1>2, <1>4 DEF StatsTypeOK, PointerGood, Recording
<1>. QED
  BY <1>5, <1>6, <1>7, <1>8

\* After the shutdown the table counts as empty; nobody is in it.
LEMMA CleanupPreserves ==
  ASSUME StatsInv, cblas_cleanup_stats
  PROVE  StatsInv'
<1>1. \A t \in Callers : spc[t] = "idle"
  BY DEF cblas_cleanup_stats, StatsIdle
<1>. QED
  BY <1>1, ClearedOK
  DEF cblas_cleanup_stats, StatsInv, StatsTypeOK, OneClears, NothingYet, PointerGood,
      CountedRight, Clearing, Setting, Inside, Recording

\* The calls of a benchmark, made while nobody else records.
LEMMA BenchmarkPreserves ==
  ASSUME StatsInv, StatsIdle, routine \in DOMAIN Tuned, RecordBenchmark
  PROVE  StatsInv'
<1>. USE DEF StatsInv
<1>1. PICK o : o = Tuned[routine]
  OBVIOUS
<1>2. PICK table : table = IF stats_initialized THEN stats_table ELSE Cleared
  OBVIOUS
<1>3. PICK i : i = Position(table, o)
  OBVIOUS
<1>4. PICK named : named = Named(table, i, o)
  OBVIOUS
<1>5. PICK new : new = Counted(named, i, BenchmarkCalls)
  OBVIOUS
<1>6. PICK more : more = [recorded EXCEPT ![o] = Plus(@, BenchmarkCalls)]
  OBVIOUS
<1>7. o \in Operations /\ BenchmarkCalls \in Nat
  BY <1>1, AutotuneAssumption
<1>8. table \in Tables /\ recorded \in Counts /\ lost \in SUBSET Operations
      /\ TableOK(table, recorded, lost)
  BY <1>2, ClearedOK DEF StatsTypeOK, CountedRight, NothingYet
<1>9. stats_initialized' = TRUE /\ UNCHANGED <<stats_mutex, spc, op, entry>>
  BY DEF RecordBenchmark
<1>10. \A t \in Callers : spc[t] = "idle"
  BY DEF StatsIdle
<1>11. i \in Entries \cup {NoEntry}
  BY <1>3, <1>7, <1>8, PositionFinds
<1>12. stats_table' \in Tables /\ recorded' \in Counts /\ lost' \in SUBSET Operations
       /\ TableOK(stats_table', recorded', lost')
  <2>1. CASE i = NoEntry
    <3>1. lost' = lost \cup {o} /\ stats_table' = table /\ recorded' = recorded
      BY <1>1, <1>2, <1>3, <2>1 DEF RecordBenchmark
    <3>2. TableOK(table, recorded, lost \cup {o})
      BY <1>3, <1>7, <1>8, <2>1, FullOK
    <3>. QED
      BY <1>7, <1>8, <3>1, <3>2
  <2>2. CASE i # NoEntry
    <3>1. lost' = lost /\ stats_table' = new /\ recorded' = more
      BY <1>1, <1>2, <1>3, <1>4, <1>5, <1>6, <2>2 DEF RecordBenchmark
    <3>2. named \in Tables /\ TableOK(named, recorded, lost) /\ named[i].name = o
      BY <1>3, <1>4, <1>7, <1>8, <1>11, <2>2, NamedOK
    <3>3. /\ more \in Counts /\ more[o] = Plus(recorded[o], BenchmarkCalls)
          /\ \A p \in Operations \ {o} : more[p] = recorded[p]
      BY <1>6, <1>7, <1>8, PlusNat DEF Counts
    <3>4. new \in Tables /\ TableOK(new, more, lost)
      BY <1>5, <1>7, <1>8, <1>11, <2>2, <3>2, <3>3, CountedOK
    <3>. QED
      BY <1>8, <3>1, <3>3, <3>4
  <2>. QED
    BY <2>1, <2>2
<1>13. StatsTypeOK'
  BY <1>9, <1>12 DEF StatsTypeOK
<1>14. CountedRight'
  BY <1>12 DEF CountedRight
<1>15. OneClears' /\ NothingYet' /\ PointerGood'
  BY <1>9, <1>10 DEF OneClears, NothingYet, PointerGood, Clearing, Setting, Recording
<1>. QED
  BY <1>13, <1>14, <1>15

-----------------------------------------------------------------------------
(* The invariant of the tuning *)

TuneSteps == {"none", "search", "st", "mt", "narrow", "found", "tuned"}

(* While it tunes, nobody else records.                                     *)
TuneInv ==
  /\ routine \in 1..Len(Tuned)
  /\ tpc \in TuneSteps
  /\ tpc # "none" => StatsIdle

Kept == {first_threads, Lesser(first_threads, Cores)}

(* The thread count is the first one or that one cut to the cores, except   *)
(* in a benchmark of a single thread, when the saved one is.                *)
ThreadsInv ==
  /\ cblas_max_threads \in Nat \ {0} /\ first_threads \in Nat \ {0}
  /\ tpc \in TuneSteps \ {"none", "st"} => cblas_max_threads \in Kept
  /\ tpc \in {"st", "mt"} => orig_threads \in Kept

\* A step of a thread in the statistics.
LEMMA StatsStepPreserves ==
  ASSUME StatsInv, NEW t \in Callers, StatsStep(t)
  PROVE  StatsInv'
BY MovePreserves, ClearPreserves, SetPreserves, FindPreserves, CountPreserves,
   ResetPreserves DEF StatsStep

\* The steps of the tuning that record nothing leave the statistics alone.
LEMMA StatsUnchanged ==
  ASSUME StatsInv, UNCHANGED statsVars
  PROVE  StatsInv'
BY DEF statsVars, StatsInv, StatsTypeOK, OneClears, NothingYet, PointerGood, CountedRight

\* The two steps that record do so for the routine of the search.
LEMMA TuneKeepsStats ==
  ASSUME StatsInv, TuneInv, TuneStep
  PROVE  StatsInv'
<1>1. CASE BenchmarkSingle \/ BenchmarkThreads
  <2>1. RecordBenchmark /\ StatsIdle
    BY <1>1 DEF BenchmarkSingle, BenchmarkThreads, TuneInv
  <2>2. routine \in DOMAIN Tuned
    BY AutotuneAssumption DEF TuneInv
  <2>. QED
    BY <2>1, <2>2, BenchmarkPreserves
<1>2. CASE ~(BenchmarkSingle \/ BenchmarkThreads)
  <2>1. UNCHANGED statsVars
    BY <1>2 DEF TuneStep, cblas_autotune_thresholds, cblas_reset_thresholds,
                BenchmarkStart, SingleFails, ThreadsFails, Narrow, SearchEnds, Store,
                TuneReturn
  <2>. QED
    BY <2>1, StatsUnchanged
<1>. QED
  BY <1>1, <1>2

\* The search stays within the tuned routines, alone.
LEMMA TuneInvPreserved ==
  ASSUME TuneInv, TuneStep
  PROVE  TuneInv'
<1>1. StatsIdle
  BY DEF TuneStep, TuneInv, cblas_autotune_thresholds, cblas_reset_thresholds,
         BenchmarkStart, BenchmarkSingle, BenchmarkThreads, SingleFails, ThreadsFails,
         Narrow, SearchEnds, Store, TuneReturn
<1>2. UNCHANGED spc
  BY DEF TuneStep, cblas_autotune_thresholds, cblas_reset_thresholds, BenchmarkStart,
         BenchmarkSingle, BenchmarkThreads, SingleFails, ThreadsFails, Narrow,
         SearchEnds, Store, TuneReturn, RecordBenchmark, statsVars
<1>3. StatsIdle'
  BY <1>1, <1>2 DEF StatsIdle
<1>4. Len(Tuned) \in Nat \ {0}
  BY AutotuneAssumption
<1>5. routine' \in 1..Len(Tuned) /\ tpc' \in TuneSteps
  BY <1>4 DEF TuneStep, TuneInv, TuneSteps, cblas_autotune_thresholds,
              cblas_reset_thresholds, BenchmarkStart, BenchmarkSingle,
              BenchmarkThreads, SingleFails, ThreadsFails, Narrow, SearchEnds, Store,
              TuneReturn, NoSearch, SearchFrom
<1>. QED
  BY <1>3, <1>5 DEF TuneInv

\* What cblas_set_num_threads makes of a count that was kept is kept.
LEMMA KeptIsKept ==
  ASSUME ThreadsInv, NEW n \in Kept
  PROVE  Lesser(Greater(n, 1), Cores) \in Kept /\ Lesser(Greater(n, 1), Cores) \in Nat \ {0}
BY AutotuneAssumption DEF ThreadsInv, Kept, Lesser, Greater

\* The thread count through a benchmark and between two.
LEMMA ThreadsInvPreserved ==
  ASSUME ThreadsInv, TuneInv, TuneStep
  PROVE  ThreadsInv'
<1>. USE DEF ThreadsInv, TuneSteps
<1>1. CASE cblas_autotune_thresholds
  BY <1>1 DEF cblas_autotune_thresholds, Kept
<1>2. CASE cblas_reset_thresholds
  BY <1>2 DEF cblas_reset_thresholds
<1>3. CASE BenchmarkStart
  <2>1. cblas_max_threads' = Lesser(Greater(1, 1), Cores) /\ cblas_max_threads \in Kept
    BY <1>3 DEF BenchmarkStart, SetNumThreads
  <2>2. Lesser(Greater(1, 1), Cores) \in Nat \ {0}
    BY AutotuneAssumption DEF Lesser, Greater
  <2>. QED
    BY <1>3, <2>1, <2>2 DEF BenchmarkStart, Kept
<1>4. CASE BenchmarkSingle \/ BenchmarkThreads
  <2>1. /\ orig_threads \in Kept /\ SetNumThreads(orig_threads)
        /\ orig_threads' \in {orig_threads, cblas_max_threads'}
        /\ UNCHANGED first_threads /\ tpc' \in {"mt", "narrow"}
    BY <1>4 DEF BenchmarkSingle, BenchmarkThreads
  <2>2. cblas_max_threads' \in Kept /\ cblas_max_threads' \in Nat \ {0}
    BY <2>1, KeptIsKept DEF SetNumThreads
  <2>. QED
    BY <2>1, <2>2 DEF Kept
<1>5. CASE SingleFails
  BY <1>5 DEF SingleFails, Kept
<1>6. CASE ThreadsFails \/ Narrow \/ SearchEnds \/ Store \/ TuneReturn
  <2>1. /\ UNCHANGED <<cblas_max_threads, first_threads>>
        /\ tpc \in TuneSteps \ {"none", "st"}
        /\ tpc' \notin {"st", "mt"}
    BY <1>6 DEF ThreadsFails, Narrow, SearchEnds, Store, TuneReturn
  <2>. QED
    BY <2>1 DEF Kept
<1>. QED
  BY <1>1, <1>2, <1>3, <1>4, <1>5, <1>6 DEF TuneStep

-----------------------------------------------------------------------------
(* The lengths of the probes *)

(* The doublings as far as the n-th exist. *)
Doubles(f, n) == f = [e \in 0..n |-> IF e = 0 THEN 1 ELSE 2 * f[e - 1]]
DoublesExist(n) == \E f : Doubles(f, n)

\* The recursive definition of the powers defines them.
LEMMA PowerUnfold ==
  Power[0] = 1 /\ \A e \in 1..MaxDoublings : Power[e] = 2 * Power[e - 1]
<1>. DEFINE Bad == {n \in Nat : ~DoublesExist(n)}
<1>1. Bad = {}
  <2>. SUFFICES ASSUME Bad # {} PROVE FALSE
    OBVIOUS
  <2>1. PICK n \in Bad : \A m \in Bad : n <= m
    BY LeastExists
  <2>2. n \in Nat /\ ~DoublesExist(n)
    OBVIOUS
  <2>3. n = 0 \/ n - 1 \in Nat
    BY <2>2
  <2>4. CASE n = 0
    <3>. DEFINE f == [e \in 0..0 |-> 1]
    <3>1. f = [e \in 0..0 |-> IF e = 0 THEN 1 ELSE 2 * f[e - 1]]
      BY SMT
    <3>2. Doubles(f, 0)
      BY <3>1 DEF Doubles
    <3>. QED
      BY <2>2, <2>4, <3>2 DEF DoublesExist
  <2>5. CASE n # 0
    <3>1. n - 1 \in Nat /\ n - 1 \notin Bad
      BY <2>1, <2>2, <2>3, <2>5
    <3>2. PICK g : Doubles(g, n - 1)
      BY <3>1 DEF DoublesExist
    <3>3. /\ g[0] = 1
          /\ \A e \in 1..(n - 1) : g[e] = 2 * g[e - 1]
      BY <3>1, <3>2 DEF Doubles
    <3>. DEFINE f == [e \in 0..n |-> IF e = n THEN 2 * g[n - 1] ELSE g[e]]
    <3>4. f = [e \in 0..n |-> IF e = 0 THEN 1 ELSE 2 * f[e - 1]]
      BY <2>2, <2>5, <3>1, <3>3
    <3>5. Doubles(f, n)
      BY <3>4 DEF Doubles
    <3>. QED
      BY <2>2, <3>5 DEF DoublesExist
  <2>. QED
    BY <2>4, <2>5
<1>2. \E f : Doubles(f, MaxDoublings)
  BY <1>1 DEF DoublesExist, MaxDoublings
<1>3. Power = CHOOSE f : Doubles(f, MaxDoublings)
  BY DEF Power, Doubles
<1>4. Doubles(Power, MaxDoublings)
  BY <1>2, <1>3
<1>. QED
  BY <1>4 DEF Doubles, MaxDoublings

\* Each power is at least twice every smaller one.
LEMMA PowersDouble ==
  /\ \A e \in 0..MaxDoublings : Power[e] \in Nat \ {0}
  /\ \A d, e \in 0..MaxDoublings : d < e => 2 * Power[d] <= Power[e]
<1>. DEFINE Good(e) == /\ Power[e] \in Nat \ {0}
                       /\ \A d \in 0..(e - 1) : 2 * Power[d] <= Power[e] /\ Power[d] \in Nat
            Bad == {e \in 0..MaxDoublings : ~Good(e)}
<1>1. Bad = {}
  <2>. SUFFICES ASSUME Bad # {} PROVE FALSE
    OBVIOUS
  <2>1. Bad \in SUBSET Nat
    BY DEF MaxDoublings
  <2>2. PICK e \in Bad : \A d \in Bad : e <= d
    BY <2>1, LeastExists
  <2>3. e \in 0..MaxDoublings /\ ~Good(e) /\ MaxDoublings \in Nat
    BY DEF MaxDoublings
  <2>4. CASE e = 0
    BY <2>3, <2>4, PowerUnfold
  <2>5. CASE e # 0
    <3>1. e - 1 \in 0..MaxDoublings /\ Good(e - 1)
      BY <2>2, <2>3, <2>5
    <3>2. Power[e] = 2 * Power[e - 1]
      BY <2>3, <2>5, PowerUnfold
    <3>. QED
      BY <2>3, <2>5, <3>1, <3>2
  <2>. QED
    BY <2>4, <2>5
<1>2. \A e \in 0..MaxDoublings : Good(e)
  BY <1>1
<1>3. MaxDoublings \in Nat
  BY DEF MaxDoublings
<1>4. \A e \in 0..MaxDoublings : \A d \in 0..MaxDoublings : d < e => d \in 0..(e - 1)
  BY <1>3
<1>. QED
  BY <1>2, <1>4

\* The loop ends on the least power of two that is not below the length, which
\* is not above twice the length.
LEMMA PowerAboveIs ==
  ASSUME NEW x \in 1..AUTOTUNE_MAX_SIZE
  PROVE  /\ PowerAbove(x) \in x..(2 * x) /\ IsPowerOf2(PowerAbove(x))
         /\ \A q \in x..(PowerAbove(x) - 1) : ~IsPowerOf2(q)
<1>. DEFINE E == {e \in 0..MaxDoublings : Power[e] >= x}
<1>1. MaxDoublings \in Nat /\ x \in Nat \ {0} /\ x <= Power[MaxDoublings]
  <2>1. MaxDoublings \in Nat /\ MaxDoublings \in 0..MaxDoublings
    BY DEF MaxDoublings
  <2>2. Power[MaxDoublings] \in Nat /\ AUTOTUNE_MAX_SIZE <= Power[MaxDoublings]
    BY <2>1, PowersDouble, RangeAssumption
  <2>3. AUTOTUNE_MAX_SIZE \in Nat
    BY AutotuneAssumption
  <2>. QED
    BY <2>1, <2>2, <2>3
<1>2. MaxDoublings \in E /\ E \in SUBSET Nat
  BY <1>1
<1>3. PICK e \in E : \A d \in E : e <= d
  BY <1>2, LeastExists
<1>4. e \in 0..MaxDoublings /\ Power[e] >= x /\ Power[e] \in Nat
  BY PowersDouble
<1>5. \A d \in 0..MaxDoublings : Power[d] < x \/ Power[d] >= Power[e]
  BY <1>1, <1>3, <1>4, PowersDouble
<1>6. Power[e] <= 2 * x
  <2>1. CASE e = 0
    BY <1>1, <2>1, PowerUnfold
  <2>2. CASE e # 0
    <3>1. e - 1 \in 0..MaxDoublings /\ e - 1 \notin E
      BY <1>1, <1>3, <1>4, <2>2
    <3>2. Power[e] = 2 * Power[e - 1] /\ Power[e - 1] \in Nat
      BY <1>1, <1>4, <2>2, <3>1, PowerUnfold, PowersDouble
    <3>. QED
      BY <1>1, <3>1, <3>2
  <2>. QED
    BY <2>1, <2>2
<1>. HIDE DEF E
<1>7. /\ Power[e] \in x..(2 * x) /\ IsPowerOf2(Power[e])
      /\ \A q \in x..(Power[e] - 1) : ~IsPowerOf2(q)
  BY <1>1, <1>4, <1>5, <1>6, PowersDouble DEF IsPowerOf2
<1>. QED
  BY <1>7, Zenon DEF PowerAbove

\* From three on no two neighbours are powers of two.
LEMMA PowersApart ==
  ASSUME NEW x \in Nat, x >= 3, IsPowerOf2(x)
  PROVE  ~IsPowerOf2(x - 1)
<1>. SUFFICES ASSUME IsPowerOf2(x - 1) PROVE FALSE
  OBVIOUS
<1>1. PICK e \in 0..MaxDoublings : x = Power[e]
  BY DEF IsPowerOf2
<1>2. PICK d \in 0..MaxDoublings : x - 1 = Power[d]
  BY DEF IsPowerOf2
<1>3. d < e \/ d = e \/ e < d
  BY DEF MaxDoublings
<1>. QED
  BY <1>1, <1>2, <1>3, PowersDouble

Sizes == AUTOTUNE_MIN_SIZE..AUTOTUNE_MAX_SIZE
Probe(x) == Lesser(PowerAbove(x), AUTOTUNE_MAX_SIZE)

\* A probe is not shorter than the length it is for, and a longer length has
\* no shorter probe.
LEMMA ProbesGrow ==
  ASSUME NEW x \in Sizes
  PROVE  /\ Probe(x) \in x..AUTOTUNE_MAX_SIZE
         /\ \A y \in Sizes : x <= y => Probe(x) <= Probe(y)
<1>. DEFINE M == AUTOTUNE_MAX_SIZE
<1>1. /\ Sizes \subseteq 1..M /\ Sizes \subseteq Nat \ {0} /\ M \in Nat
      /\ \A y \in Sizes : y <= M
  BY AutotuneAssumption DEF Sizes
<1>2. ASSUME NEW y \in Sizes
      PROVE  /\ PowerAbove(y) \in Nat /\ PowerAbove(y) >= y /\ IsPowerOf2(PowerAbove(y))
             /\ \A q \in y..(PowerAbove(y) - 1) : ~IsPowerOf2(q)
  <2>1. y \in 1..M /\ y \in Nat
    BY <1>1
  <2>. QED
    BY <2>1, PowerAboveIs
<1>3. ASSUME NEW y \in Sizes, x <= y
      PROVE  PowerAbove(x) <= PowerAbove(y)
  <2>1. x \in Nat /\ y \in Nat
    BY <1>1
  <2>. QED
    BY <1>2, <1>3, <2>1
<1>4. x \in Nat /\ x <= M
  BY <1>1
<1>. QED
  BY <1>1, <1>2, <1>3, <1>4 DEF Probe, Lesser

\* A length that is no power of two has the probe of the next.
LEMMA ProbesShared ==
  ASSUME NEW x \in Sizes, x < AUTOTUNE_MAX_SIZE, ~IsPowerOf2(x)
  PROVE  Probe(x) = Probe(x + 1)
<1>1. x \in 1..AUTOTUNE_MAX_SIZE /\ x + 1 \in 1..AUTOTUNE_MAX_SIZE /\ x \in Nat
  BY AutotuneAssumption DEF Sizes
<1>. DEFINE p == PowerAbove(x)
            q == PowerAbove(x + 1)
<1>2. p \in Nat /\ p >= x /\ IsPowerOf2(p) /\ \A r \in x..(p - 1) : ~IsPowerOf2(r)
  BY <1>1, PowerAboveIs
<1>3. /\ q \in Nat /\ q >= x + 1 /\ IsPowerOf2(q)
      /\ \A r \in (x + 1)..(q - 1) : ~IsPowerOf2(r)
  BY <1>1, PowerAboveIs
<1>. HIDE DEF p, q
<1>4. p # x
  BY <1>2
<1>5. p = q
  BY <1>1, <1>2, <1>3, <1>4
<1>. QED
  BY <1>5 DEF Probe, p, q

\* Each length but the last shares its probe with the one before or after, for
\* the first is no power of two: what makes up for the candidate that the search
\* does not try.
LEMMA ProbesPaired ==
  ASSUME NEW x \in Sizes, x < AUTOTUNE_MAX_SIZE
  PROVE  \/ Probe(x) = Probe(x + 1)
         \/ x - 1 \in Sizes /\ Probe(x - 1) = Probe(x)
<1>1. CASE ~IsPowerOf2(x)
  BY <1>1, ProbesShared
<1>2. CASE IsPowerOf2(x)
  <2>1. IsPowerOf2(1) /\ IsPowerOf2(2)
    BY PowerUnfold DEF IsPowerOf2, MaxDoublings
  <2>2. /\ AUTOTUNE_MIN_SIZE \in Nat \ {0} /\ AUTOTUNE_MAX_SIZE \in Nat
        /\ ~IsPowerOf2(AUTOTUNE_MIN_SIZE)
    BY AutotuneAssumption, RangeAssumption
  <2>3. AUTOTUNE_MIN_SIZE # 1 /\ AUTOTUNE_MIN_SIZE # 2 /\ x # AUTOTUNE_MIN_SIZE
    BY <1>2, <2>1, <2>2
  <2>4. x - 1 \in Sizes /\ x - 1 < AUTOTUNE_MAX_SIZE /\ x \in Nat /\ x >= 3
    BY <2>2, <2>3 DEF Sizes
  <2>5. ~IsPowerOf2(x - 1)
    BY <1>2, <2>4, PowersApart
  <2>6. Probe(x - 1) = Probe((x - 1) + 1)
    BY <2>4, <2>5, ProbesShared
  <2>7. (x - 1) + 1 = x
    BY <2>4
  <2>. QED
    BY <2>4, <2>6, <2>7
<1>. QED
  BY <1>1, <1>2

-----------------------------------------------------------------------------
(* The invariant of the search *)

(* The thread count cut to the cores, as every benchmark leaves it.         *)
Threads == Lesser(first_threads, Cores)

(* What a benchmark with threads at a length shows.                         *)
Pays(s) == s >= crossover /\ s > threshold[Tuned[routine]] /\ Threads > 1

(* No candidate below the range has a probe that pays; the probe of the     *)
(* first above it does and is what was found.                               *)
Narrowed ==
  /\ low \in AUTOTUNE_MIN_SIZE..(high + 1) /\ high \in 0..AUTOTUNE_MAX_SIZE
  /\ \A x \in AUTOTUNE_MIN_SIZE..(low - 1) : ~Pays(Probe(x))
  /\ high = AUTOTUNE_MAX_SIZE => optimal_threshold = AUTOTUNE_MAX_SIZE
  /\ high # AUTOTUNE_MAX_SIZE =>
       optimal_threshold = Probe(high + 1) /\ Pays(Probe(high + 1))

(* The whole range, before the first benchmark.                             *)
Whole == low = AUTOTUNE_MIN_SIZE /\ high = AUTOTUNE_MAX_SIZE

Searching == {"search", "st", "mt", "narrow", "found"}
Thresholds == [Routines \cup {"ger"} -> Nat]

SearchInv ==
  /\ crossover \in Nat /\ threshold \in Thresholds
  /\ tpc \in Searching => Narrowed
  /\ tpc \in {"st", "mt", "narrow"} => low < high
  /\ tpc = "search" => cblas_max_threads = Threads \/ Whole
  /\ tpc \in {"mt", "narrow", "found"} /\ ~failed => cblas_max_threads = Threads
  /\ tpc = "narrow" /\ ~failed => (paid <=> Pays(test_size))
  /\ tpc = "found" /\ ~failed => low >= high

\* A longer length pays whenever a shorter one does.
LEMMA PaysFrom ==
  ASSUME SearchInv, TuneInv, NEW x \in Sizes, NEW y \in Sizes, x <= y, Pays(Probe(x))
  PROVE  Pays(Probe(y))
<1>1. Tuned[routine] \in Routines
  BY AutotuneAssumption DEF TuneInv, Routines
<1>2. threshold[Tuned[routine]] \in Nat /\ crossover \in Nat
  BY <1>1 DEF SearchInv, Thresholds
<1>3. Probe(x) \in Nat /\ Probe(y) \in Nat /\ Probe(x) <= Probe(y)
  BY ProbesGrow, AutotuneAssumption DEF Sizes
<1>. QED
  BY <1>2, <1>3 DEF Pays

\* A range that is not empty has its middle below its end.
LEMMA MidInside ==
  ASSUME Narrowed, low < high
  PROVE  /\ mid \in low..(high - 1) /\ mid \in Sizes /\ mid + 1 \in Sizes
         /\ low \in Sizes /\ high \in Sizes
         /\ test_size = Probe(mid)
<1>1. low \in Nat /\ high \in Nat /\ low >= AUTOTUNE_MIN_SIZE /\ high <= AUTOTUNE_MAX_SIZE
      /\ AUTOTUNE_MIN_SIZE \in Nat \ {0} /\ AUTOTUNE_MAX_SIZE \in Nat
  BY AutotuneAssumption DEF Narrowed
<1>2. PICK half \in Nat : half = (high - low) \div 2 /\ half < high - low
  BY <1>1
<1>3. mid = low + half
  BY <1>2 DEF mid
<1>. QED
  BY <1>1, <1>2, <1>3 DEF Sizes, test_size, Probe

\* Narrowing keeps the shortest probe that pays at the border of the range.
LEMMA NarrowPreserves ==
  ASSUME SearchInv, TuneInv, Narrow
  PROVE  Narrowed'
<1>. DEFINE MIN == AUTOTUNE_MIN_SIZE
            MAX == AUTOTUNE_MAX_SIZE
<1>1. /\ tpc = "narrow" /\ ~failed /\ Narrowed /\ low < high
      /\ UNCHANGED <<crossover, threshold, routine, first_threads>>
  BY DEF Narrow, SearchInv, Searching
<1>2. /\ mid \in low..(high - 1) /\ mid \in Sizes /\ low \in Sizes /\ high \in Sizes
      /\ test_size = Probe(mid) /\ mid + 1 \in Sizes
  BY <1>1, MidInside
<1>3. MIN \in Nat \ {0} /\ MAX \in Nat /\ Sizes = MIN..MAX
  BY AutotuneAssumption DEF Sizes
<1>4. Threads' = Threads
  BY <1>1 DEF Threads
<1>5. \A s : Pays(s)' <=> Pays(s)
  BY <1>1, <1>4 DEF Pays
<1>6. paid <=> Pays(Probe(mid))
  BY <1>1, <1>2 DEF SearchInv
<1>7. CASE paid
  <2>1. optimal_threshold' = Probe(mid) /\ high' = mid - 1 /\ low' = low
    BY <1>2, <1>7 DEF Narrow
  <2>2. high' + 1 = mid /\ high' # MAX /\ high' \in 0..MAX /\ low' \in MIN..(high' + 1)
    BY <1>2, <1>3, <2>1
  <2>3. \A x \in MIN..(low' - 1) : ~Pays(Probe(x))
    BY <1>1, <2>1 DEF Narrowed
  <2>4. Pays(Probe(high' + 1)) /\ optimal_threshold' = Probe(high' + 1)
    BY <1>6, <1>7, <2>1, <2>2
  <2>. QED
    BY <1>5, <2>2, <2>3, <2>4 DEF Narrowed
<1>8. CASE ~paid
  <2>1. low' = mid + 1 /\ high' = high /\ optimal_threshold' = optimal_threshold
    BY <1>8 DEF Narrow
  <2>2. low' \in MIN..(high' + 1) /\ high' \in 0..MAX
    BY <1>2, <1>3, <2>1
  <2>3. \A x \in MIN..(low' - 1) : ~Pays(Probe(x))
    <3>. SUFFICES ASSUME NEW x \in MIN..(low' - 1) PROVE ~Pays(Probe(x))
      OBVIOUS
    <3>1. x \in Sizes /\ x <= mid
      BY <1>2, <1>3, <2>1
    <3>. QED
      BY <1>2, <1>6, <1>8, <3>1, PaysFrom
  <2>4. /\ high' = MAX => optimal_threshold' = MAX
        /\ high' # MAX =>
             optimal_threshold' = Probe(high' + 1) /\ Pays(Probe(high' + 1))
    BY <1>1, <2>1 DEF Narrowed
  <2>. QED
    BY <1>5, <2>2, <2>3, <2>4 DEF Narrowed
<1>. QED
  BY <1>7, <1>8

\* The steps that leave the range and what it is about alone keep it narrowed.
LEMMA NarrowedUnchanged ==
  ASSUME Narrowed, UNCHANGED <<low, high, optimal_threshold, routine, crossover,
                               threshold, first_threads>>
  PROVE  Narrowed' /\ Threads' = Threads /\ test_size' = test_size
         /\ (Pays(test_size)' <=> Pays(test_size))
<1>1. Threads' = Threads
  BY DEF Threads
<1>2. \A s : Pays(s)' <=> Pays(s)
  BY <1>1 DEF Pays
<1>3. test_size' = test_size
  BY DEF test_size, mid
<1>4. Pays(test_size)' <=> Pays(test_size)
  BY <1>1, <1>3 DEF Pays
<1>5. Narrowed'
  BY <1>2 DEF Narrowed
<1>. QED
  BY <1>1, <1>3, <1>4, <1>5

\* The search starts without having measured anything.
LEMMA SearchInitially ==
  ASSUME AutotuneInit
  PROVE  SearchInv
<1>1. crossover \in Nat /\ tpc = "none"
  BY AutotuneAssumption DEF AutotuneInit
<1>2. threshold \in Thresholds
  BY AutotuneAssumption DEF AutotuneInit, Defaults, Thresholds, Routines
<1>. QED
  BY <1>1, <1>2 DEF SearchInv, Searching

\* What cblas_set_num_threads makes of a count that was kept is what every
\* benchmark leaves.
LEMMA KeptIsCut ==
  ASSUME ThreadsInv, NEW n \in Kept
  PROVE  Lesser(Greater(n, 1), Cores) = Threads
BY AutotuneAssumption DEF ThreadsInv, Kept, Lesser, Greater, Threads

\* The threshold that was found is stored, and GER's follows COPY's: numbers all.
LEMMA StoreKeepsThresholds ==
  ASSUME SearchInv, TuneInv, Store
  PROVE  threshold' \in Thresholds
<1>1. Tuned[routine] \in Routines /\ "scopy" \in Routines
  BY AutotuneAssumption DEF TuneInv, Routines
<1>2. optimal_threshold \in Nat
  <2>1. Narrowed
    BY DEF Store, SearchInv, Searching
  <2>2. AUTOTUNE_MIN_SIZE \in Nat \ {0} /\ AUTOTUNE_MAX_SIZE \in Nat
    BY AutotuneAssumption
  <2>3. high # AUTOTUNE_MAX_SIZE => high + 1 \in Sizes
    BY <2>1, <2>2 DEF Narrowed, Sizes
  <2>. QED
    BY <2>1, <2>2, <2>3, ProbesGrow DEF Narrowed, Sizes
<1>. DEFINE found == [threshold EXCEPT ![Tuned[routine]] = optimal_threshold]
<1>3. found \in Thresholds /\ found["scopy"] \in Nat
  BY <1>1, <1>2 DEF SearchInv, Thresholds
<1>4. CASE routine < Len(Tuned)
  BY <1>3, <1>4 DEF Store
<1>5. CASE ~(routine < Len(Tuned))
  <2>1. threshold' = [found EXCEPT !["ger"] =
                        Greater(found["scopy"] \div 8, MT_GER_DEFAULT \div 2)]
    BY <1>5 DEF Store
  <2>. HIDE DEF found
  <2>2. found["scopy"] \div 8 \in Nat /\ MT_GER_DEFAULT \div 2 \in Nat
    BY <1>3, AutotuneAssumption
  <2>3. Greater(found["scopy"] \div 8, MT_GER_DEFAULT \div 2) \in Nat
    BY <2>2 DEF Greater
  <2>. QED
    BY <1>3, <2>1, <2>3 DEF Thresholds
<1>. QED
  BY <1>4, <1>5

\* The search, step by step.
LEMMA SearchPreserved ==
  ASSUME SearchInv, TuneInv, ThreadsInv, TuneStep
  PROVE  SearchInv'
<1>1. crossover' \in Nat /\ crossover' = crossover
  BY DEF SearchInv, TuneStep, cblas_autotune_thresholds, cblas_reset_thresholds,
         BenchmarkStart, BenchmarkSingle, BenchmarkThreads, SingleFails, ThreadsFails,
         Narrow, SearchEnds, Store, TuneReturn
<1>2. Defaults \in Thresholds
  BY AutotuneAssumption DEF Defaults, Thresholds, Routines
<1>3. CASE cblas_autotune_thresholds
  <2>1. CASE cblas_max_threads <= 1
    BY <1>1, <1>2, <1>3, <2>1 DEF cblas_autotune_thresholds, SearchInv, Searching
  <2>2. CASE ~(cblas_max_threads <= 1)
    <3>1. /\ Whole' /\ optimal_threshold' = AUTOTUNE_MAX_SIZE /\ tpc' = "search"
          /\ UNCHANGED threshold
      BY <1>3, <2>2 DEF cblas_autotune_thresholds, SearchFrom, Whole
    <3>2. Narrowed'
      BY <3>1, AutotuneAssumption, RangeAssumption DEF Whole, Narrowed
    <3>. QED
      BY <1>1, <3>1, <3>2 DEF SearchInv
  <2>. QED
    BY <2>1, <2>2
<1>4. CASE cblas_reset_thresholds
  BY <1>1, <1>2, <1>4 DEF cblas_reset_thresholds, SearchInv, Searching
<1>5. CASE BenchmarkStart \/ BenchmarkSingle \/ BenchmarkThreads \/ SingleFails \/ ThreadsFails
  <2>1. /\ UNCHANGED <<low, high, optimal_threshold, routine, crossover, threshold,
                       first_threads>>
        /\ tpc \in {"search", "st", "mt"} /\ tpc' \in {"st", "mt", "narrow"}
        /\ low < high
    BY <1>5 DEF SearchInv, BenchmarkStart, BenchmarkSingle, BenchmarkThreads,
                SingleFails, ThreadsFails, NoSearch
  <2>2. Narrowed
    BY <2>1 DEF SearchInv, Searching
  <2>3. Narrowed' /\ Threads' = Threads /\ (Pays(test_size)' <=> Pays(test_size))
    BY <2>1, <2>2, NarrowedUnchanged
  <2>4. tpc' \in {"mt", "narrow"} /\ ~failed' => cblas_max_threads' = Threads
    <3>1. CASE BenchmarkStart
      BY <3>1 DEF BenchmarkStart
    <3>2. CASE BenchmarkSingle \/ BenchmarkThreads
      <4>1. SetNumThreads(orig_threads) /\ orig_threads \in Kept
        BY <3>2 DEF BenchmarkSingle, BenchmarkThreads, ThreadsInv
      <4>. QED
        BY <4>1, KeptIsCut DEF SetNumThreads
    <3>3. CASE SingleFails \/ ThreadsFails
      BY <3>3 DEF SingleFails, ThreadsFails
    <3>. QED
      BY <1>5, <3>1, <3>2, <3>3
  <2>5. tpc' = "narrow" /\ ~failed' => (paid' <=> Pays(test_size))
    <3>. SUFFICES ASSUME tpc' = "narrow", ~failed' PROVE paid' <=> Pays(test_size)
      OBVIOUS
    <3>1. BenchmarkThreads /\ ~failed
      BY <1>5 DEF BenchmarkStart, BenchmarkSingle, BenchmarkThreads, SingleFails,
                  ThreadsFails, NoSearch
    <3>2. cblas_max_threads = Threads
      BY <3>1 DEF BenchmarkThreads, SearchInv
    <3>3. paid' = (mt_used /\ test_size >= crossover)
      BY <3>1 DEF BenchmarkThreads
    <3>. QED
      BY <3>2, <3>3 DEF mt_used, Pays
  <2>6. threshold' \in Thresholds /\ low' < high'
    BY <2>1 DEF SearchInv
  <2>7. tpc' = "search" \/ tpc' = "found" => FALSE
    BY <2>1
  <2>. QED
    BY <1>1, <2>1, <2>3, <2>4, <2>5, <2>6, <2>7 DEF SearchInv
<1>6. CASE Narrow
  <2>1. Narrowed'
    BY <1>6, NarrowPreserves
  <2>2. /\ UNCHANGED <<threshold, cblas_max_threads, first_threads>> /\ tpc' = "search"
        /\ cblas_max_threads = Threads
    BY <1>6 DEF Narrow, SearchInv
  <2>3. Threads' = Threads
    BY <2>2 DEF Threads
  <2>4. threshold' \in Thresholds /\ cblas_max_threads' = Threads'
    BY <2>2, <2>3 DEF SearchInv
  <2>. QED
    BY <1>1, <2>1, <2>2, <2>4 DEF SearchInv
<1>7. CASE SearchEnds
  <2>1. /\ UNCHANGED <<low, high, optimal_threshold, routine, crossover, threshold,
                       first_threads, cblas_max_threads, failed>>
        /\ tpc \in {"search", "narrow"} /\ tpc' = "found"
        /\ (tpc = "search" /\ low >= high) \/ (tpc = "narrow" /\ failed)
    BY <1>7 DEF SearchEnds, NoSearch
  <2>2. Narrowed /\ threshold \in Thresholds
    BY <2>1 DEF SearchInv, Searching
  <2>3. Narrowed' /\ Threads' = Threads
    BY <2>1, <2>2, NarrowedUnchanged
  <2>4. ASSUME ~failed'
        PROVE  cblas_max_threads' = Threads' /\ low' >= high'
    <3>1. tpc = "search" /\ low >= high
      BY <2>1, <2>4
    <3>2. ~Whole
      BY <3>1, AutotuneAssumption, RangeAssumption DEF Whole
    <3>3. cblas_max_threads = Threads
      BY <3>1, <3>2 DEF SearchInv
    <3>. QED
      BY <2>1, <2>3, <3>1, <3>3
  <2>. QED
    BY <1>1, <2>1, <2>2, <2>3, <2>4 DEF SearchInv
<1>8. CASE Store
  <2>1. threshold' \in Thresholds
    BY <1>8, StoreKeepsThresholds
  <2>2. CASE routine < Len(Tuned)
    <3>1. Whole' /\ optimal_threshold' = AUTOTUNE_MAX_SIZE /\ tpc' = "search"
      BY <1>8, <2>2 DEF Store, SearchFrom, Whole
    <3>2. Narrowed'
      BY <3>1, AutotuneAssumption, RangeAssumption DEF Whole, Narrowed
    <3>. QED
      BY <1>1, <2>1, <3>1, <3>2 DEF SearchInv
  <2>3. CASE ~(routine < Len(Tuned))
    <3>1. tpc' = "tuned"
      BY <1>8, <2>3 DEF Store
    <3>. QED
      BY <1>1, <2>1, <3>1 DEF SearchInv, Searching
  <2>. QED
    BY <2>2, <2>3
<1>9. CASE TuneReturn
  <2>1. tpc' = "none" /\ threshold' = threshold
    BY <1>9 DEF TuneReturn
  <2>. QED
    BY <1>1, <2>1 DEF SearchInv, Searching
<1>. QED
  BY <1>3, <1>4, <1>5, <1>6, <1>7, <1>8, <1>9 DEF TuneStep

\* When the range is used up, no candidate's probe is shorter than what was found
\* and pays, the one that was never tried included.
LEMMA FoundIsLeast ==
  ASSUME SearchInv, TuneInv, tpc = "found", ~failed
  PROVE  /\ \A x \in Sizes : Pays(Probe(x)) => optimal_threshold <= Probe(x)
         /\ \/ \E x \in Sizes : Pays(Probe(x)) /\ optimal_threshold = Probe(x)
            \/ /\ optimal_threshold = AUTOTUNE_MAX_SIZE
               /\ \A x \in Sizes : ~Pays(Probe(x))
<1>. DEFINE MIN == AUTOTUNE_MIN_SIZE
            MAX == AUTOTUNE_MAX_SIZE
<1>1. Narrowed /\ low >= high
  BY DEF SearchInv, Searching
<1>2. MIN \in Nat \ {0} /\ MAX \in Nat /\ Sizes = MIN..MAX /\ MIN < MAX
  BY AutotuneAssumption, RangeAssumption DEF Sizes
<1>3. low \in MIN..(high + 1) /\ high \in 0..MAX /\ (low = high \/ low = high + 1)
  BY <1>1, <1>2 DEF Narrowed
<1>4. \A x \in Sizes : x < low => ~Pays(Probe(x))
  BY <1>1, <1>2, <1>3 DEF Narrowed
<1>5. CASE high = MAX
  <2>1. optimal_threshold = MAX
    BY <1>1, <1>5 DEF Narrowed
  <2>2. MAX \in Sizes /\ Probe(MAX) \in MAX..MAX
    BY <1>2, ProbesGrow
  <2>3. Probe(MAX) = MAX
    BY <1>2, <2>2
  <2>4. \A x \in Sizes : Pays(Probe(x)) => x = MAX
    BY <1>2, <1>3, <1>4, <1>5
  <2>. QED
    BY <1>2, <2>1, <2>2, <2>3, <2>4
<1>6. CASE high # MAX
  <2>1. optimal_threshold = Probe(high + 1) /\ Pays(Probe(high + 1)) /\ high + 1 \in Sizes
    BY <1>1, <1>2, <1>3, <1>6 DEF Narrowed
  <2>2. ASSUME NEW x \in Sizes, Pays(Probe(x))
        PROVE  Probe(high + 1) <= Probe(x)
    <3>1. CASE x >= high + 1
      BY <2>1, <2>2, <3>1, <1>2, <1>3, ProbesGrow
    <3>2. CASE ~(x >= high + 1)
      <4>1. x = high /\ low = high
        BY <1>2, <1>3, <1>4, <2>2, <3>2
      <4>2. ~(x - 1 \in Sizes /\ Probe(x - 1) = Probe(x))
        <5>. SUFFICES ASSUME x - 1 \in Sizes, Probe(x - 1) = Probe(x) PROVE FALSE
          OBVIOUS
        <5>1. x - 1 < low
          BY <1>2, <4>1
        <5>. QED
          BY <1>4, <2>2, <5>1
      <4>3. Probe(x) = Probe(high + 1)
        BY <1>2, <1>3, <1>6, <4>1, <4>2, ProbesPaired
      <4>4. Probe(x) \in Nat
        BY <1>2, ProbesGrow
      <4>. QED
        BY <4>3, <4>4
    <3>. QED
      BY <3>1, <3>2
  <2>. QED
    BY <2>1, <2>2
<1>. QED
  BY <1>5, <1>6

\* What is stored is the least length of a probe on which threads were used and
\* paid, or the greatest length when there is none.
LEMMA SearchFinds ==
  ASSUME SearchInv, TuneInv
  PROVE  ThresholdIsCrossover
<1>. SUFFICES ASSUME tpc = "found", ~failed
              PROVE  LET paying == {s \in ProbeSizes :
                              s >= crossover /\ s > threshold[Tuned[routine]]
                              /\ cblas_max_threads > 1}
                     IN  optimal_threshold =
                           IF paying = {} THEN AUTOTUNE_MAX_SIZE
                           ELSE CHOOSE s \in paying : \A r \in paying : s <= r
  BY DEF ThresholdIsCrossover
<1>. DEFINE paying == {s \in ProbeSizes :
                         s >= crossover /\ s > threshold[Tuned[routine]]
                         /\ cblas_max_threads > 1}
<1>1. cblas_max_threads = Threads
  BY DEF SearchInv
<1>2. \A s : s \in paying <=> Pays(s) /\ \E x \in Sizes : s = Probe(x)
  BY <1>1 DEF ProbeSizes, Pays, Probe, Sizes
<1>. HIDE DEF paying
<1>3. /\ \A r \in paying : optimal_threshold <= r
      /\ \/ optimal_threshold \in paying
         \/ optimal_threshold = AUTOTUNE_MAX_SIZE /\ paying = {}
  BY <1>2, FoundIsLeast
<1>4. \A s \in paying : s \in Nat
  BY <1>2, ProbesGrow, AutotuneAssumption DEF Sizes
<1>5. optimal_threshold =
        IF paying = {} THEN AUTOTUNE_MAX_SIZE
        ELSE CHOOSE s \in paying : \A r \in paying : s <= r
  <2>1. CASE paying = {}
    BY <1>3, <2>1
  <2>2. CASE paying # {}
    <3>1. optimal_threshold \in paying
      BY <1>3, <2>2
    <3>2. \A s \in paying : (\A r \in paying : s <= r) => s = optimal_threshold
      BY <1>3, <1>4, <3>1
    <3>3. optimal_threshold = CHOOSE s \in paying : \A r \in paying : s <= r
      BY <1>3, <3>1, <3>2
    <3>. QED
      BY <2>2, <3>3
  <2>. QED
    BY <2>1, <2>2
<1>. QED
  BY <1>5 DEF paying

\* The search does not see what the other threads do.
LEMMA SearchUnchanged ==
  ASSUME SearchInv, UNCHANGED tuneVars
  PROVE  SearchInv'
<1>1. UNCHANGED <<low, high, optimal_threshold, routine, crossover, threshold,
                  first_threads, tpc, cblas_max_threads, paid, failed>>
  BY DEF tuneVars
<1>2. CASE tpc \in Searching
  <2>1. Narrowed
    BY <1>2 DEF SearchInv
  <2>2. Narrowed' /\ Threads' = Threads /\ (Pays(test_size)' <=> Pays(test_size))
    BY <1>1, <2>1, NarrowedUnchanged
  <2>3. Whole' <=> Whole
    BY <1>1 DEF Whole
  <2>. QED
    BY <1>1, <2>2, <2>3 DEF SearchInv
<1>3. CASE tpc \notin Searching
  BY <1>1, <1>3 DEF SearchInv, Searching
<1>. QED
  BY <1>2, <1>3

-----------------------------------------------------------------------------
(* The invariant *)

AutotuneInv == StatsInv /\ TuneInv /\ ThreadsInv /\ SearchInv

\* The library starts with the first routine and its own thread count.
LEMMA AutotuneInitially ==
  ASSUME AutotuneInit
  PROVE  AutotuneInv
<1>1. StatsInv
  BY StatsInitially DEF AutotuneInit
<1>2. Len(Tuned) \in Nat \ {0}
  BY AutotuneAssumption
<1>3. TuneInv /\ ThreadsInv
  BY <1>2, AutotuneAssumption DEF AutotuneInit, TuneInv, ThreadsInv, TuneSteps
<1>4. SearchInv
  BY SearchInitially
<1>. QED
  BY <1>1, <1>3, <1>4 DEF AutotuneInv

\* The invariant holds throughout.
LEMMA AutotuneInvariant ==
  AutotuneSpec => []AutotuneInv
<1>1. AutotuneInit => AutotuneInv
  BY AutotuneInitially
<1>2. AutotuneInv /\ [AutotuneNext]_autotuneVars => AutotuneInv'
  <2>. SUFFICES ASSUME AutotuneInv, [AutotuneNext]_autotuneVars
                PROVE  AutotuneInv'
    OBVIOUS
  <2>1. CASE TuneStep
    BY <2>1, TuneKeepsStats, TuneInvPreserved, ThreadsInvPreserved, SearchPreserved
    DEF AutotuneInv
  <2>2. CASE /\ tpc = "none" /\ UNCHANGED tuneVars
             /\ cblas_cleanup_stats \/ \E t \in Callers : StatsStep(t)
    <3>1. StatsInv'
      BY <2>2, CleanupPreserves, StatsStepPreserves DEF AutotuneInv
    <3>2. TuneInv' /\ ThreadsInv'
      BY <2>2 DEF AutotuneInv, TuneInv, ThreadsInv, Kept, tuneVars
    <3>3. SearchInv'
      BY <2>2, SearchUnchanged DEF AutotuneInv
    <3>. QED
      BY <3>1, <3>2, <3>3 DEF AutotuneInv
  <2>3. CASE UNCHANGED autotuneVars
    <3>1. StatsInv'
      BY <2>3, StatsUnchanged DEF AutotuneInv, autotuneVars
    <3>2. TuneInv' /\ ThreadsInv'
      BY <2>3 DEF AutotuneInv, TuneInv, ThreadsInv, Kept, StatsIdle, autotuneVars,
                  tuneVars, statsVars
    <3>3. SearchInv'
      BY <2>3, SearchUnchanged DEF AutotuneInv, autotuneVars
    <3>. QED
      BY <3>1, <3>2, <3>3 DEF AutotuneInv
  <2>. QED
    BY <2>1, <2>2, <2>3 DEF AutotuneNext
<1>. QED
  BY <1>1, <1>2, PTL DEF AutotuneSpec

-----------------------------------------------------------------------------
(* Theorems *)

\* Every call that was recorded is counted once, for its own routine, in the
\* only entry with its name, for any number of threads that record, read, reset
\* and shut down, of routines and of entries, and whatever tuning adds: the
\* pointer kept between the two critical sections is never stale (util.c:328)
\* and a full table loses the same routines for good (util.c:339).
THEOREM StatsCount == AutotuneSpec => []StatsExact
<1>1. AutotuneInv => StatsExact
  <2>. SUFFICES ASSUME AutotuneInv, stats_initialized, NEW o \in Operations
                PROVE  /\ Cardinality(Entry(o)) <= 1
                       /\ \A i \in Entry(o) : stats_table[i].calls = recorded[o]
                       /\ Entry(o) = {} => recorded[o] = 0
                       /\ o \in lost => Entry(o) = {}
    BY DEF StatsExact
  <2>1. TableOK(stats_table, recorded, lost)
    BY DEF AutotuneInv, StatsInv, CountedRight
  <2>2. o # NoName
    BY StatsAssumption
  <2>3. Cardinality(Entry(o)) <= 1
    <3>1. CASE Entry(o) = {}
      BY <3>1, FS_EmptySet
    <3>2. CASE Entry(o) # {}
      <4>1. PICK i \in Entry(o) : TRUE
        BY <3>2
      <4>2. Entry(o) = {i}
        BY <2>1, <2>2, <4>1 DEF Entry, TableOK, NamesUnique
      <4>3. Cardinality({i}) = 1
        BY FS_Singleton
      <4>. QED
        BY <4>2, <4>3
    <3>. QED
      BY <3>1, <3>2
  <2>4. \A i \in Entry(o) : stats_table[i].calls = recorded[o]
    BY <2>1, <2>2 DEF Entry, TableOK, CountsRight
  <2>5. Entry(o) = {} => recorded[o] = 0
    BY <2>1 DEF Entry, TableOK, UnnamedUncounted
  <2>6. o \in lost => Entry(o) = {}
    BY <2>1 DEF Entry, TableOK, LostForGood
  <2>. QED
    BY <2>3, <2>4, <2>5, <2>6
<1>. QED
  BY <1>1, AutotuneInvariant, PTL

\* Tuning gives the thread count back, up to the number of cores, whatever the
\* count was, however many benchmarks it runs and whichever get no memory
\* (util.c:1335).
THEOREM ThreadCountReturns == AutotuneSpec => []ThreadsRestored
<1>1. AutotuneInv => ThreadsRestored
  BY DEF AutotuneInv, ThreadsInv, ThreadsRestored, Kept, TuneSteps
<1>. QED
  BY <1>1, AutotuneInvariant, PTL

\* The search ends on the least length of a probe on which threads were used and
\* paid, or on the greatest length when there is none, for every range whose first
\* length is no power of two, every threshold in force and every crossover: although
\* probes are rounded up, so that many lengths share one, the range is narrowed by
\* mid - 1, and the last candidate is never tried (util.c:1366).
THEOREM ShortestPayingProbe == AutotuneSpec => []ThresholdIsCrossover
<1>1. AutotuneInv => ThresholdIsCrossover
  BY SearchFinds DEF AutotuneInv
<1>. QED
  BY <1>1, AutotuneInvariant, PTL

===============================================================================
