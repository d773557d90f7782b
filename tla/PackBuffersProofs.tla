------------------------- MODULE PackBuffersProofs -------------------------
(****************************************************************************)
(* Theorems about module PackBuffers.  Whatever the application does, a     *)
(* caller slot is held by one call or shutdown at a time, and none leaks.   *)
(* That the panels fit the slots and that a shutdown frees them all is so   *)
(* for an application that keeps the rules of use, and is stated under      *)
(* them.                                                                    *)
(****************************************************************************)
EXTENDS PackBuffers, TLAPS

-----------------------------------------------------------------------------
(* Slot numbers. *)

LEMMA IdFacts ==
  /\ None \notin Ids
  /\ PoolIds \cap CallerIds = {}
  /\ BASE \in CallerIds /\ LastId \in CallerIds
  /\ \A i \in CallerIds : i # LastId => i + 1 \in CallerIds
  /\ \A i \in CallerIds : i <= LastId /\ (i < LastId <=> i # LastId)
  /\ \A i \in CallerIds : i \in Int /\ i >= MAX_THREADS
  /\ \A i \in PoolIds : i \in Int /\ i >= 0 /\ i < MAX_THREADS
BY BuffersAssumption, SMT DEF None, Ids, PoolIds, CallerIds, BASE, LastId

LEMMA NothingIsNoBlock == Nothing \notin Blocks
BY BuffersAssumption, SMT DEF Nothing

-----------------------------------------------------------------------------
(* Where a thread's slot number points. *)

ClaimedPcs == {"claim", "check", "alloc", "label", "unclaim", "clean", "free"}

WellPlaced ==
  \A t \in Threads :
    /\ pc[t] \in ClaimedPcs => id[t] \in CallerIds
    /\ pc[t] \in {"idle", "ensure", "pool"} => id[t] = None

(* Where a thread has the slot it was given. *)
HoldPcs == {"check", "alloc", "label", "unclaim", "gemm", "free"} \cup KernelPcs

(* The claim protocol. *)
LockInv == WellPlaced /\ SlotsHeldOnce /\ BusyIffHeld

(* Whoever takes or returns slots, the flags stay right as long as a slot   *)
(* is only taken when its flag is clear, and its flag cleared when it is    *)
(* returned.                                                                *)
LEMMA LockStep ==
  ASSUME SlotsHeldOnce, BusyIffHeld, busy \in [CallerIds -> BOOLEAN],
         NEW t \in Threads,
         \A u \in Threads \ {t} : \A i \in CallerIds : Holds(u, i)' <=> Holds(u, i),
         \/ /\ busy' = busy
            /\ \A i \in CallerIds : Holds(t, i)' <=> Holds(t, i)
         \/ \E i \in CallerIds :
              /\ ~busy[i]
              /\ busy' = [busy EXCEPT ![i] = TRUE]
              /\ \A j \in CallerIds : ~Holds(t, j) /\ (Holds(t, j)' <=> j = i)
         \/ /\ \A j \in CallerIds : ~Holds(t, j)'
            /\ busy' = [j \in CallerIds |-> IF Holds(t, j) THEN FALSE ELSE busy[j]]
  PROVE  SlotsHeldOnce' /\ BusyIffHeld'
<1>1. CASE /\ busy' = busy
           /\ \A i \in CallerIds : Holds(t, i)' <=> Holds(t, i)
  <2>1. \A u \in Threads : \A i \in CallerIds : Holds(u, i)' <=> Holds(u, i)
    BY <1>1
  <2> QED BY <1>1, <2>1 DEF SlotsHeldOnce, BusyIffHeld
<1>2. CASE \E i \in CallerIds :
             /\ ~busy[i]
             /\ busy' = [busy EXCEPT ![i] = TRUE]
             /\ \A j \in CallerIds : ~Holds(t, j) /\ (Holds(t, j)' <=> j = i)
  <2>1. PICK i \in CallerIds :
             /\ ~busy[i]
             /\ busy' = [busy EXCEPT ![i] = TRUE]
             /\ \A j \in CallerIds : ~Holds(t, j) /\ (Holds(t, j)' <=> j = i)
    BY <1>2
  <2>2. \A u \in Threads : ~Holds(u, i)
    BY <2>1 DEF BusyIffHeld
  <2>3. \A u \in Threads : Holds(u, i)' <=> u = t
    BY <2>1, <2>2
  <2>4. \A u \in Threads : \A j \in CallerIds \ {i} : Holds(u, j)' <=> Holds(u, j)
    BY <2>1
  <2>5. busy'[i] /\ \A j \in CallerIds \ {i} : busy'[j] = busy[j]
    BY <2>1
  <2>6. SlotsHeldOnce'
    BY <2>3, <2>4 DEF SlotsHeldOnce
  <2>7. ASSUME NEW j \in CallerIds
        PROVE  busy'[j] <=> \E u \in Threads : Holds(u, j)'
    <3>1. CASE j = i
      BY <2>3, <2>5, <3>1
    <3>2. CASE j # i
      BY <2>4, <2>5, <3>2 DEF BusyIffHeld
    <3> QED BY <3>1, <3>2
  <2> QED BY <2>6, <2>7 DEF BusyIffHeld
<1>3. CASE /\ \A j \in CallerIds : ~Holds(t, j)'
           /\ busy' = [j \in CallerIds |-> IF Holds(t, j) THEN FALSE ELSE busy[j]]
  <2>1. \A u \in Threads : \A i \in CallerIds : Holds(u, i)' => u # t /\ Holds(u, i)
    BY <1>3
  <2>2. SlotsHeldOnce'
    BY <2>1 DEF SlotsHeldOnce
  <2>3. ASSUME NEW j \in CallerIds
        PROVE  busy'[j] <=> \E u \in Threads : Holds(u, j)'
    <3>1. CASE Holds(t, j)
      <4>1. ~busy'[j]
        BY <1>3, <3>1
      <4>2. \A u \in Threads : ~Holds(u, j)'
        BY <2>1, <3>1 DEF SlotsHeldOnce
      <4> QED BY <4>1, <4>2
    <3>2. CASE ~Holds(t, j)
      <4>1. busy'[j] = busy[j]
        BY <1>3, <3>2
      <4>2. \A u \in Threads : Holds(u, j)' <=> Holds(u, j)
        BY <1>3, <3>2
      <4> QED BY <4>1, <4>2 DEF BusyIffHeld
    <3> QED BY <3>1, <3>2
  <2> QED BY <2>2, <2>3 DEF BusyIffHeld
<1> QED BY <1>1, <1>2, <1>3

(* Only the thread that takes a step moves. *)
LEMMA OthersKeep ==
  ASSUME TypeOK, NEW t \in Threads, NEW u \in Threads \ {t},
         \/ pc' = pc
         \/ \E where \in Pcs : Goto(t, where),
         \/ id' = id
         \/ \E i \in Ids \cup {None} : UseSlot(t, i)
  PROVE  /\ pc'[u] = pc[u] /\ id'[u] = id[u]
         /\ \A i \in CallerIds : Holds(u, i)' <=> Holds(u, i)
<1>1. pc'[u] = pc[u] /\ id'[u] = id[u]
  BY DEF TypeOK, Goto, UseSlot
<1> QED BY <1>1 DEF Holds

-----------------------------------------------------------------------------
(* Every action keeps the types. *)

LEMMA BlockSizes == \A b \in Blocks : b.mc \in Nat /\ b.kc \in Nat \ {0} /\ b.nb \in Nat /\ MR <= b.mc
BY BuffersAssumption

LEMMA LeastNat == \A a, b \in Nat : Least(a, b) \in Nat /\ Least(a, b) <= a /\ Least(a, b) <= b
BY SMT DEF Least

LEMMA EnsureType ==
  ASSUME TypeOK, NEW n \in 1..MAX_THREADS, NEW failed \in SUBSET PoolIds,
         EnsureGemmBuffers(n, failed)
  PROVE  buf' \in [Ids -> Sizes] /\ count' \in 0..MAX_THREADS
<1>1. buf' \in [Ids -> Sizes]
  BY DEF EnsureGemmBuffers, TypeOK, Sizes
<1>2. count' = n \/ count' = count
  BY DEF EnsureGemmBuffers
<1> QED BY <1>1, <1>2, BuffersAssumption, SMT DEF TypeOK

LEMMA InitType == Init => TypeOK
<1> SUFFICES ASSUME Init PROVE TypeOK
  OBVIOUS
<1>1. count \in 0..MAX_THREADS
  BY BuffersAssumption, SMT DEF Init
<1> QED BY <1>1 DEF Init, TypeOK, Sizes, Pcs, NoGemm

LEMMA GemmType ==
  ASSUME TypeOK, NEW t \in Threads, GemmStep(t), id[t] \in CallerIds \/ pc[t] \notin ClaimedPcs
  PROVE  TypeOK'
<1> USE DEF TypeOK, Goto, UseSlot, gemmVars, server
<1>1. ASSUME NEW s \in Shapes, StartGemm(t, s)
      PROVE  /\ shape' \in [Threads -> [n : Nat, k : Nat]] /\ p' \in [Threads -> Nat]
             /\ quiet' \in [Threads -> BOOLEAN]
  BY <1>1, BuffersAssumption DEF StartGemm
<1>2. ASSUME NEW s \in Shapes, BeginGemm(t, s)
      PROVE  TypeOK'
  BY <1>1, <1>2, IdFacts DEF BeginGemm, StartGemm, Pcs, GemmPcs, ClaimPcs, Ids
<1>3. ASSUME NEW s \in Shapes, NEW i \in PoolIds, BeginTask(t, s, i)
      PROVE  TypeOK'
  BY <1>1, <1>3 DEF BeginTask, StartGemm, Pcs, GemmPcs, Ids
<1>4. CASE TryClaim(t)
  <2>1. id[t] \in CallerIds
    BY <1>4 DEF TryClaim, ClaimedPcs
  <2>2. id[t] < LastId => id[t] + 1 \in Ids
    BY <2>1, IdFacts DEF Ids
  <2> QED BY <1>4, <2>1, <2>2 DEF TryClaim, Pcs, GemmPcs, ClaimPcs, Ids
<1>5. CASE CheckSize(t)
  BY <1>5 DEF CheckSize, Sizes, Pcs, GemmPcs, ClaimPcs
<1>6. CASE AllocSlot(t)
  <2>1. buf' = buf \/ buf' = [buf EXCEPT ![id[t]] = blocks]
    BY <1>6 DEF AllocSlot
  <2>2. buf' \in [Ids -> Sizes]
    BY <2>1 DEF Sizes
  <2>3. Goto(t, "gemm") \/ Goto(t, "label")
    BY <1>6 DEF AllocSlot
  <2>4. pc' \in [Threads -> Pcs]
    BY <2>3 DEF Pcs, GemmPcs, ClaimPcs
  <2> HIDE DEF Goto
  <2> QED BY <1>6, <2>2, <2>4 DEF AllocSlot
<1>7. CASE LabelSlot(t)
  BY <1>7 DEF LabelSlot, Sizes, Pcs, GemmPcs, ClaimPcs
<1>8. CASE Unclaim(t)
  BY <1>8 DEF Unclaim, Pcs, GemmPcs, ClaimPcs
<1>9. CASE GetBuffer(t)
  <2>1. shape[t].k \in Nat /\ p[t] \in Nat /\ blocks.kc \in Nat
    BY BlockSizes
  <2>2. shape[t].k - p[t] \in Nat
    BY <1>9, <2>1, SMT DEF GetBuffer
  <2>3. Least(shape[t].k - p[t], blocks.kc) \in Nat
    BY <2>1, <2>2, LeastNat
  <2> QED BY <1>9, <2>3 DEF GetBuffer, Pcs, GemmPcs, KernelPcs
<1>10. CASE TestPanel(t)
  BY <1>10 DEF TestPanel, Pcs, GemmPcs, KernelPcs
<1>11. CASE KernelReturn(t)
  <2>1. p[t] + blocks.kc \in Nat
    BY BlockSizes, SMT
  <2>2. p' \in [Threads -> Nat]
    BY <1>11, <2>1 DEF KernelReturn
  <2> QED BY <1>11, <2>2 DEF KernelReturn, Pcs, GemmPcs
<1>12. CASE EndGemm(t)
  BY <1>12 DEF EndGemm, Pcs, NoGemm
<1> QED BY <1>2, <1>3, <1>4, <1>5, <1>6, <1>7, <1>8, <1>9, <1>10, <1>11, <1>12 DEF GemmStep

LEMMA ConfigType ==
  ASSUME TypeOK, NEW t \in Threads, ConfigStep(t), id[t] \in CallerIds \/ pc[t] \notin ClaimedPcs
  PROVE  TypeOK'
<1> USE DEF TypeOK, Goto, UseSlot, gemmVars, server
<1>1. ASSUME NEW b \in Blocks, InitBlocks(t, b)
      PROVE  TypeOK'
  BY <1>1 DEF InitBlocks, Pcs
<1>2. CASE InitBuffers(t)
  BY <1>2, EnsureType DEF InitBuffers, Pcs
<1>3. CASE SetNumThreads(t)
  BY <1>3, EnsureType DEF SetNumThreads
<1>4. CASE BeginCleanup(t)
  BY <1>4, IdFacts DEF BeginCleanup, Pcs, CleanPcs, Ids
<1>5. ASSUME id[t] \in CallerIds, NextToClean(t)
      PROVE  pc' \in [Threads -> Pcs] /\ id' \in [Threads -> Ids \cup {None}]
  <2>1. id[t] < LastId => id[t] + 1 \in Ids
    BY <1>5, IdFacts DEF Ids
  <2> QED BY <1>5, <2>1 DEF NextToClean, Pcs, CleanPcs
<1>6. CASE CleanTry(t)
  <2>1. id[t] \in CallerIds
    BY <1>6 DEF CleanTry, ClaimedPcs
  <2> QED BY <1>5, <1>6, <2>1 DEF CleanTry, Pcs, CleanPcs
<1>7. CASE CleanFree(t)
  <2>1. id[t] \in CallerIds
    BY <1>7 DEF CleanFree, ClaimedPcs
  <2> QED BY <1>5, <1>7, <2>1 DEF CleanFree, Sizes
<1>8. CASE CleanPool(t)
  BY <1>8, BuffersAssumption, SMT DEF CleanPool, Sizes, Pcs
<1>9. CASE ShutdownDead(t)
  BY <1>9 DEF ShutdownDead
<1> QED BY <1>1, <1>2, <1>3, <1>4, <1>6, <1>7, <1>8, <1>9 DEF ConfigStep

-----------------------------------------------------------------------------
(* Every action keeps the claim protocol. *)

(* A step of t that takes, returns or leaves alone the slots, in the terms  *)
(* of LockStep, and keeps t well placed.                                    *)
LEMMA ProtocolStep ==
  ASSUME TypeOK, LockInv, NEW t \in Threads,
         pc' = pc \/ \E where \in Pcs : Goto(t, where),
         id' = id \/ \E i \in Ids \cup {None} : UseSlot(t, i),
         pc'[t] \in ClaimedPcs => id'[t] \in CallerIds,
         pc'[t] \in {"idle", "ensure", "pool"} => id'[t] = None,
         \/ /\ busy' = busy
            /\ \A i \in CallerIds : Holds(t, i)' <=> Holds(t, i)
         \/ \E i \in CallerIds :
              /\ ~busy[i]
              /\ busy' = [busy EXCEPT ![i] = TRUE]
              /\ \A j \in CallerIds : ~Holds(t, j) /\ (Holds(t, j)' <=> j = i)
         \/ /\ \A j \in CallerIds : ~Holds(t, j)'
            /\ busy' = [j \in CallerIds |-> IF Holds(t, j) THEN FALSE ELSE busy[j]]
  PROVE  LockInv'
<1>1. \A u \in Threads \ {t} :
        /\ pc'[u] = pc[u] /\ id'[u] = id[u]
        /\ \A i \in CallerIds : Holds(u, i)' <=> Holds(u, i)
  BY OthersKeep
<1>2. WellPlaced'
  BY <1>1 DEF LockInv, WellPlaced
<1>3. SlotsHeldOnce' /\ BusyIffHeld'
  BY <1>1, LockStep DEF LockInv, TypeOK
<1> QED BY <1>2, <1>3 DEF LockInv

LEMMA GemmProtocol ==
  ASSUME TypeOK, LockInv, NEW t \in Threads, GemmStep(t)
  PROVE  LockInv'
<1> USE DEF Goto, UseSlot
<1>0. /\ pc[t] \in ClaimedPcs => id[t] \in CallerIds
      /\ pc[t] \in {"idle", "ensure", "pool"} => id[t] = None
      /\ pc \in [Threads -> Pcs] /\ id \in [Threads -> Ids \cup {None}]
      /\ busy \in [CallerIds -> BOOLEAN]
  BY DEF LockInv, WellPlaced, TypeOK
<1>1. ASSUME NEW s \in Shapes, BeginGemm(t, s)
      PROVE  LockInv'
  <2>1. Goto(t, "claim") /\ UseSlot(t, BASE) /\ busy' = busy /\ pc[t] = "idle"
    BY <1>1 DEF BeginGemm, StartGemm
  <2>2. pc'[t] = "claim" /\ id'[t] = BASE
    BY <1>0, <2>1
  <2>3. "claim" \in Pcs /\ BASE \in Ids \cup {None} /\ BASE \in CallerIds
    BY IdFacts DEF Pcs, GemmPcs, ClaimPcs, Ids
  <2>4. \A i \in CallerIds : ~Holds(t, i)' /\ ~Holds(t, i)
    BY <2>1, <2>2 DEF Holds, KernelPcs
  <2> HIDE DEF Goto, UseSlot
  <2> QED BY <2>1, <2>2, <2>3, <2>4, ProtocolStep
<1>2. ASSUME NEW s \in Shapes, NEW i \in PoolIds, BeginTask(t, s, i)
      PROVE  LockInv'
  <2>1. Goto(t, "gemm") /\ UseSlot(t, i) /\ busy' = busy /\ pc[t] = "idle"
    BY <1>2 DEF BeginTask, StartGemm
  <2>2. pc'[t] = "gemm" /\ id'[t] = i
    BY <1>0, <2>1
  <2>3. "gemm" \in Pcs /\ i \in Ids \cup {None} /\ i \notin CallerIds
    BY IdFacts DEF Pcs, GemmPcs, Ids
  <2>4. \A j \in CallerIds : ~Holds(t, j)' /\ ~Holds(t, j)
    BY <2>1, <2>2, <2>3 DEF Holds, KernelPcs
  <2>5. pc'[t] \notin ClaimedPcs
    BY <2>2 DEF ClaimedPcs
  <2> HIDE DEF Goto, UseSlot
  <2> QED BY <2>1, <2>2, <2>3, <2>4, <2>5, ProtocolStep
<1>3. CASE TryClaim(t)
  <2>0. pc[t] = "claim" /\ id[t] \in CallerIds
    BY <1>0, <1>3 DEF TryClaim, ClaimedPcs
  <2>1. \A j \in CallerIds : ~Holds(t, j)
    BY <2>0 DEF Holds, KernelPcs
  <2>2. CASE ~busy[id[t]] /\ busy' = [busy EXCEPT ![id[t]] = TRUE] /\ Goto(t, "check") /\ id' = id
    <3>1. pc'[t] = "check" /\ "check" \in Pcs
      BY <1>0, <2>2 DEF Pcs, GemmPcs, ClaimPcs
    <3>2. \A j \in CallerIds : Holds(t, j)' <=> j = id[t]
      BY <2>2, <3>1 DEF Holds, KernelPcs
    <3> HIDE DEF Goto, UseSlot
    <3> QED BY <2>0, <2>1, <2>2, <3>1, <3>2, ProtocolStep
  <2>3. CASE id[t] < LastId /\ UseSlot(t, id[t] + 1) /\ busy' = busy /\ pc' = pc
    <3>1. id[t] + 1 \in CallerIds /\ id[t] + 1 \in Ids \cup {None}
      BY <2>0, <2>3, IdFacts DEF Ids
    <3>2. id'[t] = id[t] + 1 /\ pc'[t] = "claim"
      BY <1>0, <2>0, <2>3
    <3>3. \A j \in CallerIds : ~Holds(t, j)'
      BY <3>2 DEF Holds, KernelPcs
    <3> HIDE DEF Goto, UseSlot
    <3> QED BY <2>1, <2>3, <3>1, <3>2, <3>3, ProtocolStep
  <2>4. CASE UseSlot(t, None) /\ Goto(t, "gemm") /\ busy' = busy
    <3>1. id'[t] = None /\ pc'[t] = "gemm" /\ "gemm" \in Pcs /\ pc'[t] \notin ClaimedPcs
      BY <1>0, <2>4 DEF Pcs, GemmPcs, ClaimedPcs
    <3>2. \A j \in CallerIds : ~Holds(t, j)'
      BY <3>1, IdFacts DEF Holds, Ids
    <3> HIDE DEF Goto, UseSlot
    <3> QED BY <2>1, <2>4, <3>1, <3>2, ProtocolStep
  <2> QED BY <1>3, <2>2, <2>3, <2>4 DEF TryClaim
(* The steps of a thread that holds its slot and goes on holding it, or uses a pool slot. *)
<1>4. ASSUME NEW where \in HoldPcs, pc[t] \in HoldPcs, Goto(t, where), id' = id, busy' = busy,
             id[t] \in CallerIds \/ where \notin ClaimedPcs
      PROVE  LockInv'
  <2>1. pc'[t] = where /\ where \in Pcs
    BY <1>0, <1>4 DEF HoldPcs, KernelPcs, Pcs, GemmPcs, ClaimPcs, CleanPcs
  <2>2. \A j \in CallerIds : Holds(t, j)' <=> Holds(t, j)
    BY <1>4, <2>1 DEF Holds, HoldPcs
  <2>3. pc'[t] \notin {"idle", "ensure", "pool"}
    BY <1>4, <2>1 DEF HoldPcs, KernelPcs
  <2> HIDE DEF Goto, UseSlot
  <2> QED BY <1>4, <2>1, <2>2, <2>3, ProtocolStep
<1>5. CASE CheckSize(t)
  BY <1>0, <1>4, <1>5 DEF CheckSize, HoldPcs, ClaimedPcs
<1>6. CASE AllocSlot(t)
  BY <1>0, <1>4, <1>6 DEF AllocSlot, HoldPcs, ClaimedPcs
<1>7. CASE LabelSlot(t)
  BY <1>0, <1>4, <1>7 DEF LabelSlot, HoldPcs, ClaimedPcs
<1>8. CASE GetBuffer(t)
  BY <1>4, <1>8 DEF GetBuffer, HoldPcs, KernelPcs, ClaimedPcs
<1>9. CASE TestPanel(t)
  BY <1>4, <1>9 DEF TestPanel, HoldPcs, KernelPcs, ClaimedPcs
<1>10. CASE KernelReturn(t)
  BY <1>4, <1>10 DEF KernelReturn, HoldPcs, KernelPcs, ClaimedPcs
<1>11. CASE Unclaim(t)
  <2>1. pc[t] = "unclaim" /\ id[t] \in CallerIds
    BY <1>0, <1>11 DEF Unclaim, ClaimedPcs
  <2>2. id'[t] = None /\ pc'[t] = "gemm" /\ "gemm" \in Pcs /\ pc'[t] \notin ClaimedPcs
    BY <1>0, <1>11 DEF Unclaim, Pcs, GemmPcs, ClaimedPcs
  <2>3. \A j \in CallerIds : ~Holds(t, j)' /\ (Holds(t, j) <=> j = id[t])
    BY <2>1, <2>2, IdFacts DEF Holds, Ids
  <2>4. busy' = [j \in CallerIds |-> IF Holds(t, j) THEN FALSE ELSE busy[j]]
    BY <1>0, <1>11, <2>1, <2>3 DEF Unclaim
  <2>5. Goto(t, "gemm") /\ UseSlot(t, None)
    BY <1>11 DEF Unclaim
  <2> HIDE DEF Goto, UseSlot
  <2> QED BY <2>2, <2>3, <2>4, <2>5, ProtocolStep
<1>12. CASE EndGemm(t)
  <2>1. id'[t] = None /\ pc'[t] = "idle" /\ "idle" \in Pcs /\ pc'[t] \notin ClaimedPcs
    BY <1>0, <1>12 DEF EndGemm, Pcs, ClaimedPcs
  <2>2. \A j \in CallerIds : ~Holds(t, j)' /\ (Holds(t, j) <=> j = id[t])
    BY <1>12, <2>1, IdFacts DEF EndGemm, Holds, Ids
  <2>3. busy' = [j \in CallerIds |-> IF Holds(t, j) THEN FALSE ELSE busy[j]]
    BY <1>12, <2>2 DEF EndGemm
  <2>4. Goto(t, "idle") /\ UseSlot(t, None)
    BY <1>12 DEF EndGemm
  <2> HIDE DEF Goto, UseSlot
  <2> QED BY <2>1, <2>2, <2>3, <2>4, ProtocolStep
<1> QED BY <1>1, <1>2, <1>3, <1>5, <1>6, <1>7, <1>8, <1>9, <1>10, <1>11, <1>12 DEF GemmStep

LEMMA ConfigProtocol ==
  ASSUME TypeOK, LockInv, NEW t \in Threads, ConfigStep(t)
  PROVE  LockInv'
<1> USE DEF Goto, UseSlot
<1>0. /\ pc[t] \in ClaimedPcs => id[t] \in CallerIds
      /\ pc[t] \in {"idle", "ensure", "pool"} => id[t] = None
      /\ pc \in [Threads -> Pcs] /\ id \in [Threads -> Ids \cup {None}]
      /\ busy \in [CallerIds -> BOOLEAN]
  BY DEF LockInv, WellPlaced, TypeOK
(* The steps of a thread that holds no slot. *)
<1>1. ASSUME NEW where \in {"idle", "ensure"}, pc[t] \in {"idle", "ensure", "pool"},
             Goto(t, where), id' = id, busy' = busy
      PROVE  LockInv'
  <2>1. pc'[t] = where /\ where \in Pcs /\ id'[t] = None
    BY <1>0, <1>1 DEF Pcs
  <2>2. \A j \in CallerIds : ~Holds(t, j)' /\ ~Holds(t, j)
    BY <1>1, <2>1 DEF Holds, KernelPcs
  <2>3. pc'[t] \notin ClaimedPcs
    BY <1>1, <2>1 DEF ClaimedPcs
  <2> HIDE DEF Goto, UseSlot
  <2> QED BY <1>1, <2>1, <2>2, <2>3, ProtocolStep
<1>2. ASSUME NEW b \in Blocks, InitBlocks(t, b)
      PROVE  LockInv'
  BY <1>1, <1>2 DEF InitBlocks, MayConfigure
<1>3. CASE InitBuffers(t)
  BY <1>1, <1>3 DEF InitBuffers
<1>4. CASE SetNumThreads(t)
  <2>1. UNCHANGED <<pc, id, busy>>
    BY <1>4 DEF SetNumThreads
  <2> QED BY <2>1 DEF LockInv, WellPlaced, SlotsHeldOnce, BusyIffHeld, Holds
<1>5. CASE CleanPool(t)
  BY <1>1, <1>5 DEF CleanPool
<1>6. CASE BeginCleanup(t)
  <2>1. Goto(t, "clean") /\ UseSlot(t, BASE) /\ busy' = busy /\ pc[t] = "idle"
    BY <1>6 DEF BeginCleanup
  <2>2. pc'[t] = "clean" /\ id'[t] = BASE
    BY <1>0, <2>1
  <2>3. "clean" \in Pcs /\ BASE \in Ids \cup {None} /\ BASE \in CallerIds
    BY IdFacts DEF Pcs, CleanPcs, Ids
  <2>4. \A i \in CallerIds : ~Holds(t, i)' /\ ~Holds(t, i)
    BY <2>1, <2>2 DEF Holds, KernelPcs
  <2> HIDE DEF Goto, UseSlot
  <2> QED BY <2>1, <2>2, <2>3, <2>4, ProtocolStep
<1>7. ASSUME id[t] \in CallerIds, NextToClean(t)
      PROVE  /\ \E where \in Pcs : Goto(t, where)
             /\ \E i \in Ids \cup {None} : UseSlot(t, i)
             /\ pc'[t] \in ClaimedPcs => id'[t] \in CallerIds
             /\ pc'[t] \in {"idle", "ensure", "pool"} => id'[t] = None
             /\ \A j \in CallerIds : ~Holds(t, j)'
  <2>1. CASE id[t] < LastId /\ UseSlot(t, id[t] + 1) /\ Goto(t, "clean")
    <3>1. id[t] + 1 \in CallerIds /\ id[t] + 1 \in Ids
      BY <1>7, <2>1, IdFacts DEF Ids
    <3>2. pc'[t] = "clean" /\ id'[t] = id[t] + 1 /\ "clean" \in Pcs
      BY <1>0, <2>1 DEF Pcs, CleanPcs
    <3>3. \A j \in CallerIds : ~Holds(t, j)'
      BY <3>2 DEF Holds, KernelPcs
    <3> HIDE DEF Goto, UseSlot
    <3> QED BY <2>1, <3>1, <3>2, <3>3
  <2>2. CASE UseSlot(t, None) /\ Goto(t, "pool")
    <3>1. pc'[t] = "pool" /\ id'[t] = None /\ "pool" \in Pcs /\ "pool" \notin ClaimedPcs
      BY <1>0, <2>2 DEF Pcs, CleanPcs, ClaimedPcs
    <3>2. \A j \in CallerIds : ~Holds(t, j)'
      BY <3>1 DEF Holds, KernelPcs
    <3> HIDE DEF Goto, UseSlot
    <3> QED BY <2>2, <3>1, <3>2
  <2> QED BY <1>7, <2>1, <2>2 DEF NextToClean
<1>8. CASE CleanTry(t)
  <2>0. pc[t] = "clean" /\ id[t] \in CallerIds
    BY <1>0, <1>8 DEF CleanTry, ClaimedPcs
  <2>1. \A j \in CallerIds : ~Holds(t, j)
    BY <2>0 DEF Holds, KernelPcs
  <2>2. CASE ~busy[id[t]] /\ busy' = [busy EXCEPT ![id[t]] = TRUE] /\ Goto(t, "free") /\ id' = id
    <3>1. pc'[t] = "free" /\ "free" \in Pcs
      BY <1>0, <2>2 DEF Pcs, CleanPcs
    <3>2. \A j \in CallerIds : Holds(t, j)' <=> j = id[t]
      BY <2>2, <3>1 DEF Holds, KernelPcs
    <3> HIDE DEF Goto, UseSlot
    <3> QED BY <2>0, <2>1, <2>2, <3>1, <3>2, ProtocolStep
  <2>3. CASE NextToClean(t) /\ busy' = busy
    <3> HIDE DEF Goto, UseSlot
    <3> QED BY <1>7, <2>0, <2>1, <2>3, ProtocolStep
  <2> QED BY <1>8, <2>2, <2>3 DEF CleanTry
<1>9. CASE CleanFree(t)
  <2>0. pc[t] = "free" /\ id[t] \in CallerIds
    BY <1>0, <1>9 DEF CleanFree, ClaimedPcs
  <2>1. \A j \in CallerIds : Holds(t, j) <=> j = id[t]
    BY <2>0 DEF Holds
  <2>2. busy' = [j \in CallerIds |-> IF Holds(t, j) THEN FALSE ELSE busy[j]]
    BY <1>0, <1>9, <2>0, <2>1 DEF CleanFree
  <2>3. NextToClean(t)
    BY <1>9 DEF CleanFree
  <2> HIDE DEF Goto, UseSlot
  <2> QED BY <1>7, <2>0, <2>2, <2>3, ProtocolStep
<1>10. CASE ShutdownDead(t)
  <2>1. UNCHANGED <<pc, id, busy>>
    BY <1>10 DEF ShutdownDead
  <2> QED BY <2>1 DEF LockInv, WellPlaced, SlotsHeldOnce, BusyIffHeld, Holds
<1> QED BY <1>2, <1>3, <1>4, <1>5, <1>6, <1>8, <1>9, <1>10 DEF ConfigStep

-----------------------------------------------------------------------------
(* What holds whatever the application does: no rule of use is assumed.     *)

LEMMA LockInduction == Spec => [](TypeOK /\ LockInv)
<1>1. Init => TypeOK /\ LockInv
  <2>1. Init => LockInv
    BY DEF Init, LockInv, WellPlaced, SlotsHeldOnce, BusyIffHeld, Holds, KernelPcs, ClaimedPcs
  <2> QED BY <2>1, InitType
<1>2. TypeOK /\ LockInv /\ [Next]_vars => (TypeOK /\ LockInv)'
  <2> SUFFICES ASSUME TypeOK, LockInv, [Next]_vars PROVE TypeOK' /\ LockInv'
    OBVIOUS
  <2>1. \A t \in Threads : id[t] \in CallerIds \/ pc[t] \notin ClaimedPcs
    BY DEF LockInv, WellPlaced
  <2>2. ASSUME NEW t \in Threads, GemmStep(t)
        PROVE  TypeOK' /\ LockInv'
    BY <2>1, <2>2, GemmType, GemmProtocol
  <2>3. ASSUME NEW t \in Threads, ConfigStep(t)
        PROVE  TypeOK' /\ LockInv'
    BY <2>1, <2>3, ConfigType, ConfigProtocol
  <2>4. CASE UNCHANGED vars
    BY <2>4 DEF vars, server, gemmVars, TypeOK, LockInv, WellPlaced, SlotsHeldOnce, BusyIffHeld, Holds
  <2> QED BY <2>2, <2>3, <2>4 DEF Next
<1> QED BY <1>1, <1>2, PTL DEF Spec

(* No run leaves the types: in particular a scan for a free slot ends at    *)
(* the last caller slot (util.c:185-193, :154-164).                         *)
THEOREM BuffersTypeCorrect == Spec => []TypeOK
BY LockInduction, PTL

(* Two GEMM calls, or a GEMM and a shutdown, never have the same caller     *)
(* slot, for any number of threads and slots and whether or not the         *)
(* application keeps the rules of use (util.c:180-226).                     *)
THEOREM SlotsExclude == Spec => []SlotsHeldOnce
BY LockInduction, PTL DEF LockInv

(* A caller slot is marked busy exactly while somebody holds it: no path    *)
(* out of a claim leaks one, failed allocations included.                   *)
THEOREM NoSlotLeaks == Spec => []BusyIffHeld
BY LockInduction, PTL DEF LockInv

-----------------------------------------------------------------------------
(* What holds for applications that keep the rules of use. *)

(* One configuration call at a time; cblas_init apart from every GEMM, and  *)
(* cblas_shutdown from those that use pool slots.                           *)
ConfigApart ==
  /\ \A t, u \in Threads : Configuring(t) /\ Configuring(u) => t = u
  /\ \A t, u \in Threads : pc[t] = "ensure" => ~Computing(u)
  /\ \A t, u \in Threads : pc[t] \in CleanPcs => ~UsesPool(u)

(* Pool slots exist below the count only, and only while there is a server  *)
(* or a shutdown at work on them.                                           *)
PoolBelowCount == \A i \in PoolIds : i >= count => buf[i] = Nothing

PoolServed ==
  /\ alive <=> inited /\ \A t \in Threads : pc[t] # "ensure"
  /\ \A t \in Threads : pc[t] = "ensure" => inited
  /\ ~alive /\ (\A t \in Threads : pc[t] \notin CleanPcs) => count = 0

(* The slots of the pool have the size in force; those of callers the size  *)
(* their label says, but between allocation and labelling.                  *)
PoolSized == \A i \in PoolIds : buf[i] \in {Nothing, blocks}

Labelled ==
  \A i \in CallerIds :
    \/ buf[i] \in {Nothing, label[i]}
    \/ \E t \in Threads : id[t] = i /\ pc[t] = "label"

(* A call that has its caller slot has it at the size in force. *)
SlotSized ==
  \A t \in Threads :
    id[t] \in CallerIds =>
      /\ pc[t] \in {"alloc", "label"} => buf[id[t]] \in {Nothing, blocks}
      /\ pc[t] \in {"gemm"} \cup KernelPcs => buf[id[t]] = blocks

(* What a kernel knows of its panel and of the slot it was given. *)
Packing ==
  \A t \in Threads :
    /\ pc[t] \in KernelPcs =>
         /\ pb[t] <= blocks.kc
         /\ packA[t] # None => packA[t] = id[t] /\ buf[id[t]] = blocks
    /\ pc[t] = "pack" /\ packB[t] # None =>
         packB[t] = packA[t] /\ pb[t] * shape[t].n <= blocks.kc * blocks.nb

SizesInv ==
  /\ ConfigApart /\ PoolBelowCount /\ PoolServed
  /\ PoolSized /\ Labelled /\ SlotSized /\ Packing

(* A shutdown nothing interferes with has freed the slots it has passed. *)
PassedFree ==
  \A t \in Threads :
    pc[t] \in CleanPcs /\ quiet[t] =>
      /\ \A u \in Threads : ~Computing(u)
      /\ \A i \in CallerIds : pc[t] = "pool" \/ i < id[t] => buf[i] = Nothing

ApartRules == {"init_alone", "shutdown_alone"}

(* Only the thread that takes a step changes where it is and what it packs. *)
LEMMA OthersStay ==
  ASSUME TypeOK, NEW t \in Threads, GemmStep(t) \/ ConfigStep(t), NEW u \in Threads \ {t}
  PROVE  /\ UNCHANGED <<pc[u], id[u]>>
         /\ UNCHANGED <<shape[u], pb[u], packA[u], packB[u]>>
<1> USE DEF TypeOK, Goto, UseSlot, gemmVars, server
<1>1. CASE GemmStep(t)
  <2>1. CASE \/ \E s \in Shapes : BeginGemm(t, s)
             \/ \E s \in Shapes, i \in PoolIds : BeginTask(t, s, i)
    BY <2>1 DEF BeginGemm, BeginTask, StartGemm
  <2>2. CASE TryClaim(t) \/ CheckSize(t) \/ AllocSlot(t) \/ LabelSlot(t) \/ Unclaim(t)
    BY <2>2 DEF TryClaim, CheckSize, AllocSlot, LabelSlot, Unclaim
  <2>3. CASE GetBuffer(t) \/ TestPanel(t) \/ KernelReturn(t) \/ EndGemm(t)
    BY <2>3 DEF GetBuffer, TestPanel, KernelReturn, EndGemm
  <2> QED BY <1>1, <2>1, <2>2, <2>3 DEF GemmStep
<1>2. CASE ConfigStep(t)
  BY <1>2
  DEF ConfigStep, InitBlocks, InitBuffers, SetNumThreads, BeginCleanup, ShutdownDead,
      CleanTry, CleanFree, CleanPool, NextToClean
<1> QED BY <1>1, <1>2

(* The slots a step may allocate or free. *)
LEMMA BufferEffect ==
  ASSUME TypeOK, LockInv, NEW t \in Threads, GemmStep(t) \/ ConfigStep(t)
  PROVE  \/ UNCHANGED <<buf, count>>
         \/ /\ pc[t] \in {"check", "alloc", "free"} /\ id[t] \in CallerIds
            /\ UNCHANGED count
            /\ \A i \in Ids \ {id[t]} : buf'[i] = buf[i]
         \/ InitBuffers(t) \/ SetNumThreads(t) \/ CleanPool(t)
<1>1. pc[t] \in {"check", "alloc", "free"} => id[t] \in CallerIds
  BY DEF LockInv, WellPlaced, ClaimedPcs
<1>2. CASE GemmStep(t)
  <2>1. CASE CheckSize(t) \/ AllocSlot(t)
    BY <1>1, <2>1 DEF CheckSize, AllocSlot, TypeOK
  <2>2. CASE GemmStep(t) /\ ~CheckSize(t) /\ ~AllocSlot(t)
    BY <2>2
    DEF GemmStep, BeginGemm, BeginTask, StartGemm, TryClaim, LabelSlot, Unclaim, GetBuffer,
        TestPanel, KernelReturn, EndGemm
  <2> QED BY <1>2, <2>1, <2>2
<1>3. CASE ConfigStep(t)
  <2>1. CASE CleanFree(t)
    BY <1>1, <2>1 DEF CleanFree, TypeOK
  <2> QED BY <1>3, <2>1 DEF ConfigStep, InitBlocks, BeginCleanup, ShutdownDead, CleanTry
<1> QED BY <1>2, <1>3

LEMMA BlocksEffect ==
  ASSUME NEW t \in Threads, GemmStep(t) \/ ConfigStep(t)
  PROVE  blocks' = blocks \/ \E b \in Blocks : InitBlocks(t, b)
BY DEF GemmStep, BeginGemm, BeginTask, StartGemm, TryClaim, CheckSize, AllocSlot, LabelSlot,
       Unclaim, GetBuffer, TestPanel, KernelReturn, EndGemm, ConfigStep, InitBuffers,
       SetNumThreads, BeginCleanup, ShutdownDead, CleanTry, CleanFree, CleanPool

(* Growing the pool touches the slots above the count, none of a caller's.  *)
LEMMA EnsureEffect ==
  ASSUME TypeOK, NEW n \in 1..MAX_THREADS, NEW failed \in SUBSET PoolIds,
         EnsureGemmBuffers(n, failed)
  PROVE  /\ \A i \in CallerIds : buf'[i] = buf[i]
         /\ \A i \in PoolIds : buf'[i] \in {buf[i], blocks}
         /\ \A i \in PoolIds : i >= count' => i >= count /\ buf'[i] = buf[i]
<1>1. count \in Int /\ n \in Int /\ n <= MAX_THREADS /\ MAX_THREADS \in Int
  BY BuffersAssumption DEF TypeOK
<1>2. \A i \in CallerIds : i \in Ids /\ i \in Int /\ i >= MAX_THREADS
  BY IdFacts DEF Ids
<1>3. \A i \in PoolIds : i \in Ids /\ i \in Int
  BY IdFacts DEF Ids
<1>4. \A i \in Ids : buf'[i] = IF i \in count..(n - 1) /\ i \notin failed THEN blocks ELSE buf[i]
  BY DEF EnsureGemmBuffers
<1>5. count' = IF n > count THEN n ELSE count
  BY DEF EnsureGemmBuffers
<1> QED BY <1>1, <1>2, <1>3, <1>4, <1>5

(* Emptying the pool touches the slots below the count, none of a caller's. *)
LEMMA CleanEffect ==
  ASSUME TypeOK, NEW t \in Threads, CleanPool(t)
  PROVE  /\ count' = 0
         /\ \A i \in CallerIds : buf'[i] = buf[i]
         /\ \A i \in PoolIds : buf'[i] = IF i < count THEN Nothing ELSE buf[i]
<1>1. count \in Int /\ count <= MAX_THREADS /\ MAX_THREADS \in Int
  BY BuffersAssumption DEF TypeOK
<1>2. \A i \in CallerIds : i \in Ids /\ i \in Int /\ i >= MAX_THREADS
  BY IdFacts DEF Ids
<1>3. \A i \in PoolIds : i \in Ids
  BY DEF Ids
<1> QED BY <1>1, <1>2, <1>3 DEF CleanPool

(* A thread begins a call only when none it must keep apart from runs. *)
EntersApart(t) ==
  /\ Computing(t)' => Computing(t) \/ \A u \in Threads : pc[u] # "ensure"
  /\ Configuring(t)' => Configuring(t) \/ \A u \in Threads : ~Configuring(u)
  /\ pc'[t] = "ensure" => \A u \in Threads : ~Computing(u)
  /\ pc'[t] \in CleanPcs => pc[t] \in CleanPcs \/ \A u \in Threads : ~UsesPool(u)
  /\ UsesPool(t)' => UsesPool(t) \/ \A u \in Threads : pc[u] \notin CleanPcs
  /\ ~(Computing(t)' /\ Configuring(t)')

(* Calls and configuration calls keep apart. *)
LEMMA ApartStep ==
  ASSUME TypeOK, LockInv, ConfigApart, ApartRules \subseteq Rules,
         NEW t \in Threads, GemmStep(t) \/ ConfigStep(t)
  PROVE  ConfigApart'
<1> USE DEF TypeOK, Goto, UseSlot
<1>1. \A u \in Threads \ {t} : pc'[u] = pc[u] /\ id'[u] = id[u]
  BY OthersStay
<1>2. Keeps("init_alone") /\ Keeps("shutdown_alone")
  BY DEF ApartRules, Keeps
<1>3. EntersApart(t)
  <2> USE DEF EntersApart, Computing, Configuring, UsesPool, GemmPcs, ClaimPcs, KernelPcs,
          CleanPcs
  <2>1. ASSUME NEW s \in Shapes, BeginGemm(t, s)
        PROVE  EntersApart(t)
    BY <1>2, <2>1, IdFacts DEF BeginGemm, StartGemm
  <2>2. ASSUME NEW s \in Shapes, NEW i \in PoolIds, BeginTask(t, s, i)
        PROVE  EntersApart(t)
    BY <1>2, <2>2 DEF BeginTask, StartGemm
  <2>3. CASE TryClaim(t)
    <3>1. id'[t] \notin PoolIds
      <4>1. id[t] \in CallerIds
        BY <2>3 DEF TryClaim, LockInv, WellPlaced, ClaimedPcs
      <4>2. id[t] < LastId => id[t] + 1 \in CallerIds
        BY <4>1, IdFacts
      <4>3. id'[t] = id[t] \/ (id[t] < LastId /\ id'[t] = id[t] + 1) \/ id'[t] = None
        BY <2>3, <4>1 DEF TryClaim
      <4> QED BY <4>1, <4>2, <4>3, IdFacts DEF Ids
    <3>2. pc[t] = "claim" /\ pc'[t] \in {"claim", "check", "gemm"}
      BY <2>3 DEF TryClaim
    <3> QED BY <3>1, <3>2
  <2>4. CASE Unclaim(t) \/ EndGemm(t)
    BY <2>4, IdFacts DEF Unclaim, EndGemm, Ids
  <2>5. CASE \/ CheckSize(t) \/ AllocSlot(t) \/ LabelSlot(t)
             \/ GetBuffer(t) \/ TestPanel(t) \/ KernelReturn(t)
    <3>1. pc[t] \in GemmPcs /\ pc'[t] \in GemmPcs /\ id' = id
      BY <2>5 DEF CheckSize, AllocSlot, LabelSlot, GetBuffer, TestPanel, KernelReturn
    <3> QED BY <3>1
  <2>6. CASE ConfigStep(t)
    BY <1>2, <2>6
    DEF ConfigStep, InitBlocks, MayConfigure, InitBuffers, SetNumThreads, BeginCleanup,
        ShutdownDead, CleanTry, CleanFree, CleanPool, NextToClean
  <2> QED BY <2>1, <2>2, <2>3, <2>4, <2>5, <2>6 DEF GemmStep
<1>4. \A u \in Threads \ {t} : /\ Computing(u)' <=> Computing(u)
                               /\ Configuring(u)' <=> Configuring(u)
                               /\ UsesPool(u)' <=> UsesPool(u)
  BY <1>1 DEF Computing, Configuring, UsesPool
<1>5. \A u \in Threads : (pc[u] = "ensure" \/ pc[u] \in CleanPcs => Configuring(u))'
  BY DEF Configuring
<1>6. \A u \in Threads : (UsesPool(u) => Computing(u))'
  BY DEF UsesPool
<1>7. \A u, v \in Threads : Configuring(u)' /\ Configuring(v)' => u = v
  BY <1>3, <1>4 DEF ConfigApart, EntersApart
<1>8. \A u, v \in Threads : pc'[u] = "ensure" => ~Computing(v)'
  BY <1>1, <1>3, <1>4, <1>5 DEF ConfigApart, EntersApart
<1>9. \A u, v \in Threads : pc'[u] \in CleanPcs => ~UsesPool(v)'
  BY <1>1, <1>3, <1>4, <1>5, <1>6 DEF ConfigApart, EntersApart
<1> QED BY <1>7, <1>8, <1>9 DEF ConfigApart

(* The pool is empty above the count, whatever the application does. *)
LEMMA PoolBelowStep ==
  ASSUME TypeOK, LockInv, PoolBelowCount, NEW t \in Threads, GemmStep(t) \/ ConfigStep(t)
  PROVE  PoolBelowCount'
<1>1. CASE UNCHANGED <<buf, count>>
  BY <1>1 DEF PoolBelowCount
<1>2. CASE /\ id[t] \in CallerIds /\ UNCHANGED count
           /\ \A i \in Ids \ {id[t]} : buf'[i] = buf[i]
  BY <1>2, IdFacts DEF PoolBelowCount, Ids
<1>3. CASE InitBuffers(t) \/ SetNumThreads(t)
  BY <1>3, EnsureEffect DEF InitBuffers, SetNumThreads, PoolBelowCount
<1>4. CASE CleanPool(t)
  <2>1. \A i \in PoolIds : i \in Int /\ (i < count \/ i >= count)
    BY IdFacts DEF TypeOK
  <2> QED BY <1>4, <2>1, CleanEffect DEF PoolBelowCount
<1> QED BY <1>1, <1>2, <1>3, <1>4, BufferEffect

LEMMA ServedStep ==
  ASSUME TypeOK, LockInv, ConfigApart, PoolServed, AppRules \subseteq Rules,
         NEW t \in Threads, GemmStep(t) \/ ConfigStep(t)
  PROVE  PoolServed'
<1> USE DEF TypeOK, Goto, UseSlot, server
<1>1. \A u \in Threads \ {t} : pc'[u] = pc[u]
  BY OthersStay
<1>2. Keeps("init_alone") /\ Keeps("shutdown_alone") /\ Keeps("init_once") /\ Keeps("init_server")
  BY DEF AppRules, Keeps
<1>3. CASE GemmStep(t)
  <2>1. UNCHANGED <<alive, inited, count>>
    BY <1>3
    DEF GemmStep, BeginGemm, BeginTask, StartGemm, TryClaim, CheckSize, AllocSlot, LabelSlot,
        Unclaim, GetBuffer, TestPanel, KernelReturn, EndGemm
  <2>2. {pc[t], pc'[t]} \cap ({"ensure"} \cup CleanPcs) = {}
    BY <1>3
    DEF GemmStep, BeginGemm, BeginTask, StartGemm, TryClaim, CheckSize, AllocSlot, LabelSlot,
        Unclaim, GetBuffer, TestPanel, KernelReturn, EndGemm, CleanPcs
  <2>3. \A u \in Threads : /\ pc'[u] = "ensure" <=> pc[u] = "ensure"
                           /\ pc'[u] \in CleanPcs <=> pc[u] \in CleanPcs
    BY <1>1, <2>2
  <2> QED BY <2>1, <2>3 DEF PoolServed
<1>4. ASSUME NEW b \in Blocks, InitBlocks(t, b)
      PROVE  PoolServed'
  <2>1. \A u \in Threads : pc[u] # "ensure" /\ pc[u] \notin CleanPcs
    BY <1>2, <1>4 DEF InitBlocks, MayConfigure, Configuring
  <2>2. /\ ~inited /\ ~alive /\ count = 0 /\ UNCHANGED <<alive, count>>
        /\ pc'[t] = "ensure" /\ inited'
    BY <1>2, <1>4, <2>1 DEF InitBlocks, PoolServed
  <2> QED BY <2>2 DEF PoolServed
<1>5. CASE InitBuffers(t)
  <2>1. pc[t] = "ensure" /\ pc'[t] = "idle" /\ alive' = TRUE /\ inited' = inited
    <3>1. \A n \in 1..MAX_THREADS : n > 1 => (alive \/ n > 1)
      OBVIOUS
    <3> QED BY <1>2, <1>5 DEF InitBuffers
  <2>2. \A u \in Threads \ {t} : pc[u] # "ensure"
    BY <2>1 DEF ConfigApart, Configuring
  <2>3. inited
    BY <2>1 DEF PoolServed
  <2> QED BY <1>1, <2>1, <2>2, <2>3 DEF PoolServed
<1>6. CASE SetNumThreads(t)
  BY <1>6 DEF SetNumThreads, PoolServed
<1>7. CASE BeginCleanup(t)
  <2>1. pc'[t] \in CleanPcs /\ ~alive' /\ ~inited' /\ pc'[t] # "ensure"
    BY <1>7 DEF BeginCleanup, CleanPcs
  <2>2. \A u \in Threads : pc[u] # "ensure"
    BY <1>2, <1>7 DEF BeginCleanup, Configuring
  <2> QED BY <1>1, <2>1, <2>2 DEF PoolServed
<1>8. CASE ShutdownDead(t)
  <2>1. \A u \in Threads : pc[u] # "ensure"
    BY <1>2, <1>8 DEF ShutdownDead, Configuring
  <2> QED BY <1>8, <2>1 DEF ShutdownDead, PoolServed
<1>9. CASE CleanTry(t) \/ CleanFree(t)
  <2>1. /\ pc[t] \in CleanPcs /\ pc'[t] \in CleanPcs /\ pc'[t] # "ensure" /\ pc[t] # "ensure"
        /\ UNCHANGED <<alive, inited>>
    BY <1>9 DEF CleanTry, CleanFree, NextToClean, CleanPcs
  <2> QED BY <1>1, <2>1 DEF PoolServed
<1>10. CASE CleanPool(t)
  <2>1. pc[t] \in CleanPcs /\ pc'[t] = "idle" /\ UNCHANGED <<alive, inited>>
        /\ count' = 0 /\ pc[t] # "ensure"
    BY <1>10 DEF CleanPool, CleanPcs
  <2> QED BY <1>1, <2>1 DEF PoolServed
<1> QED BY <1>3, <1>4, <1>5, <1>6, <1>7, <1>8, <1>9, <1>10 DEF ConfigStep

(* cblas_init computes new sizes only when the pool is empty. *)
LEMMA PoolSizedStep ==
  ASSUME TypeOK, LockInv, ConfigApart, PoolBelowCount, PoolServed, PoolSized,
         AppRules \subseteq Rules, NEW t \in Threads, GemmStep(t) \/ ConfigStep(t)
  PROVE  PoolSized'
<1>1. ASSUME NEW b \in Blocks, InitBlocks(t, b)
      PROVE  PoolSized'
  <2>1. \A u \in Threads : pc[u] # "ensure" /\ pc[u] \notin CleanPcs
    BY <1>1 DEF InitBlocks, MayConfigure, Configuring, AppRules, Keeps
  <2>2. count = 0 /\ buf' = buf
    BY <1>1, <2>1 DEF InitBlocks, PoolServed, AppRules, Keeps
  <2>3. \A i \in PoolIds : buf[i] = Nothing
    BY <2>2, IdFacts DEF PoolBelowCount
  <2> QED BY <2>2, <2>3 DEF PoolSized
<1>2. CASE blocks' = blocks
  <2>1. CASE UNCHANGED buf
    BY <1>2, <2>1 DEF PoolSized
  <2>2. CASE /\ id[t] \in CallerIds
             /\ \A i \in Ids \ {id[t]} : buf'[i] = buf[i]
    BY <1>2, <2>2, IdFacts DEF PoolSized, Ids
  <2>3. CASE InitBuffers(t) \/ SetNumThreads(t)
    BY <1>2, <2>3, EnsureEffect DEF InitBuffers, SetNumThreads, PoolSized
  <2>4. CASE CleanPool(t)
    BY <1>2, <2>4, CleanEffect DEF PoolSized
  <2> QED BY <2>1, <2>2, <2>3, <2>4, BufferEffect
<1> QED BY <1>1, <1>2, BlocksEffect

(* A slot another call holds keeps its size; the sizes in force stay too    *)
(* while any call runs.                                                     *)
LEMMA UsedStays ==
  ASSUME TypeOK, LockInv, ConfigApart, AppRules \subseteq Rules,
         NEW t \in Threads, GemmStep(t) \/ ConfigStep(t),
         NEW u \in Threads \ {t}, pc[u] \in {"check", "alloc", "label", "gemm"} \cup KernelPcs
  PROVE  blocks' = blocks /\ (id[u] \in Ids => buf'[id[u]] = buf[id[u]])
<1>1. Computing(u)
  BY DEF Computing, GemmPcs, ClaimPcs
<1>2. Keeps("init_alone") /\ Keeps("shutdown_alone")
  BY DEF AppRules, Keeps
<1>3. blocks' = blocks
  BY <1>1, <1>2, BlocksEffect DEF InitBlocks, MayConfigure
<1>4. ASSUME id[u] \in Ids
      PROVE  buf'[id[u]] = buf[id[u]]
  <2>1. CASE UNCHANGED buf
    BY <2>1
  <2>2. CASE /\ pc[t] \in {"check", "alloc", "free"} /\ id[t] \in CallerIds
             /\ \A i \in Ids \ {id[t]} : buf'[i] = buf[i]
    <3>1. Holds(t, id[t]) /\ Holds(u, id[u])
      BY <2>2 DEF Holds
    <3>2. id[u] # id[t]
      BY <2>2, <3>1 DEF LockInv, SlotsHeldOnce
    <3> QED BY <1>4, <2>2, <3>2
  <2>3. ASSUME id[u] \in CallerIds, InitBuffers(t) \/ SetNumThreads(t) \/ CleanPool(t)
        PROVE  buf'[id[u]] = buf[id[u]]
    BY <2>3, EnsureEffect, CleanEffect DEF InitBuffers, SetNumThreads
  <2>4. ASSUME id[u] \in PoolIds, InitBuffers(t) \/ SetNumThreads(t) \/ CleanPool(t)
        PROVE  FALSE
    <3>1. UsesPool(u)
      BY <1>1, <2>4 DEF UsesPool
    <3>2. CASE InitBuffers(t)
      BY <1>1, <3>2 DEF InitBuffers, ConfigApart
    <3>3. CASE SetNumThreads(t)
      BY <1>1, <1>2, <3>3 DEF SetNumThreads, MayConfigure
    <3>4. CASE CleanPool(t)
      BY <3>1, <3>4 DEF CleanPool, ConfigApart, CleanPcs
    <3> QED BY <2>4, <3>2, <3>3, <3>4
  <2> QED BY <1>4, <2>1, <2>2, <2>3, <2>4, BufferEffect DEF Ids
<1> QED BY <1>3, <1>4

(* Between allocation and labelling the thread that holds the slot is alone *)
(* with it.                                                                 *)
LEMMA LabelledStep ==
  ASSUME TypeOK, LockInv, Labelled, SlotSized, NEW t \in Threads, GemmStep(t) \/ ConfigStep(t)
  PROVE  Labelled'
<1> USE DEF TypeOK, Goto, UseSlot
<1>1. \A u \in Threads \ {t} : pc'[u] = pc[u] /\ id'[u] = id[u]
  BY OthersStay
<1>2. \A i \in CallerIds : i \in Ids
  BY DEF Ids
<1>3. CASE CheckSize(t) \/ CleanFree(t)
  <2>1. /\ pc[t] \in {"check", "free"} /\ UNCHANGED label
        /\ \A i \in Ids : buf'[i] \in {buf[i], Nothing}
    BY <1>3 DEF CheckSize, CleanFree
  <2> QED BY <1>1, <1>2, <2>1 DEF Labelled
<1>4. CASE AllocSlot(t)
  <2>1. id[t] \in CallerIds /\ pc[t] = "alloc" /\ UNCHANGED <<label, id>>
    BY <1>4 DEF AllocSlot, LockInv, WellPlaced, ClaimedPcs
  <2>2. CASE UNCHANGED buf
    BY <1>1, <2>1, <2>2 DEF Labelled
  <2>3. CASE buf' = [buf EXCEPT ![id[t]] = blocks] /\ Goto(t, "label")
    <3>1. pc'[t] = "label" /\ id'[t] = id[t]
      BY <2>1, <2>3
    <3>2. \A i \in CallerIds \ {id[t]} : buf'[i] = buf[i]
      BY <1>2, <2>3
    <3>3. ASSUME NEW i \in CallerIds \ {id[t]}
          PROVE  buf'[i] \in {Nothing, label'[i]} \/ \E u \in Threads : id'[u] = i /\ pc'[u] = "label"
      <4>1. CASE buf[i] \in {Nothing, label[i]}
        BY <2>1, <3>2, <4>1
      <4>2. ASSUME NEW u \in Threads, id[u] = i, pc[u] = "label"
            PROVE  id'[u] = i /\ pc'[u] = "label"
        BY <1>1, <4>2
      <4> QED BY <4>1, <4>2 DEF Labelled
    <3> QED BY <3>1, <3>3 DEF Labelled
  <2> QED BY <1>4, <2>2, <2>3 DEF AllocSlot
<1>5. CASE LabelSlot(t)
  <2>1. /\ id[t] \in CallerIds /\ pc[t] = "label" /\ UNCHANGED <<buf, id>>
        /\ label' = [label EXCEPT ![id[t]] = blocks]
    BY <1>5 DEF LabelSlot, LockInv, WellPlaced, ClaimedPcs
  <2>2. buf[id[t]] \in {Nothing, blocks}
    BY <2>1 DEF SlotSized
  <2>3. label'[id[t]] = blocks /\ \A i \in CallerIds \ {id[t]} : label'[i] = label[i]
    BY <2>1
  <2> QED BY <1>1, <2>1, <2>2, <2>3 DEF Labelled
<1>6. CASE /\ UNCHANGED label /\ pc[t] # "label"
           /\ \A i \in CallerIds : buf'[i] = buf[i]
  <2>1. ASSUME NEW i \in CallerIds
        PROVE  buf'[i] \in {Nothing, label'[i]} \/ \E u \in Threads : id'[u] = i /\ pc'[u] = "label"
    <3>1. CASE buf[i] \in {Nothing, label[i]}
      BY <1>6, <3>1
    <3>2. ASSUME NEW u \in Threads, id[u] = i, pc[u] = "label"
          PROVE  id'[u] = i /\ pc'[u] = "label"
      BY <1>1, <1>6, <3>2
    <3> QED BY <3>1, <3>2 DEF Labelled
  <2> QED BY <2>1 DEF Labelled
<1>7. CASE InitBuffers(t) \/ SetNumThreads(t)
  <2>1. UNCHANGED label /\ pc[t] # "label"
    BY <1>7 DEF InitBuffers, SetNumThreads, MayConfigure
  <2>2. \A i \in CallerIds : buf'[i] = buf[i]
    BY <1>7, EnsureEffect DEF InitBuffers, SetNumThreads
  <2> QED BY <1>6, <2>1, <2>2
<1>8. CASE CleanPool(t)
  BY <1>6, <1>8, CleanEffect DEF CleanPool
<1>9. CASE \/ \E s \in Shapes : BeginGemm(t, s)
           \/ \E s \in Shapes, i \in PoolIds : BeginTask(t, s, i)
           \/ TryClaim(t) \/ Unclaim(t) \/ GetBuffer(t) \/ TestPanel(t) \/ KernelReturn(t)
           \/ EndGemm(t) \/ (\E b \in Blocks : InitBlocks(t, b))
           \/ BeginCleanup(t) \/ ShutdownDead(t) \/ CleanTry(t)
  BY <1>6, <1>9
  DEF BeginGemm, BeginTask, StartGemm, TryClaim, Unclaim, GetBuffer, TestPanel, KernelReturn,
      EndGemm, InitBlocks, MayConfigure, BeginCleanup, ShutdownDead, CleanTry
<1> QED BY <1>3, <1>4, <1>5, <1>7, <1>8, <1>9 DEF GemmStep, ConfigStep

LEMMA SlotSizedStep ==
  ASSUME TypeOK, LockInv, ConfigApart, Labelled, SlotSized, AppRules \subseteq Rules,
         NEW t \in Threads, GemmStep(t) \/ ConfigStep(t)
  PROVE  SlotSized'
<1> USE DEF TypeOK, Goto, UseSlot
<1>1. ASSUME NEW u \in Threads \ {t}, id'[u] \in CallerIds
      PROVE  /\ pc'[u] \in {"alloc", "label"} => buf'[id'[u]] \in {Nothing, blocks'}
             /\ pc'[u] \in {"gemm"} \cup KernelPcs => buf'[id'[u]] = blocks'
  <2>1. pc'[u] = pc[u] /\ id'[u] = id[u] /\ id[u] \in Ids
    BY <1>1, OthersStay DEF Ids
  <2>2. CASE pc[u] \in {"alloc", "label", "gemm"} \cup KernelPcs
    <3>1. blocks' = blocks /\ buf'[id[u]] = buf[id[u]]
      BY <2>1, <2>2, UsedStays
    <3> QED BY <1>1, <2>1, <3>1 DEF SlotSized
  <2> QED BY <2>1, <2>2
<1>2. ASSUME id'[t] \in CallerIds
      PROVE  /\ pc'[t] \in {"alloc", "label"} => buf'[id'[t]] \in {Nothing, blocks'}
             /\ pc'[t] \in {"gemm"} \cup KernelPcs => buf'[id'[t]] = blocks'
  <2> USE <1>2 DEF KernelPcs
  <2>1. CASE CheckSize(t)
    <3>1. /\ pc[t] = "check" /\ pc'[t] = "alloc" /\ id'[t] = id[t] /\ blocks' = blocks
          /\ id[t] \in Ids
          /\ buf' = IF label[id[t]] # blocks THEN [buf EXCEPT ![id[t]] = Nothing] ELSE buf
      BY <2>1 DEF CheckSize, Ids
    <3>2. buf[id[t]] \in {Nothing, label[id[t]]}
      <4>1. ASSUME NEW u \in Threads, id[u] = id[t], pc[u] = "label"
            PROVE  FALSE
        <5>1. Holds(u, id[t]) /\ Holds(t, id[t])
          BY <3>1, <4>1 DEF Holds
        <5>2. u = t
          BY <3>1, <5>1 DEF LockInv, SlotsHeldOnce
        <5> QED BY <3>1, <4>1, <5>2
      <4> QED BY <3>1, <4>1 DEF Labelled
    <3> QED BY <3>1, <3>2
  <2>2. CASE AllocSlot(t)
    <3>1. pc[t] = "alloc" /\ id'[t] = id[t] /\ blocks' = blocks
      BY <2>2 DEF AllocSlot
    <3>2. buf[id[t]] \in {Nothing, blocks}
      BY <3>1 DEF SlotSized
    <3>3. CASE buf[id[t]] # Nothing /\ Goto(t, "gemm") /\ UNCHANGED buf
      BY <3>1, <3>2, <3>3
    <3>4. CASE /\ buf[id[t]] = Nothing /\ Goto(t, "label")
               /\ buf' = [buf EXCEPT ![id[t]] = blocks] \/ UNCHANGED buf
      <4>1. pc'[t] = "label" /\ buf'[id[t]] \in {Nothing, blocks}
        BY <3>1, <3>4
      <4> QED BY <3>1, <4>1
    <3> QED BY <2>2, <3>3, <3>4 DEF AllocSlot
  <2>3. CASE LabelSlot(t)
    BY <2>3 DEF LabelSlot, SlotSized
  <2>4. CASE GetBuffer(t) \/ TestPanel(t) \/ KernelReturn(t)
    BY <2>4 DEF GetBuffer, TestPanel, KernelReturn, SlotSized
  <2>5. CASE \/ \E s \in Shapes : BeginGemm(t, s)
             \/ \E s \in Shapes, i \in PoolIds : BeginTask(t, s, i)
             \/ TryClaim(t) \/ Unclaim(t) \/ EndGemm(t)
    <3>1. \/ pc'[t] \in {"claim", "check", "idle"}
          \/ id'[t] \in PoolIds \cup {None}
      BY <2>5 DEF BeginGemm, BeginTask, StartGemm, TryClaim, Unclaim, EndGemm
    <3> QED BY <3>1, IdFacts DEF Ids
  <2>6. CASE ConfigStep(t)
    BY <2>6
    DEF ConfigStep, InitBlocks, MayConfigure, InitBuffers, SetNumThreads, BeginCleanup,
        ShutdownDead, CleanTry, CleanFree, CleanPool, NextToClean
  <2> QED BY <2>1, <2>2, <2>3, <2>4, <2>5, <2>6 DEF GemmStep
<1> QED BY <1>1, <1>2 DEF SlotSized

LEMMA PackingStep ==
  ASSUME TypeOK, LockInv, ConfigApart, PoolSized, SlotSized, Packing, AppRules \subseteq Rules,
         NEW t \in Threads, GemmStep(t) \/ ConfigStep(t)
  PROVE  Packing'
<1> USE DEF TypeOK, Goto, UseSlot
<1>1. ASSUME NEW u \in Threads \ {t}
      PROVE  /\ pc'[u] \in KernelPcs =>
                  /\ pb'[u] <= blocks'.kc
                  /\ packA'[u] # None => packA'[u] = id'[u] /\ buf'[id'[u]] = blocks'
             /\ pc'[u] = "pack" /\ packB'[u] # None =>
                  packB'[u] = packA'[u] /\ pb'[u] * shape'[u].n <= blocks'.kc * blocks'.nb
  <2>1. /\ pc'[u] = pc[u] /\ id'[u] = id[u] /\ packA'[u] = packA[u] /\ packB'[u] = packB[u]
        /\ pb'[u] = pb[u] /\ shape'[u] = shape[u] /\ packA[u] \in Ids \cup {None}
    BY OthersStay
  <2>2. CASE pc[u] \in KernelPcs
    <3>1. blocks' = blocks /\ (id[u] \in Ids => buf'[id[u]] = buf[id[u]])
      BY <2>2, UsedStays
    <3> QED BY <2>1, <2>2, <3>1 DEF Packing
  <2>3. CASE pc[u] \notin KernelPcs
    BY <2>1, <2>3 DEF KernelPcs
  <2> QED BY <2>2, <2>3
<1>2. /\ pc'[t] \in KernelPcs =>
           /\ pb'[t] <= blocks'.kc
           /\ packA'[t] # None => packA'[t] = id'[t] /\ buf'[id'[t]] = blocks'
      /\ pc'[t] = "pack" /\ packB'[t] # None =>
           packB'[t] = packA'[t] /\ pb'[t] * shape'[t].n <= blocks'.kc * blocks'.nb
  <2>1. CASE GetBuffer(t)
    <3>1. /\ pc[t] = "gemm" /\ pc'[t] = "test" /\ UNCHANGED <<blocks, buf, id>>
          /\ pb'[t] = Least(shape[t].k - p[t], blocks.kc)
          /\ packA'[t] = IF id[t] # None /\ buf[id[t]] # Nothing THEN id[t] ELSE None
          /\ shape[t].k - p[t] \in Nat
      BY <2>1 DEF GetBuffer
    <3>2. pb'[t] <= blocks.kc
      BY <3>1, BlockSizes, LeastNat
    <3>3. packA'[t] # None => packA'[t] = id[t] /\ buf[id[t]] = blocks
      BY <3>1 DEF PoolSized, SlotSized, Ids
    <3> QED BY <3>1, <3>2, <3>3
  <2>2. CASE TestPanel(t)
    <3>1. /\ pc[t] = "test" /\ UNCHANGED <<blocks, buf, id, pb, packA, shape>>
          /\ packB'[t] = IF packA[t] # None /\ pb[t] * shape[t].n <= blocks.kc * blocks.nb
                         THEN packA[t] ELSE None
      BY <2>2 DEF TestPanel
    <3> QED BY <3>1 DEF Packing, KernelPcs
  <2>3. CASE KernelReturn(t)
    BY <2>3 DEF KernelReturn, KernelPcs
  <2>4. CASE GemmStep(t) /\ ~GetBuffer(t) /\ ~TestPanel(t) /\ ~KernelReturn(t)
    BY <2>4
    DEF GemmStep, BeginGemm, BeginTask, StartGemm, TryClaim, CheckSize, AllocSlot, LabelSlot,
        Unclaim, EndGemm, KernelPcs
  <2>5. CASE ConfigStep(t)
    BY <2>5
    DEF ConfigStep, InitBlocks, MayConfigure, InitBuffers, SetNumThreads, BeginCleanup,
        ShutdownDead, CleanTry, CleanFree, CleanPool, NextToClean, KernelPcs
  <2> QED BY <2>1, <2>2, <2>3, <2>4, <2>5
<1> QED BY <1>1, <1>2 DEF Packing

LEMMA Products ==
  ASSUME NEW a \in Nat, NEW b \in Nat, NEW c \in Nat, NEW d \in Nat, a <= c, b <= d
  PROVE  a * b <= c * d
<1>1. PICK e \in Nat, f \in Nat : c = a + e /\ d = b + f
  <2>1. c - a \in Nat /\ d - b \in Nat /\ c = a + (c - a) /\ d = b + (d - b)
    OBVIOUS
  <2> QED BY <2>1
<1>2. c * d = a * b + (a * f + e * b + e * f)
  BY <1>1
<1>3. a * f \in Nat /\ e * b \in Nat /\ e * f \in Nat /\ a * b \in Nat
  OBVIOUS
<1> QED BY <1>2, <1>3

(* A running kernel never packs past the end of the buffers its slot has:   *)
(* they are not freed under it, and were allocated for the sizes it reads   *)
(* from the globals (dgemm_k_avx.c:209-222), for any sizes, shapes, threads *)
(* and slots, if the application keeps the rules of use.                    *)
THEOREM PanelsAlwaysFit ==
  ASSUME AppRules \subseteq Rules
  PROVE  Spec => []PanelsFit
<1>0. ApartRules \subseteq Rules
  BY DEF ApartRules, AppRules
<1>1. Init => SizesInv
  BY DEF Init, SizesInv, ConfigApart, PoolBelowCount, PoolServed, PoolSized, Labelled,
         SlotSized, Packing, Configuring, Computing, UsesPool, GemmPcs, ClaimPcs, CleanPcs,
         KernelPcs, Ids
<1>2. TypeOK /\ LockInv /\ SizesInv /\ [Next]_vars => SizesInv'
  <2> SUFFICES ASSUME TypeOK, LockInv, SizesInv, [Next]_vars PROVE SizesInv'
    OBVIOUS
  <2>1. ASSUME NEW t \in Threads, GemmStep(t) \/ ConfigStep(t)
        PROVE  SizesInv'
    <3>1. ConfigApart' /\ PoolBelowCount' /\ PoolServed'
      BY <1>0, <2>1, ApartStep, PoolBelowStep, ServedStep DEF SizesInv
    <3>2. PoolSized' /\ Labelled'
      BY <2>1, PoolSizedStep, LabelledStep DEF SizesInv
    <3>3. SlotSized' /\ Packing'
      BY <2>1, SlotSizedStep, PackingStep DEF SizesInv
    <3> QED BY <3>1, <3>2, <3>3 DEF SizesInv
  <2>2. CASE UNCHANGED vars
    BY <2>2
    DEF vars, server, gemmVars, SizesInv, ConfigApart, PoolBelowCount, PoolServed, PoolSized,
        Labelled, SlotSized, Packing, Configuring, Computing, UsesPool
  <2> QED BY <2>1, <2>2 DEF Next
<1>3. TypeOK /\ SizesInv => PanelsFit
  <2> SUFFICES ASSUME TypeOK, SizesInv, NEW t \in Threads
               PROVE  /\ pc[t] \in KernelPcs /\ packA[t] # None
                           => /\ buf[packA[t]] # Nothing
                              /\ MR * pb[t] <= buf[packA[t]].mc * buf[packA[t]].kc
                      /\ pc[t] = "pack" /\ packB[t] # None
                           => pb[t] * shape[t].n <= buf[packB[t]].kc * buf[packB[t]].nb
    BY DEF PanelsFit
  <2>1. /\ MR \in Nat /\ pb[t] \in Nat /\ blocks \in Blocks /\ blocks # Nothing
        /\ blocks.mc \in Nat /\ blocks.kc \in Nat /\ MR <= blocks.mc
    BY BuffersAssumption, BlockSizes, NothingIsNoBlock DEF TypeOK
  <2>2. ASSUME pc[t] \in KernelPcs, packA[t] # None
        PROVE  /\ buf[packA[t]] = blocks
               /\ MR * pb[t] <= blocks.mc * blocks.kc
    <3>1. pb[t] <= blocks.kc /\ buf[packA[t]] = blocks
      BY <2>2 DEF SizesInv, Packing
    <3> QED BY <2>1, <3>1, Products
  <2>3. ASSUME pc[t] = "pack", packB[t] # None
        PROVE  buf[packB[t]] = blocks /\ pb[t] * shape[t].n <= blocks.kc * blocks.nb
    BY <2>3 DEF SizesInv, Packing, KernelPcs
  <2> QED BY <2>1, <2>2, <2>3
<1> QED BY <1>1, <1>2, <1>3, LockInduction, PTL DEF Spec

(* A shutdown that no GEMM disturbs frees a caller slot before it goes on.  *)
LEMMA PassedStep ==
  ASSUME TypeOK, LockInv, ConfigApart, PassedFree, ApartRules \subseteq Rules,
         NEW t \in Threads, GemmStep(t) \/ ConfigStep(t)
  PROVE  PassedFree'
<1> USE DEF TypeOK, Goto, UseSlot
<1>1. Keeps("init_alone") /\ Keeps("shutdown_alone")
  BY DEF ApartRules, Keeps
<1>2. \A u \in Threads \ {t} : pc'[u] = pc[u] /\ id'[u] = id[u]
  BY OthersStay
<1>3. \A u \in Threads : pc[u] \in CleanPcs => Configuring(u) /\ ~Computing(u)
  BY DEF Configuring, Computing, CleanPcs, GemmPcs, ClaimPcs, KernelPcs
<1>4. \A u \in Threads \ {t} : Computing(u)' <=> Computing(u)
  BY <1>2 DEF Computing
<1>5. ASSUME NEW u \in Threads \ {t}, pc'[u] \in CleanPcs, quiet'[u]
      PROVE  FALSE
  <2>1. pc[u] \in CleanPcs /\ Configuring(u)
    BY <1>2, <1>3, <1>5
  <2>2. ~(ConfigStep(t))
    <3>1. ~Configuring(t)
      BY <2>1 DEF ConfigApart
    <3> QED BY <1>1, <2>1, <3>1
        DEF ConfigStep, InitBlocks, MayConfigure, InitBuffers, SetNumThreads, BeginCleanup,
            ShutdownDead, CleanTry, CleanFree, CleanPool, Configuring, CleanPcs
  <2>3. CASE Computing(t)
    <3>1. quiet' = quiet
      BY <2>2, <2>3
      DEF GemmStep, BeginGemm, BeginTask, StartGemm, Computing, GemmPcs, ClaimPcs, KernelPcs,
          TryClaim, CheckSize, AllocSlot, LabelSlot, Unclaim, GetBuffer, TestPanel,
          KernelReturn, EndGemm
    <3> QED BY <1>5, <2>1, <2>3, <3>1 DEF PassedFree
  <2>4. CASE ~Computing(t)
    <3>1. \E s \in Shapes : StartGemm(t, s)
      BY <2>2, <2>4
      DEF GemmStep, BeginGemm, BeginTask, Computing, GemmPcs, ClaimPcs, KernelPcs,
          TryClaim, CheckSize, AllocSlot, LabelSlot, Unclaim, GetBuffer, TestPanel,
          KernelReturn, EndGemm
    <3> QED BY <1>5, <3>1 DEF StartGemm
  <2> QED BY <2>3, <2>4
<1>6. ASSUME pc'[t] \in CleanPcs, quiet'[t]
      PROVE  /\ \A u \in Threads : ~Computing(u)'
             /\ \A i \in CallerIds : pc'[t] = "pool" \/ i < id'[t] => buf'[i] = Nothing
  <2>1. ~Computing(t)'
    BY <1>6 DEF Computing, CleanPcs, GemmPcs, ClaimPcs, KernelPcs
  <2>2. CASE BeginCleanup(t)
    <3>1. \A u \in Threads : ~Computing(u)
      BY <1>6, <2>2 DEF BeginCleanup
    <3>2. id'[t] = BASE /\ pc'[t] = "clean"
      BY <2>2 DEF BeginCleanup
    <3>3. \A i \in CallerIds : ~(i < BASE)
      BY IdFacts, BuffersAssumption DEF BASE
    <3> QED BY <1>4, <2>1, <3>1, <3>2, <3>3
  <2>3. CASE CleanTry(t) \/ CleanFree(t)
    <3>1. /\ pc[t] \in {"clean", "free"} /\ quiet[t] /\ id[t] \in CallerIds
          /\ \A u \in Threads : ~Computing(u)
      BY <1>6, <2>3
      DEF CleanTry, CleanFree, CleanPcs, PassedFree, LockInv, WellPlaced, ClaimedPcs
    <3>2. \A u \in Threads : ~Computing(u)'
      BY <1>4, <2>1, <3>1
    <3>3. \A i \in CallerIds : i < id[t] => buf[i] = Nothing
      BY <3>1 DEF PassedFree, CleanPcs
    <3>4. CASE CleanFree(t)
      <4>1. \A i \in CallerIds : i < id[t] + 1 \/ id[t] = LastId => i <= id[t]
        BY <3>1, IdFacts
      <4>2. \A i \in CallerIds : i <= id[t] => i = id[t] \/ i < id[t]
        <5>1. \A i \in CallerIds : i \in Int
          BY IdFacts
        <5>2. \A i, j \in Int : i <= j => i = j \/ i < j
          OBVIOUS
        <5> QED BY <3>1, <5>1, <5>2
      <4>3. \A i \in CallerIds : i <= id[t] => buf'[i] = Nothing
        BY <3>3, <3>4, <4>2 DEF CleanFree, Ids
      <4>4. \/ id'[t] = id[t] + 1 /\ pc'[t] = "clean"
            \/ id[t] = LastId
        BY <3>1, <3>4, IdFacts DEF CleanFree, NextToClean
      <4> QED BY <3>2, <4>1, <4>3, <4>4
    <3>5. CASE CleanTry(t)
      <4>1. ~busy[id[t]]
        <5>1. \A u \in Threads : ~Holds(u, id[t])
          <6>1. ASSUME NEW u \in Threads, Holds(u, id[t])
                PROVE  FALSE
            <7>1. pc[u] = "free"
              BY <3>1, <6>1 DEF Holds, Computing, GemmPcs, ClaimPcs, KernelPcs
            <7>2. u = t
              BY <1>3, <3>1, <7>1 DEF ConfigApart, CleanPcs
            <7> QED BY <3>5, <7>1, <7>2 DEF CleanTry
          <6> QED BY <6>1
        <5> QED BY <3>1, <5>1 DEF LockInv, BusyIffHeld
      <4>2. pc'[t] = "free" /\ id'[t] = id[t] /\ buf' = buf
        BY <3>5, <4>1 DEF CleanTry
      <4> QED BY <3>2, <3>3, <4>2
    <3> QED BY <2>3, <3>4, <3>5
  <2>4. CASE GemmStep(t)
    BY <1>6, <2>4
    DEF GemmStep, BeginGemm, BeginTask, StartGemm, TryClaim, CheckSize, AllocSlot, LabelSlot,
        Unclaim, GetBuffer, TestPanel, KernelReturn, EndGemm, CleanPcs
  <2>5. CASE ConfigStep(t) /\ ~BeginCleanup(t) /\ ~CleanTry(t) /\ ~CleanFree(t)
    BY <1>6, <2>5
    DEF ConfigStep, InitBlocks, MayConfigure, InitBuffers, SetNumThreads, ShutdownDead,
        CleanPool, CleanPcs
  <2> QED BY <2>2, <2>3, <2>4, <2>5
<1> QED BY <1>5, <1>6 DEF PassedFree

(* A shutdown during which no GEMM ran leaves no packing buffer allocated   *)
(* (util.c:152-176, cblas.h:1351), whatever was allocated, and whatever     *)
(* failed to be, before it - if configuration calls do not overlap.         *)
THEOREM CleanupLeavesNothing ==
  ASSUME ApartRules \subseteq Rules
  PROVE  Spec => CleanupFreesAll
<1> DEFINE Inv == ConfigApart /\ PoolBelowCount /\ PassedFree
<1>1. Init => Inv
  BY DEF Init, ConfigApart, PoolBelowCount, PassedFree, Configuring, Computing, UsesPool,
         GemmPcs, ClaimPcs, CleanPcs, KernelPcs, Ids
<1>2. TypeOK /\ LockInv /\ Inv /\ [Next]_vars => Inv'
  <2> SUFFICES ASSUME TypeOK, LockInv, Inv, [Next]_vars PROVE Inv'
    OBVIOUS
  <2>1. ASSUME NEW t \in Threads, GemmStep(t) \/ ConfigStep(t)
        PROVE  Inv'
    BY <2>1, ApartStep, PoolBelowStep, PassedStep
  <2>2. CASE UNCHANGED vars
    BY <2>2 DEF vars, ConfigApart, PoolBelowCount, PassedFree, Configuring, Computing, UsesPool
  <2> QED BY <2>1, <2>2 DEF Next
<1>3. TypeOK /\ Inv =>
        [\A t \in Threads : CleanPool(t) /\ quiet[t] => buf' = [i \in Ids |-> Nothing]]_vars
  <2> SUFFICES ASSUME TypeOK, Inv, NEW t \in Threads, CleanPool(t), quiet[t]
               PROVE  buf' = [i \in Ids |-> Nothing]
    OBVIOUS
  <2>1. pc[t] = "pool" /\ pc[t] \in CleanPcs
    BY DEF CleanPool, CleanPcs
  <2>2. \A i \in CallerIds : buf'[i] = Nothing
    BY <2>1, CleanEffect DEF PassedFree
  <2>3. \A i \in PoolIds : buf'[i] = Nothing
    <3>1. \A i \in PoolIds : i < count \/ i >= count
      BY IdFacts DEF TypeOK
    <3> QED BY <3>1, CleanEffect DEF PoolBelowCount
  <2>4. \A i \in Ids : buf'[i] = Nothing
    BY <2>2, <2>3 DEF Ids
  <2> QED BY <2>4 DEF CleanPool
<1> HIDE DEF Inv
<1> QED BY <1>1, <1>2, <1>3, LockInduction, PTL DEF Spec, CleanupFreesAll

=============================================================================
