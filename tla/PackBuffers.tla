----------------------------- MODULE PackBuffers -----------------------------
(****************************************************************************)
(* The packing buffers of GEMM (util.c) and how the kernels use them.       *)
(*                                                                          *)
(* A GEMM on the calling thread claims one of the caller slots by           *)
(* compare-and-swap, sizes it for the block sizes in force, keeps it for    *)
(* all its kernel calls and releases it.  A task of a multi-threaded GEMM   *)
(* uses the pool slot of the thread it runs on.  A kernel asks for its      *)
(* buffer, tests whether its panel of B fits, and packs into the slot or    *)
(* into memory of its own.  Meanwhile cblas_init may compute new block      *)
(* sizes and cblas_shutdown frees the slots no call holds.                  *)
(*                                                                          *)
(* The slot ids are those of cblas_args_t.thread_id.  That no two threads   *)
(* run tasks under one pool id is shown in ThreadServer (SlotsExclusive)    *)
(* and taken as given here.                                                 *)
(****************************************************************************)
EXTENDS Integers, FiniteSets

CONSTANTS
  Threads,      \* application threads and workers
  MAX_THREADS,  \* pool slots, CBLAS_CALLER_SLOT_BASE
  CallerSlots,  \* CBLAS_CALLER_SLOTS
  Blocks,       \* block sizes cblas_init may compute: [mc, kc, nb : Nat]
  MR,           \* rows of the micro-kernel's panel of A
  Shapes,       \* the GEMMs that are called: [n, k : Nat] (bound)
  AllocFails,   \* the slots whose allocation may fail (bound)
  Rules         \* the rules of use the application keeps, see AppRules

(* docs/THREADING.md:171-175 and :394-396 ask applications for these.       *)
(*   init_alone     cblas_init, cblas_set_num_threads overlap no GEMM and   *)
(*                  no other configuration call                             *)
(*   shutdown_alone cblas_shutdown overlaps no configuration call and no    *)
(*                  multi-threaded GEMM (it may overlap others: the code    *)
(*                  leaves their slots alone)                               *)
(*   init_once      cblas_init is not repeated without a cblas_shutdown     *)
(*                  between                                                 *)
(* and this is what the code relies on besides:                             *)
(*   init_server    cblas_init asks for two threads at least, so that there *)
(*                  is a server for cblas_shutdown to shut down             *)
AppRules == {"init_alone", "shutdown_alone", "init_once", "init_server"}

None == -1      \* no slot: cblas_claim_gemm_buffer failed

ASSUME BuffersAssumption ==
  /\ MAX_THREADS \in Nat \ {0}
  /\ CallerSlots \in Nat \ {0}
  /\ MR \in Nat
  /\ Blocks \subseteq [mc : Nat, kc : Nat \ {0}, nb : Nat]
  /\ Blocks # {}
  /\ \A b \in Blocks : MR <= b.mc      \* CBLAS_GEMM_MC is at least 16
  /\ Shapes \subseteq [n : Nat, k : Nat]
  /\ AllocFails \subseteq Nat
  /\ Rules \subseteq AppRules

PoolIds   == 0..(MAX_THREADS - 1)
BASE      == MAX_THREADS
LastId    == BASE + CallerSlots - 1
CallerIds == BASE..LastId
Ids       == PoolIds \cup CallerIds

(* Not allocated; what caller_slot_blocks[] holds before the first use. *)
Nothing == [mc |-> 0, kc |-> 0, nb |-> 0]
Sizes   == Blocks \cup {Nothing}

VARIABLES
  blocks,   \* cblas_gemm_mc, _kc, _nb
  buf,      \* per slot: the block sizes it was allocated for, or Nothing
  label,    \* caller_slot_blocks[]
  busy,     \* caller_slot_busy[]
  count,    \* gemm_buffers_count; 0 is also "not initialized"
  alive,    \* cblas_server_alive
  inited,   \* history: cblas_init was called and no cblas_shutdown since
  pc, id,   \* per thread: where it is, and the slot it tries, holds or uses
  shape,    \* per thread: the GEMM it runs
  p,        \* per thread: depth reached, the loop variable of gemm.c
  pb,       \* per thread: depth of the panel at hand
  packA, packB,  \* per thread: the slot whose packedA, packedB the kernel uses, or None
  quiet     \* per thread, history: no GEMM was under way since its shutdown began

gemmVars == <<shape, p, pb, packA, packB>>
server == <<alive, inited>>
vars == <<blocks, buf, label, busy, count, server, pc, id, gemmVars, quiet>>

ClaimPcs  == {"claim", "check", "alloc", "label", "unclaim"}
KernelPcs == {"test", "pack"}
GemmPcs   == ClaimPcs \cup KernelPcs \cup {"gemm"}
CleanPcs  == {"clean", "free", "pool"}
Pcs       == {"idle", "ensure"} \cup GemmPcs \cup CleanPcs

NoGemm == [n |-> 0, k |-> 0]
Least(a, b) == IF a < b THEN a ELSE b

Init ==
  /\ blocks \in Blocks
  /\ buf = [i \in Ids |-> Nothing]
  /\ label = [i \in CallerIds |-> Nothing]
  /\ busy = [i \in CallerIds |-> FALSE]
  /\ count = 0
  /\ alive = FALSE
  /\ inited = FALSE
  /\ pc = [t \in Threads |-> "idle"]
  /\ id = [t \in Threads |-> None]
  /\ shape = [t \in Threads |-> NoGemm]
  /\ p = [t \in Threads |-> 0]
  /\ pb = [t \in Threads |-> 0]
  /\ packA = [t \in Threads |-> None]
  /\ packB = [t \in Threads |-> None]
  /\ quiet = [t \in Threads |-> FALSE]

Goto(t, where) == pc' = [pc EXCEPT ![t] = where]
UseSlot(t, i)  == id' = [id EXCEPT ![t] = i]

Keeps(rule) == rule \in Rules
Computing(t)   == pc[t] \in GemmPcs
Configuring(t) == pc[t] \in {"ensure"} \cup CleanPcs
UsesPool(t)    == Computing(t) /\ id[t] \in PoolIds

-----------------------------------------------------------------------------
(* GEMM on the calling thread, and a task of a multi-threaded one. *)

StartGemm(t, s) ==
  /\ pc[t] = "idle"
  /\ Keeps("init_alone") => \A u \in Threads : pc[u] # "ensure"
  /\ shape' = [shape EXCEPT ![t] = s]
  /\ p' = [p EXCEPT ![t] = 0]
  /\ quiet' = [u \in Threads |-> FALSE]
  /\ UNCHANGED <<blocks, buf, label, busy, count, server, pb, packA, packB>>

BeginGemm(t, s) ==
  /\ StartGemm(t, s)
  /\ Goto(t, "claim")
  /\ UseSlot(t, BASE)

(* A worker, or the calling thread for its own task, runs a task under the  *)
(* pool id cblas_execute gave it.  (Without a server no task is run by a    *)
(* worker and the call never returns: ThreadServer.)                        *)
BeginTask(t, s, i) ==
  /\ StartGemm(t, s)
  /\ alive
  /\ i < count
  /\ \A u \in Threads : UsesPool(u) => id[u] # i
  /\ Keeps("shutdown_alone") => \A u \in Threads : pc[u] \notin CleanPcs
  /\ Goto(t, "gemm")
  /\ UseSlot(t, i)

\* Mutant: the scan tests one slot too many.
ClaimPastEnd(t) ==
  /\ pc[t] = "claim"
  /\ IF busy[id[t]]
     THEN UseSlot(t, id[t] + 1) /\ UNCHANGED <<busy, pc>>
     ELSE /\ busy' = [busy EXCEPT ![id[t]] = TRUE]
          /\ Goto(t, "check")
          /\ UNCHANGED id
  /\ UNCHANGED <<blocks, buf, label, count, server, gemmVars, quiet>>

(* The relaxed load and the compare-and-swap: both fail alike. *)
TryClaim(t) ==
  /\ pc[t] = "claim"
  /\ \/ /\ ~busy[id[t]]
        /\ busy' = [busy EXCEPT ![id[t]] = TRUE]
        /\ Goto(t, "check")
        /\ UNCHANGED id
     \/ /\ busy[id[t]] /\ id[t] < LastId
        /\ UseSlot(t, id[t] + 1)
        /\ UNCHANGED <<busy, pc>>
     \/ /\ busy[id[t]] /\ id[t] = LastId
        /\ UseSlot(t, None)
        /\ Goto(t, "gemm")
        /\ UNCHANGED busy
  /\ UNCHANGED <<blocks, buf, label, count, server, gemmVars, quiet>>

\* Mutant: an allocated slot is taken as it is.
KeepOldSize(t) ==
  /\ pc[t] = "check"
  /\ Goto(t, "alloc")
  /\ UNCHANGED <<blocks, buf, label, busy, count, server, id, gemmVars, quiet>>

(* A slot sized for other blocks is freed. *)
CheckSize(t) ==
  /\ pc[t] = "check"
  /\ buf' = IF label[id[t]] # blocks THEN [buf EXCEPT ![id[t]] = Nothing] ELSE buf
  /\ Goto(t, "alloc")
  /\ UNCHANGED <<blocks, label, busy, count, server, id, gemmVars, quiet>>

(* cblas_alloc_gemm_buffer_slot reads the globals; all four allocations     *)
(* succeed or the slot is rolled back.                                      *)
AllocSlot(t) ==
  /\ pc[t] = "alloc"
  /\ \/ /\ buf[id[t]] # Nothing
        /\ Goto(t, "gemm")
        /\ UNCHANGED buf
     \/ /\ buf[id[t]] = Nothing
        /\ \/ buf' = [buf EXCEPT ![id[t]] = blocks]
           \/ id[t] \in AllocFails /\ UNCHANGED buf
        /\ Goto(t, "label")
  /\ UNCHANGED <<blocks, label, busy, count, server, id, gemmVars, quiet>>

LabelSlot(t) ==
  /\ pc[t] = "label"
  /\ label' = [label EXCEPT ![id[t]] = blocks]
  /\ Goto(t, IF buf[id[t]] # Nothing THEN "gemm" ELSE "unclaim")
  /\ UNCHANGED <<blocks, buf, busy, count, server, id, gemmVars, quiet>>

\* Mutant: a failed allocation returns without giving the slot back.
FailWithoutRelease(t) ==
  /\ pc[t] = "unclaim"
  /\ UseSlot(t, None)
  /\ Goto(t, "gemm")
  /\ UNCHANGED <<blocks, buf, label, busy, count, server, gemmVars, quiet>>

(* The allocation failed: the slot goes back and the call gets none. *)
Unclaim(t) ==
  /\ pc[t] = "unclaim"
  /\ busy' = [busy EXCEPT ![id[t]] = FALSE]
  /\ UseSlot(t, None)
  /\ Goto(t, "gemm")
  /\ UNCHANGED <<blocks, buf, label, count, server, gemmVars, quiet>>

(* One kernel call: the depth of its panel, and cblas_get_gemm_buffer. *)
GetBuffer(t) ==
  /\ pc[t] = "gemm"
  /\ p[t] < shape[t].k
  /\ pb' = [pb EXCEPT ![t] = Least(shape[t].k - p[t], blocks.kc)]
  /\ packA' = [packA EXCEPT ![t] =
                 IF id[t] # None /\ buf[id[t]] # Nothing THEN id[t] ELSE None]
  /\ Goto(t, "test")
  /\ UNCHANGED <<blocks, buf, label, busy, count, server, id, shape, p, packB, quiet>>

(* packedB_needed <= pool_b_size, the latter from the globals; else malloc. *)
TestPanel(t) ==
  /\ pc[t] = "test"
  /\ packB' = [packB EXCEPT ![t] =
                 IF packA[t] # None /\ pb[t] * shape[t].n <= blocks.kc * blocks.nb
                 THEN packA[t] ELSE None]
  /\ Goto(t, "pack")
  /\ UNCHANGED <<blocks, buf, label, busy, count, server, id, shape, p, pb, packA, quiet>>

(* The kernel packs, multiplies and returns; the next call is for the next  *)
(* block of rows, or of depth.                                              *)
KernelReturn(t) ==
  /\ pc[t] = "pack"
  /\ p' = [p EXCEPT ![t] = @ + blocks.kc] \/ UNCHANGED p
  /\ pb' = [pb EXCEPT ![t] = 0]
  /\ packA' = [packA EXCEPT ![t] = None]
  /\ packB' = [packB EXCEPT ![t] = None]
  /\ Goto(t, "gemm")
  /\ UNCHANGED <<blocks, buf, label, busy, count, server, id, shape, quiet>>

(* cblas_release_gemm_buffer, which ignores all but the caller slots. *)
EndGemm(t) ==
  /\ pc[t] = "gemm"
  /\ p[t] >= shape[t].k
  /\ busy' = [i \in CallerIds |-> IF i = id[t] THEN FALSE ELSE busy[i]]
  /\ UseSlot(t, None)
  /\ Goto(t, "idle")
  /\ shape' = [shape EXCEPT ![t] = NoGemm]
  /\ p' = [p EXCEPT ![t] = 0]
  /\ UNCHANGED <<blocks, buf, label, count, server, pb, packA, packB, quiet>>

-----------------------------------------------------------------------------
(* Configuration. *)

MayConfigure(t) ==
  /\ pc[t] = "idle"
  /\ Keeps("init_alone") => \A u \in Threads : ~Computing(u) /\ ~Configuring(u)

(* cblas_init: cblas_compute_gemm_block_sizes, then the pool. *)
InitBlocks(t, b) ==
  /\ MayConfigure(t)
  /\ Keeps("init_once") => ~inited
  /\ inited' = TRUE
  /\ blocks' = b
  /\ Goto(t, "ensure")
  /\ UNCHANGED <<buf, label, busy, count, alive, id, gemmVars, quiet>>

(* The slots cblas_ensure_gemm_buffers(n) adds above the high-water mark,   *)
(* without those whose allocation fails.                                    *)
EnsureGemmBuffers(n, failed) ==
  /\ failed \subseteq AllocFails
  /\ buf' = [i \in Ids |->
               IF i \in count..(n - 1) /\ i \notin failed THEN blocks ELSE buf[i]]
  /\ count' = IF n > count THEN n ELSE count

(* The pool, then cblas_init_server: one thread needs none.  That creating  *)
(* a worker may fail is in ThreadServer.                                    *)
InitBuffers(t) ==
  /\ pc[t] = "ensure"
  /\ \E n \in 1..MAX_THREADS, failed \in SUBSET PoolIds :
       /\ Keeps("init_server") => n > 1
       /\ EnsureGemmBuffers(n, failed)
       /\ alive' = (alive \/ n > 1)
  /\ Goto(t, "idle")
  /\ UNCHANGED <<blocks, label, busy, inited, id, gemmVars, quiet>>

(* cblas_set_num_threads raises the count of a live server. *)
SetNumThreads(t) ==
  /\ MayConfigure(t)
  /\ alive
  /\ \E n \in 1..MAX_THREADS, failed \in SUBSET PoolIds : EnsureGemmBuffers(n, failed)
  /\ UNCHANGED <<blocks, label, busy, server, pc, id, gemmVars, quiet>>

(* cblas_shutdown, once the workers are joined: cblas_cleanup_gemm_buffers. *)
BeginCleanup(t) ==
  /\ pc[t] = "idle"
  /\ alive
  /\ Keeps("shutdown_alone") => \A u \in Threads : ~Configuring(u) /\ ~UsesPool(u)
  /\ quiet' = [quiet EXCEPT ![t] = \A u \in Threads : ~Computing(u)]
  /\ alive' = FALSE
  /\ inited' = FALSE
  /\ Goto(t, "clean")
  /\ UseSlot(t, BASE)
  /\ UNCHANGED <<blocks, buf, label, busy, count, gemmVars>>

(* cblas_shutdown without a server returns at once: nothing is cleaned up. *)
ShutdownDead(t) ==
  /\ pc[t] = "idle"
  /\ ~alive
  /\ Keeps("shutdown_alone") => \A u \in Threads : ~Configuring(u)
  /\ inited' = FALSE
  /\ UNCHANGED <<blocks, buf, label, busy, count, alive, pc, id, gemmVars, quiet>>

NextToClean(t) ==
  IF id[t] < LastId
  THEN UseSlot(t, id[t] + 1) /\ Goto(t, "clean")
  ELSE UseSlot(t, None) /\ Goto(t, "pool")

\* Mutant: the slots are freed without being claimed.
CleanUnclaimed(t) ==
  /\ pc[t] = "clean"
  /\ busy' = [busy EXCEPT ![id[t]] = TRUE]
  /\ Goto(t, "free")
  /\ UNCHANGED <<blocks, buf, label, count, server, id, gemmVars, quiet>>

(* Claim the next caller slot, or pass over one that a call holds. *)
CleanTry(t) ==
  /\ pc[t] = "clean"
  /\ \/ /\ ~busy[id[t]]
        /\ busy' = [busy EXCEPT ![id[t]] = TRUE]
        /\ Goto(t, "free")
        /\ UNCHANGED id
     \/ /\ busy[id[t]]
        /\ NextToClean(t)
        /\ UNCHANGED busy
  /\ UNCHANGED <<blocks, buf, label, count, server, gemmVars, quiet>>

CleanFree(t) ==
  /\ pc[t] = "free"
  /\ buf' = [buf EXCEPT ![id[t]] = Nothing]
  /\ busy' = [busy EXCEPT ![id[t]] = FALSE]
  /\ NextToClean(t)
  /\ UNCHANGED <<blocks, label, count, server, gemmVars, quiet>>

\* Mutant: the count is reset before the loop that uses it.
CleanPoolResetFirst(t) ==
  /\ pc[t] = "pool"
  /\ count' = 0
  /\ buf' = [i \in Ids |-> IF i < count' THEN Nothing ELSE buf[i]]
  /\ Goto(t, "idle")
  /\ UNCHANGED <<blocks, label, busy, server, id, gemmVars, quiet>>

(* The pool slots last; the server is down, no worker runs. *)
CleanPool(t) ==
  /\ pc[t] = "pool"
  /\ buf' = [i \in Ids |-> IF i < count THEN Nothing ELSE buf[i]]
  /\ count' = 0
  /\ Goto(t, "idle")
  /\ UNCHANGED <<blocks, label, busy, server, id, gemmVars, quiet>>

GemmStep(t) ==
  \/ \E s \in Shapes : BeginGemm(t, s)
  \/ \E s \in Shapes, i \in PoolIds : BeginTask(t, s, i)
  \/ TryClaim(t) \/ CheckSize(t) \/ AllocSlot(t) \/ LabelSlot(t) \/ Unclaim(t)
  \/ GetBuffer(t) \/ TestPanel(t) \/ KernelReturn(t) \/ EndGemm(t)

ConfigStep(t) ==
  \/ \E b \in Blocks : InitBlocks(t, b)
  \/ InitBuffers(t) \/ SetNumThreads(t)
  \/ BeginCleanup(t) \/ ShutdownDead(t) \/ CleanTry(t) \/ CleanFree(t) \/ CleanPool(t)

Next == \E t \in Threads : GemmStep(t) \/ ConfigStep(t)

Spec == Init /\ [][Next]_vars

-----------------------------------------------------------------------------
(* Properties. *)

TypeOK ==
  /\ blocks \in Blocks
  /\ buf \in [Ids -> Sizes]
  /\ label \in [CallerIds -> Sizes]
  /\ busy \in [CallerIds -> BOOLEAN]
  /\ count \in 0..MAX_THREADS
  /\ alive \in BOOLEAN
  /\ inited \in BOOLEAN
  /\ pc \in [Threads -> Pcs]
  /\ id \in [Threads -> Ids \cup {None}]
  /\ shape \in [Threads -> [n : Nat, k : Nat]]
  /\ p \in [Threads -> Nat]
  /\ pb \in [Threads -> Nat]
  /\ packA \in [Threads -> Ids \cup {None}]
  /\ packB \in [Threads -> Ids \cup {None}]
  /\ quiet \in [Threads -> BOOLEAN]

(* t has claimed caller slot i and not given it back. *)
Holds(t, i) ==
  /\ id[t] = i
  /\ pc[t] \in {"check", "alloc", "label", "unclaim", "gemm", "free"} \cup KernelPcs

(* Concurrent calls never share packing buffers (cblas.h:1313-1315), nor    *)
(* does a shutdown free a slot a call holds (util.c:152): a claim lasts     *)
(* over many kernel calls, and the flag is all that protects it.            *)
SlotsHeldOnce ==
  \A i \in CallerIds : \A t, u \in Threads : Holds(t, i) /\ Holds(u, i) => t = u

(* A slot is marked busy exactly while somebody holds it: no path out of a  *)
(* claim - no slot free, allocation failed, GEMM done - leaks a slot, which *)
(* would be lost until the program ends (util.c:185-226, :154-164).         *)
BusyIffHeld ==
  \A i \in CallerIds : busy[i] <=> \E t \in Threads : Holds(t, i)

(* While a kernel runs, the slot it was given stays allocated, and its      *)
(* panels of A and B fit the sizes the slot really has - not the sizes the  *)
(* globals have now, which is all the kernel compares with                  *)
(* (dgemm_k_avx.c:209-222 and its siblings).                                *)
PanelsFit ==
  \A t \in Threads :
    /\ pc[t] \in KernelPcs /\ packA[t] # None
         => /\ buf[packA[t]] # Nothing
            /\ MR * pb[t] <= buf[packA[t]].mc * buf[packA[t]].kc
    /\ pc[t] = "pack" /\ packB[t] # None
         => pb[t] * shape[t].n <= buf[packB[t]].kc * buf[packB[t]].nb

(* A shutdown during which no GEMM ran leaves nothing allocated: "Frees all *)
(* allocated packing buffers" (cblas.h:1351), the caller slots included.    *)
CleanupFreesAll ==
  [][\A t \in Threads : CleanPool(t) /\ quiet[t] => buf' = [i \in Ids |-> Nothing]]_vars

=============================================================================
