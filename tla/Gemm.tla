-------------------------------- MODULE Gemm --------------------------------
(****************************************************************************)
(* Calls of cblas_sgemm and cblas_dgemm.  The driver makes every call       *)
(* row-major, scales C, and cuts the product into kernel calls: a loop over *)
(* blocks on the calling thread, bands of rows, tiles, or, with the         *)
(* cooperative kernels, batches that pack a shared panel of B and batches   *)
(* that use it.  The tasks of a batch run in any order.                     *)
(*                                                                          *)
(* What reaches C is a set of terms <<c, a, b>>: the element of A at        *)
(* address a times that of B at b was added to C at c.  The kernels read    *)
(* the addresses through the panels they have packed.                       *)
(****************************************************************************)
EXTENDS GemmKernels, FiniteSets

CONSTANTS
  Routines,      \* those that are called
  Cpus, Systems,
  Shapes,        \* <<m, n, k>> as the caller gives them
  ScarceShapes,  \* those for every alpha and beta, and failing allocations
  Pads,          \* leading dimensions beyond their minimum
  Threads,
  cblas_gemm_mc, cblas_gemm_kc, cblas_gemm_nb,
  CBLAS_MT_GEMM, \* m * n * k above which threads are used
  TILED_MIN,     \* m and n from which natural tiles are cut further
  MIN_TILE       \* and how small they may become

ASSUME GemmAssumption ==
  /\ Routines \subseteq {"sgemm", "dgemm"}
  /\ Shapes \cup ScarceShapes \subseteq (Nat \ {0}) \X (Nat \ {0}) \X (Nat \ {0})
  /\ Pads \subseteq Nat /\ Threads \subseteq Nat \ {0}
  /\ cblas_gemm_mc \in Nat \ {0} /\ cblas_gemm_kc \in Nat \ {0}
  /\ cblas_gemm_nb \in Nat \ {0}
  /\ CBLAS_MT_GEMM \in Nat /\ TILED_MIN \in Nat /\ MIN_TILE \in Nat \ {0}

VARIABLES
  pc,      \* "idle", "scale", "plan", "pack", "packing", "tiles", "adding", "done"
  call,    \* the caller's arguments and what the driver made of them
  plan,    \* "single", "bands", "tiles" or "shared"
  depth,   \* the depth block of the batch
  tasks,   \* the kernel calls and loops that are still to be done
  panel,   \* sharedBp: the address in B of what each index holds
  sum, count,  \* the terms added to C, and how many additions
  scaled,  \* addresses of C that were multiplied by beta or cleared
  short    \* an allocation failed

vars == <<pc, call, plan, depth, tasks, panel, sum, count, scaled, short>>

Min2(x, y) == IF x < y THEN x ELSE y
Max2(x, y) == IF x > y THEN x ELSE y
CeilDiv(x, y) == (x + y - 1) \div y
RoundUp(x, y) == CeilDiv(x, y) * y

Hosts == {Host(cpu, os) : cpu \in Cpus, os \in Systems}

NoCall  == [routine |-> "none"]
Unset   == -1
NoPanel == <<>>

-----------------------------------------------------------------------------
(* The driver. *)

(* A column-major product is the row-major one of the transposes: A and B,  *)
(* m and n, their leading dimensions and transpositions change places.      *)
RowMajor(c) ==
  IF c.layout = "row"
  THEN [m_use |-> c.m, n_use |-> c.n, lda_use |-> c.lda, ldb_use |-> c.ldb,
        ta |-> c.transa, tb |-> c.transb]
  ELSE [m_use |-> c.n, n_use |-> c.m, lda_use |-> c.ldb, ldb_use |-> c.lda,
        ta |-> c.transb, tb |-> c.transa]

GemmCall(f, c, t) ==
  LET u == RowMajor(c)
  IN  [routine |-> c.routine, layout |-> c.layout, transa |-> c.transa, transb |-> c.transb,
       m |-> c.m, n |-> c.n, k |-> c.k, lda |-> c.lda, ldb |-> c.ldb, ldc |-> c.ldc,
       alpha |-> c.alpha, beta |-> c.beta, scarce |-> c.scarce,
       m_use |-> u.m_use, n_use |-> u.n_use, lda_use |-> u.lda_use, ldb_use |-> u.ldb_use,
       ta |-> u.ta, tb |-> u.tb,
       kernel |-> GemmKernelsOf(f)[c.routine], shares |-> "neon" \in f, threads |-> t]

m == call.m_use
n == call.n_use
k == call.k
Shared == Neon3Shared[call.routine]

a_row_stride == IF call.ta = "no" THEN call.lda_use ELSE 1
a_col_stride == IF call.ta = "no" THEN 1 ELSE call.lda_use
b_row_stride == IF call.tb = "no" THEN call.ldb_use ELSE 1
b_col_stride == IF call.tb = "no" THEN 1 ELSE call.ldb_use

UsesThreads == m * n * k > CBLAS_MT_GEMM /\ call.threads > 1

(* Rows of a band: whole strips of 6 or 4 rows. *)
Band ==
  LET rows == CeilDiv(m, call.threads)
  IN  IF call.routine = "sgemm" THEN RoundUp(rows, 6) ELSE RoundUp(rows, 4)

(* Columns of a packing task: whole panels of 12; cblas_dgemm packs itself. *)
Chunk == IF call.routine = "sgemm" THEN RoundUp(CeilDiv(n, call.threads), 12) ELSE n

(* cblas_dgemm without the cooperative kernels: tiles of mc x nb, smaller   *)
(* when they are fewer than the threads and C is large.                     *)
Target == Max2(2, CHOOSE x \in 0..call.threads :
                    /\ (2 * x - 1) * (2 * x - 1) <= 4 * call.threads
                    /\ (2 * x + 1) * (2 * x + 1) > 4 * call.threads)

Retiled ==
  /\ CeilDiv(m, cblas_gemm_mc) * CeilDiv(n, cblas_gemm_nb) < call.threads
  /\ m * n > 4 * CBLAS_MT_GEMM /\ m >= TILED_MIN /\ n >= TILED_MIN

mc_use == IF Retiled THEN Max2(CeilDiv(m, Target), MIN_TILE) ELSE cblas_gemm_mc
nb_use == IF Retiled THEN Max2(CeilDiv(n, Target), MIN_TILE) ELSE cblas_gemm_nb

(* Starts of the pieces of a length. *)
Starts(length, step) == {i * step : i \in 0..(CeilDiv(length, step) - 1)}

pb(p) == Min2(k - p, cblas_gemm_kc)

-----------------------------------------------------------------------------
(* Tasks.  A kernel call has its operands' first addresses, its rows and    *)
(* columns and its depth; a loop over kernel calls has `loop', the side     *)
(* that it cuts, and how far it has come.                                   *)
Task(kind, loop, a, b, c, rows, cols, dep) ==
  [kind |-> kind, loop |-> loop, a |-> a, b |-> b, c |-> c, rows |-> rows,
   cols |-> cols, dep |-> dep, p |-> 0, pos |-> 0, to |-> 0]

(* The loop of the calling thread, over depth blocks and rows. *)
SingleTask == Task("kernel", "rows", 0, 0, 0, m, n, k)

(* sgemm_mt_band, over depth blocks and columns. *)
BandTasks ==
  {Task("kernel", "cols", r * a_row_stride, 0, r * call.ldc, Min2(m - r, Band), n, k) :
     r \in Starts(m, Band)}

TileTasks(p) ==
  {Task("kernel", "none", r * a_row_stride + p * a_col_stride,
        p * b_row_stride + j * b_col_stride, r * call.ldc + j,
        Min2(m - r, mc_use), Min2(n - j, nb_use), pb(p)) :
     r \in Starts(m, mc_use), j \in Starts(n, nb_use)}

PackTasks(p) ==
  {[Task("pack", "none", 0, p * b_row_stride + j * b_col_stride, 0, 0,
         Min2(n - j, Chunk), pb(p)) EXCEPT !.to = j * pb(p)] :
     j \in Starts(n, Chunk)}

\* Mutant: every band as high as the rows that are left.
MacroTasksToEnd(p) ==
  {Task("macro", "none", r * a_row_stride + p * a_col_stride, p * b_row_stride,
        r * call.ldc, m - r, n, pb(p)) :
     r \in Starts(m, Band)}

MacroTasks(p) ==
  {Task("macro", "none", r * a_row_stride + p * a_col_stride, p * b_row_stride,
        r * call.ldc, Min2(m - r, Band), n, pb(p)) :
     r \in Starts(m, Band)}

(* The kernel call a task makes next, and the task after it. *)
KernelArgs(t) ==
  LET db == Min2(t.dep - t.p, cblas_gemm_kc)
      a  == t.a + t.p * a_col_stride
      b  == t.b + t.p * b_row_stride
  IN  CASE t.loop = "none" -> t
        [] t.loop = "rows" ->
             [t EXCEPT !.a = a + t.pos * a_row_stride, !.b = b,
                       !.c = t.c + t.pos * call.ldc,
                       !.rows = Min2(t.rows - t.pos, cblas_gemm_mc), !.dep = db]
        [] t.loop = "cols" ->
             [t EXCEPT !.a = a, !.b = b + t.pos * b_col_stride, !.c = t.c + t.pos,
                       !.cols = Min2(t.cols - t.pos, cblas_gemm_nb), !.dep = db]

After(t) ==
  LET step   == IF t.loop = "rows" THEN cblas_gemm_mc ELSE cblas_gemm_nb
      length == IF t.loop = "rows" THEN t.rows ELSE t.cols
  IN  IF t.loop = "none" THEN {}
      ELSE IF t.pos + step < length THEN {[t EXCEPT !.pos = @ + step]}
      ELSE IF t.p + cblas_gemm_kc < t.dep
      THEN {[t EXCEPT !.pos = 0, !.p = @ + cblas_gemm_kc]}
      ELSE {}

-----------------------------------------------------------------------------
(* A kernel on its block. *)

(* The steps of a depth loop: unrolled, then the rest. *)
\* Mutant: no second loop.
DepthUnrolled(micro, d) == 0..((d \div micro.unroll) * micro.unroll - 1)

Depth(micro, d) ==
  LET main == (d \div micro.unroll) * micro.unroll
  IN  0..(main - 1) \cup main..(d - 1)

(* Panels of B of `width' columns, as many as are whole, one behind the     *)
(* other.                                                                   *)
PackB(packers, g) ==
  LET form == IF call.tb = "no" THEN packers.packB ELSE packers.packBT
      w    == form.width
  IN  IF w = 0 THEN <<>>
      ELSE [x \in 0..((g.cols \div w) * w * g.dep - 1) |->
              LET first == x \div (w * g.dep)
              IN  g.b + first * w * b_col_stride
                    + PackedFrom(form, call.ldb_use, x % (w * g.dep))]

PackA(s, g, row) ==
  LET form == IF call.ta = "no" THEN s.pack ELSE s.packT
  IN  [x \in 0..(form.width * g.dep - 1) |->
         g.a + row * a_row_stride + PackedFrom(form, call.lda_use, x)]

(* The rows that a strip takes of those that are left. *)
Taken(s, left) ==
  LET fit == left \div s.micro.rows
  IN  (IF s.many = "all" THEN fit ELSE Min2(fit, 1)) * s.micro.rows

(* The rows that the first i strips take. *)
RowsOf(strips, rows) ==
  LET of[i \in 0..Len(strips)] ==
        IF i = 0 THEN 0 ELSE of[i - 1] + Taken(strips[i], rows - of[i - 1])
  IN  of

(* One strip at a row: the micro-kernel on every panel, then the columns    *)
(* left over, from the packed strip or from A as it lies.                   *)
StripTerms(s, g, row, bp) ==
  LET w     == s.micro.cols
      whole == IF w = 0 THEN 0 ELSE (g.cols \div w) * w
      ap    == PackA(s, g, row)
      At(r, j) == g.c + (row + r) * call.ldc + j
      Raw(r, p) == g.a + (row + r) * a_row_stride + p * a_col_stride
      Left(r, p) == IF s.left.rows > 1 THEN ap[p * s.left.rows + r] ELSE Raw(r, p)
      InPanel(r, j, p) == bp[(j \div w) * w * g.dep + p * w + (j % w)]
  IN  {<<At(r, j), ap[p * s.micro.rows + r], InPanel(r, j, p)>> :
         r \in 0..(s.micro.rows - 1), j \in 0..(whole - 1), p \in Depth(s.micro, g.dep)}
      \cup
      {<<At(r, j), Left(r, p), g.b + p * b_row_stride + j * b_col_stride>> :
         r \in 0..(s.micro.rows - 1), j \in whole..(g.cols - 1), p \in Depth(s.left, g.dep)}

KernelTerms(kernel, g, bp) ==
  LET of == RowsOf(kernel.strips, g.rows)
      At(i) == {row \in of[i - 1]..(of[i] - 1) :
                  (row - of[i - 1]) % kernel.strips[i].micro.rows = 0}
  IN  UNION {UNION {StripTerms(kernel.strips[i], g, row, bp) : row \in At(i)} :
               i \in DOMAIN kernel.strips}

KernelCount(kernel, g) ==
  g.cols * g.dep * RowsOf(kernel.strips, g.rows)[Len(kernel.strips)]

-----------------------------------------------------------------------------
Places == {i * call.ldc + j : i \in 0..(m - 1), j \in 0..(n - 1)}

Init ==
  /\ pc = "idle" /\ call = NoCall /\ plan = "single" /\ depth = 0
  /\ tasks = {} /\ panel = NoPanel
  /\ sum = {} /\ count = 0 /\ scaled = {} /\ short = FALSE

(* What the input checks let through. *)
Arguments(routine) ==
  LET Call(layout, transa, transb, shape, pad, alpha, beta, scarce) ==
        LET M == shape[1]
            N == shape[2]
            K == shape[3]
            LdOf(trans, rows, cols) ==
              (IF (trans = "no") = (layout = "row") THEN cols ELSE rows) + pad
        IN  [routine |-> routine, layout |-> layout, transa |-> transa,
             transb |-> transb, m |-> M, n |-> N, k |-> K,
             lda |-> LdOf(transa, M, K), ldb |-> LdOf(transb, K, N),
             ldc |-> (IF layout = "row" THEN N ELSE M) + pad,
             alpha |-> alpha, beta |-> beta, scarce |-> scarce]
  IN  {Call(l, ta, tb, s, p, "other", "other", FALSE) :
         l \in {"row", "col"}, ta \in {"no", "yes"}, tb \in {"no", "yes"},
         s \in Shapes, p \in Pads}
      \cup
      {Call(l, "no", "yes", s, p, al, be, FALSE) :
         l \in {"row", "col"}, s \in ScarceShapes, p \in Pads,
         al \in {"zero", "other"}, be \in {"zero", "one", "other"}}
      \cup
      {Call(l, "no", "yes", s, p, "other", "other", TRUE) :
         l \in {"row", "col"}, s \in ScarceShapes, p \in Pads}

(* Scaling C, the return for alpha = 0 and the choice of a plan come before *)
(* anything is shared.                                                      *)
cblas_gemm ==
  /\ pc = "idle"
  /\ \E r \in Routines : \E host \in Hosts, c \in Arguments(r), t \in Threads :
       call' = GemmCall(host.features, c, t)
  /\ pc' = "scale"
  /\ UNCHANGED <<plan, depth, tasks, panel, sum, count, scaled, short>>

ScaleC ==
  /\ pc = "scale"
  /\ scaled' = IF call.beta = "one" THEN {} ELSE Places
  /\ pc' = IF call.alpha = "zero" THEN "done" ELSE "plan"
  /\ plan' = IF ~UsesThreads THEN "single"
             ELSE IF call.shares THEN "shared"
             ELSE IF call.routine = "sgemm" THEN "bands" ELSE "tiles"
  /\ UNCHANGED <<call, depth, tasks, panel, sum, count, short>>

SingleThreaded ==
  /\ pc = "plan" /\ plan = "single"
  /\ tasks' = {SingleTask} /\ pc' = "adding"
  /\ UNCHANGED <<call, plan, depth, panel, sum, count, scaled, short>>

(* sharedBp, the queue and the arguments. *)
AllocateShared ==
  /\ pc = "plan" /\ plan = "shared"
  /\ panel' = [x \in 0..(cblas_gemm_kc * n - 1) |-> Unset]
  /\ pc' = "pack"
  /\ UNCHANGED <<call, plan, depth, tasks, sum, count, scaled, short>>

(* Without the shared buffer the bands or tiles do. *)
NoSharedBuffer ==
  /\ pc = "plan" /\ plan = "shared" /\ call.scarce
  /\ plan' = IF call.routine = "sgemm" THEN "bands" ELSE "tiles"
  /\ UNCHANGED <<pc, call, depth, tasks, panel, sum, count, scaled, short>>

(* Without a queue the call returns, C scaled and nothing added. *)
NoQueue ==
  /\ pc = "plan" /\ plan \in {"bands", "tiles"} /\ call.scarce
  /\ short' = TRUE /\ pc' = "done"
  /\ UNCHANGED <<call, plan, depth, tasks, panel, sum, count, scaled>>

Bands ==
  /\ pc = "plan" /\ plan = "bands"
  /\ tasks' = BandTasks /\ pc' = "adding"
  /\ UNCHANGED <<call, plan, depth, panel, sum, count, scaled, short>>

Tiles ==
  /\ plan = "tiles" /\ pc \in {"plan", "tiles"}
  /\ tasks' = TileTasks(depth) /\ pc' = "adding"
  /\ UNCHANGED <<call, plan, depth, panel, sum, count, scaled, short>>

PackBatch ==
  /\ pc = "pack"
  /\ tasks' = PackTasks(depth) /\ pc' = "packing"
  /\ UNCHANGED <<call, plan, depth, panel, sum, count, scaled, short>>

\* Mutant: the macro batch does not wait for the packing batch.
MacroBatchUnjoined ==
  /\ pc = "packing"
  /\ tasks' = tasks \cup MacroTasks(depth) /\ pc' = "adding"
  /\ UNCHANGED <<call, plan, depth, panel, sum, count, scaled, short>>

MacroBatch ==
  /\ pc = "packing" /\ tasks = {}
  /\ tasks' = MacroTasks(depth) /\ pc' = "adding"
  /\ UNCHANGED <<call, plan, depth, panel, sum, count, scaled, short>>

(* sgemm_pack_b, dgemm_pack_b *)
PackTask(t) ==
  LET block == PackB(Shared.pack, t)
  IN  /\ t.kind = "pack"
      /\ panel' = [x \in DOMAIN panel |->
                     IF x - t.to \in DOMAIN block THEN block[x - t.to] ELSE panel[x]]
      /\ tasks' = tasks \ {t}
      /\ UNCHANGED <<pc, call, plan, depth, sum, count, scaled, short>>

AddTerms(kernel, g, bp) ==
  /\ sum' = sum \cup KernelTerms(kernel, g, bp)
  /\ count' = count + KernelCount(kernel, g)

(* sgemm_k, dgemm_k with panels of its own; the macro kernels with the      *)
(* shared one.                                                              *)
KernelTask(t) ==
  LET g == KernelArgs(t)
  IN  /\ t.kind \in {"kernel", "macro"}
      /\ IF t.kind = "kernel" THEN AddTerms(call.kernel, g, PackB(call.kernel, g))
                              ELSE AddTerms(Shared.macro, g, panel)
      /\ tasks' = (tasks \ {t}) \cup After(t)
      /\ UNCHANGED <<pc, call, plan, depth, panel, scaled, short>>

\* Mutant: a smaller panel is tried, and the rest of the depth forgotten.
KernelMakesDo(t) ==
  LET g    == KernelArgs(t)
      half == [g EXCEPT !.dep = CeilDiv(@, 2)]
  IN  /\ t.kind \in {"kernel", "macro"}
      /\ call.scarce /\ call.kernel.strips[1].micro.cols > 0
      /\ AddTerms(call.kernel, half, PackB(call.kernel, half))
      /\ short' = TRUE
      /\ tasks' = (tasks \ {t}) \cup After(t)
      /\ UNCHANGED <<pc, call, plan, depth, panel, scaled>>

(* A kernel that packs and gets no buffer returns. *)
KernelGivesUp(t) ==
  /\ t.kind \in {"kernel", "macro"}
  /\ call.scarce /\ call.kernel.strips[1].micro.cols > 0
  /\ short' = TRUE
  /\ tasks' = (tasks \ {t}) \cup After(t)
  /\ UNCHANGED <<pc, call, plan, depth, panel, sum, count, scaled>>

(* The batch is over: the next depth block. *)
NextDepth ==
  /\ pc = "adding" /\ tasks = {}
  /\ IF plan \in {"shared", "tiles"} /\ depth + cblas_gemm_kc < k
     THEN /\ depth' = depth + cblas_gemm_kc
          /\ pc' = IF plan = "shared" THEN "pack" ELSE "tiles"
     ELSE pc' = "done" /\ UNCHANGED depth
  /\ UNCHANGED <<call, plan, tasks, panel, sum, count, scaled, short>>

Return ==
  /\ pc = "done"
  /\ pc' = "idle" /\ call' = NoCall /\ plan' = "single" /\ depth' = 0
  /\ tasks' = {} /\ panel' = NoPanel
  /\ sum' = {} /\ count' = 0 /\ scaled' = {} /\ short' = FALSE

Next ==
  \/ cblas_gemm \/ ScaleC
  \/ SingleThreaded \/ Bands \/ Tiles \/ NoQueue
  \/ AllocateShared \/ NoSharedBuffer \/ PackBatch \/ MacroBatch
  \/ \E t \in tasks : PackTask(t) \/ KernelTask(t) \/ KernelGivesUp(t)
  \/ NextDepth \/ Return

Spec == Init /\ [][Next]_vars

-----------------------------------------------------------------------------
(* Properties. *)

(* The terms of the product and the elements of C, straight from the        *)
(* definition of the caller's operands.                                     *)
Element(rowMajor, ld, i, j) == IF rowMajor THEN i * ld + j ELSE j * ld + i

A_at(i, p) == Element((call.transa = "no") = (call.layout = "row"), call.lda, i, p)
B_at(p, j) == Element((call.transb = "no") = (call.layout = "row"), call.ldb, p, j)
C_at(i, j) == Element(call.layout = "row", call.ldc, i, j)

(* The driver's first operand is the caller's second for a column-major C.  *)
Term(i, j, p) ==
  IF call.layout = "row" THEN <<C_at(i, j), A_at(i, p), B_at(p, j)>>
                         ELSE <<C_at(i, j), B_at(p, j), A_at(i, p)>>

Wanted ==
  {Term(i, j, p) : i \in 0..(call.m - 1), j \in 0..(call.n - 1), p \in 0..(call.k - 1)}

Elements == {C_at(i, j) : i \in 0..(call.m - 1), j \in 0..(call.n - 1)}

(* C = alpha op(A) op(B) + beta C: for every layout, transposition, leading *)
(* dimension, kernel and way of cutting the work, each term of the product  *)
(* is added to the right element once, and each element scaled.             *)
ProductExact ==
  pc = "done" =>
    /\ call.beta # "one" => scaled = Elements
    /\ call.alpha # "zero" /\ ~short =>
         sum = Wanted /\ count = call.m * call.n * call.k

(* At no moment is a term in C that does not belong there or there twice:   *)
(* a macro kernel never reads a part of the shared panel that is not packed *)
(* yet, or still that of the block before (gemm.c:399).                     *)
NoStalePanel ==
  pc \in {"adding", "done"} => sum \subseteq Wanted /\ count = Cardinality(sum)

(* Allocation failures lose whole depth blocks of an element, never a part  *)
(* of one (gemm.c:488, kernels/dgemm_k_avx.c:221).                          *)
BlocksWhole ==
  pc = "done" /\ short =>
    \A i \in 0..(call.m - 1), j \in 0..(call.n - 1) :
      \A b \in Starts(call.k, cblas_gemm_kc) :
        LET block == {Term(i, j, p) : p \in b..(b + pb(b) - 1)}
        IN  block \subseteq sum \/ block \cap sum = {}

(* What a task writes: indices of the shared panel or elements of C. *)
Written(t) ==
  IF t.kind = "pack" THEN {t.to + x : x \in DOMAIN PackB(Shared.pack, t)}
  ELSE {t.c + r * call.ldc + j : r \in 0..(t.rows - 1), j \in 0..(t.cols - 1)}

(* Tasks of a batch write different places, within the shared panel or C.   *)
TasksDisjoint ==
  /\ \A t, u \in tasks : t # u => Written(t) \cap Written(u) = {}
  /\ \A t \in tasks :
       Written(t) \subseteq (IF t.kind = "pack" THEN DOMAIN panel ELSE Places)
=============================================================================
