------------------------------ MODULE GemmProofs ------------------------------
(****************************************************************************)
(* GEMM for every size, leading dimension, block size, transposition,       *)
(* layout, split among threads, processor and order of the tasks: every     *)
(* term of the product is added to the right element of C exactly once, no  *)
(* kernel reads a panel before it is packed or after it is stale, and a     *)
(* failed allocation loses whole depth blocks.                              *)
(*                                                                          *)
(* First the kernels as data (KernelOK): their strips take every row once   *)
(* and the packed panels hold what the micro-kernels read.  Then the        *)
(* invariant of a call: the tasks of a batch have disjoint rectangles of C, *)
(* and every term is in C or still to be added by one task or by a batch to *)
(* come.                                                                    *)
(****************************************************************************)
EXTENDS Gemm, FunctionTheorems, FiniteSetTheorems, WellFoundedInduction, TLAPS

-----------------------------------------------------------------------------
(* What a kernel must be like, as data. *)

(* The two ways to fill panels of B of w columns, for B as it lies and      *)
(* transposed.                                                              *)
PackersOK(packers, w) ==
  /\ packers.packB = Copy(w) /\ packers.packBT = Gather(w)

(* A strip whose panels are w columns wide. *)
StripOK(s, w) ==
  /\ s.many \in {"all", "one"}
  /\ s.micro.rows \in Nat \ {0} /\ s.micro.unroll \in Nat \ {0}
  /\ s.micro.cols \in {0, w} /\ s.left.unroll \in Nat \ {0}
  /\ \/ s.left.rows = 1
     \/ s.left.rows = s.micro.rows /\ s.micro.cols # 0
  /\ s.micro.cols # 0 => s.pack = Gather(s.micro.rows) /\ s.packT = Copy(s.micro.rows)

(* At most one strip is tried only where two would not fit, and single rows *)
(* come last.                                                               *)
KernelOK(kernel, w) ==
  LET ss == kernel.strips
  IN  /\ w \in Nat /\ Len(ss) \in 1..4 /\ DOMAIN ss = 1..Len(ss)
      /\ \A i \in 1..Len(ss) : StripOK(ss[i], w)
      /\ ss[1].many = "all" /\ ss[Len(ss)].micro.rows = 1
      /\ \A i \in 2..Len(ss) :
           ss[i].many = "all" \/ ss[i - 1].micro.rows <= 2 * ss[i].micro.rows

(* A kernel that packs its own panels, and those that share them. *)
OwnOK(kernel) ==
  /\ KernelOK(kernel, kernel.packB.width)
  /\ kernel.packB.width # 0 => PackersOK(kernel, kernel.packB.width)

WidthOf(routine) == IF routine = "sgemm" THEN 12 ELSE 8

-----------------------------------------------------------------------------
(* The invariant. *)

(* A call as the driver sees it. *)
CallOK(c) ==
  /\ c.routine \in {"sgemm", "dgemm"} /\ c.layout \in {"row", "col"}
  /\ c.m \in Nat \ {0} /\ c.n \in Nat \ {0} /\ c.k \in Nat \ {0}
  /\ c.lda \in Nat /\ c.ldb \in Nat /\ c.ldc \in Nat
  /\ c.m_use \in Nat \ {0} /\ c.n_use \in Nat \ {0}
  /\ c.lda_use \in Nat /\ c.ldb_use \in Nat /\ c.threads \in Nat \ {0}
  /\ c.n_use <= c.ldc
  /\ c.lda_use >= IF c.ta = "no" THEN c.k ELSE c.m_use
  /\ c.ldb_use >= IF c.tb = "no" THEN c.n_use ELSE c.k
  /\ OwnOK(c.kernel)
  /\ c.ta \in {"no", "yes"} /\ c.tb \in {"no", "yes"}
  /\ IF c.layout = "row"
     THEN /\ c.m_use = c.m /\ c.n_use = c.n /\ c.lda_use = c.lda /\ c.ldb_use = c.ldb
          /\ c.ta = c.transa /\ c.tb = c.transb
     ELSE /\ c.m_use = c.n /\ c.n_use = c.m /\ c.lda_use = c.ldb /\ c.ldb_use = c.lda
          /\ c.ta = c.transb /\ c.tb = c.transa

(* The term of row i and column j of the driver's C at depth p. *)
TermAt(i, j, p) ==
  <<i * call.ldc + j, i * a_row_stride + p * a_col_stride,
    p * b_row_stride + j * b_col_stride>>

Added(i, j, p) == TermAt(i, j, p) \in sum

(* The depth that batches have been started for. *)
Begun ==
  CASE pc = "adding" -> IF plan \in {"tiles", "shared"} THEN depth + pb(depth) ELSE k
    [] pc = "done" -> k
    [] OTHER -> depth

StageOK ==
  /\ pc \in {"idle", "scale", "plan", "pack", "packing", "tiles", "adding", "done"}
  /\ plan \in {"single", "bands", "tiles", "shared"}
  /\ pc \in {"idle", "scale", "plan"} =>
       depth = 0 /\ sum = {} /\ count = 0 /\ short = FALSE
  /\ pc \in {"idle", "scale", "plan", "pack", "tiles", "done"} => tasks = {}
  /\ pc \in {"idle", "scale"} => plan = "single" /\ scaled = {}
  /\ pc # "idle" => depth \in Starts(k, cblas_gemm_kc)
  /\ plan \in {"single", "bands"} => depth = 0
  /\ pc \in {"pack", "packing"} => plan = "shared"
  /\ pc = "tiles" => plan = "tiles"
  /\ pc \in {"pack", "packing", "adding"} /\ plan = "shared" =>
       DOMAIN panel = 0..(cblas_gemm_kc * n - 1)
  /\ pc \notin {"idle", "scale"} => scaled = IF call.beta = "one" THEN {} ELSE Places
  /\ pc # "idle" /\ call.alpha = "zero" => pc \notin {"plan", "pack", "packing", "tiles", "adding"}
       /\ sum = {}

(* Where the elements of C of a task begin. *)
RowOf(t) == t.c \div call.ldc
ColOf(t) == t.c % call.ldc

(* Where the columns of B of a packing task begin. *)
PackedCol(t) == t.to \div pb(depth)

PackOK(t) ==
  LET j == PackedCol(t)
      w == WidthOf(call.routine)
  IN  /\ t.kind = "pack" /\ t.to = j * pb(depth) /\ j \in Nat
      /\ t.dep = pb(depth) /\ t.cols \in 1..(n - j)
      /\ t.b = depth * b_row_stride + j * b_col_stride
      /\ j % w = 0 /\ (j + t.cols = n \/ t.cols % w = 0)

(* How far a task's loop has come. *)
LoopOK(t) ==
  CASE t.loop = "none" -> t.p = 0 /\ t.pos = 0 /\ t.dep = pb(depth)
    [] t.loop = "rows" -> t.dep = k /\ t.p \in Starts(k, cblas_gemm_kc)
                          /\ t.pos \in Starts(t.rows, cblas_gemm_mc)
    [] t.loop = "cols" -> t.dep = k /\ t.p \in Starts(k, cblas_gemm_kc)
                          /\ t.pos \in Starts(t.cols, cblas_gemm_nb)

KindOK(t) ==
  CASE plan = "single" -> t.kind = "kernel" /\ t.loop = "rows"
    [] plan = "bands"  -> t.kind = "kernel" /\ t.loop = "cols"
    [] plan = "tiles"  -> t.kind = "kernel" /\ t.loop = "none"
    [] plan = "shared" -> /\ t.kind = "macro" /\ t.loop = "none"
                          /\ ColOf(t) = 0 /\ t.cols = n

IsTask(t) ==
  DOMAIN t = {"kind", "loop", "a", "b", "c", "rows", "cols", "dep", "p", "pos", "to"}

AddOK(t) ==
  /\ IsTask(t) /\ t.c \in Nat /\ t.rows \in 1..(m - RowOf(t)) /\ t.cols \in 1..(n - ColOf(t))
  /\ t.a = RowOf(t) * a_row_stride + depth * a_col_stride
  /\ t.b = depth * b_row_stride + ColOf(t) * b_col_stride
  /\ KindOK(t) /\ LoopOK(t)

(* Two tasks of a batch write different places. *)
PackedApart(t, u) ==
  PackedCol(t) + t.cols <= PackedCol(u) \/ PackedCol(u) + u.cols <= PackedCol(t)

AddedApart(t, u) ==
  \/ RowOf(t) + t.rows <= RowOf(u) \/ RowOf(u) + u.rows <= RowOf(t)
  \/ ColOf(t) + t.cols <= ColOf(u) \/ ColOf(u) + u.cols <= ColOf(t)

PackTasksOK ==
  (\A t \in tasks : PackOK(t)) /\ (\A t, u \in tasks : t # u => PackedApart(t, u))

AddTasksOK ==
  (\A t \in tasks : AddOK(t)) /\ (\A t, u \in tasks : t # u => AddedApart(t, u))

(* What a task has still to add. *)
Todo(t, i, j, p) ==
  LET r    == RowOf(t)
      c    == ColOf(t)
      next == depth + t.p + Min2(t.dep - t.p, cblas_gemm_kc)
  IN  /\ r <= i /\ i < r + t.rows /\ c <= j /\ j < c + t.cols
      /\ depth + t.p <= p /\ p < depth + t.dep
      /\ \/ next <= p
         \/ (t.loop = "rows" => r + t.pos <= i) /\ (t.loop = "cols" => c + t.pos <= j)

(* What has been added belongs to the product and is counted once.          *)
SumCounted == sum \subseteq Wanted /\ IsFiniteSet(sum) /\ count = Cardinality(sum)

(* Nothing is there of a depth that no batch has been started for, or of    *)
(* what a task has still to add.                                            *)
LaterClean ==
  \A i \in 0..(m - 1), j \in 0..(n - 1), p \in 0..(k - 1) : Begun <= p => ~Added(i, j, p)

TodoClean ==
  pc = "adding" =>
    \A t \in tasks : \A i \in 0..(m - 1), j \in 0..(n - 1), p \in 0..(k - 1) :
      Todo(t, i, j, p) => ~Added(i, j, p)

(* Nothing is lost but by a failed allocation, and then in whole blocks.    *)
Accounted(i, j, p) ==
  Added(i, j, p) \/ (pc = "adding" /\ \E t \in tasks : Todo(t, i, j, p))

NothingLost ==
  ~short /\ call.alpha # "zero" =>
    \A i \in 0..(m - 1), j \in 0..(n - 1), p \in 0..(k - 1) : p < Begun => Accounted(i, j, p)

WholeSoFar ==
  \A i \in 0..(m - 1), j \in 0..(n - 1), b \in Starts(k, cblas_gemm_kc) :
    \A p, q \in b..(b + pb(b) - 1) : Added(i, j, p) => Added(i, j, q)

SumOK == SumCounted /\ LaterClean /\ TodoClean /\ NothingLost /\ WholeSoFar

(* Index of the shared panel for column j at depth q of the block. *)
PanelAt(j, q) ==
  LET w == WidthOf(call.routine)
  IN  (j \div w) * w * pb(depth) + q * w + (j % w)

PanelOK ==
  LET w == WidthOf(call.routine)
  IN  pc \in {"packing", "adding"} /\ plan = "shared" =>
        \A j \in 0..((n \div w) * w - 1), q \in 0..(pb(depth) - 1) :
          \/ panel[PanelAt(j, q)] = (depth + q) * b_row_stride + j * b_col_stride
          \/ /\ pc = "packing"
             /\ \E t \in tasks : PackedCol(t) <= j /\ j < PackedCol(t) + t.cols

CallInv  == pc # "idle" => CallOK(call)
StageInv == StageOK
TasksInv == (pc = "packing" => PackTasksOK) /\ (pc = "adding" => AddTasksOK)
SumInv   == pc # "idle" => SumOK
PanelInv == pc # "idle" => PanelOK

IInv == CallInv /\ StageInv /\ TasksInv /\ SumInv /\ PanelInv

-----------------------------------------------------------------------------
(* Arithmetic of blocks. *)

LEMMA DivMod ==
  ASSUME NEW a \in Nat, NEW b \in Nat \ {0}
  PROVE  /\ a \div b \in Nat /\ a % b \in Nat
         /\ a = b * (a \div b) + (a % b) /\ a % b < b
BY SMT

LEMMA MulMonotone ==
  ASSUME NEW a \in Nat, NEW b \in Nat, NEW s \in Nat, a <= b
  PROVE  a * s <= b * s
BY SMT

(* Multiples of s of different numbers differ by s at least. *)
LEMMA MulApart ==
  ASSUME NEW a \in Nat, NEW b \in Nat, NEW s \in Nat, a < b
  PROVE  a * s + s <= b * s
<1>1. (a + 1) * s <= b * s
  BY MulMonotone
<1>2. (a + 1) * s = a * s + s
  BY SMT
<1>3. a * s \in Nat /\ b * s \in Nat
  BY SMT
<1>. QED
  BY <1>1, <1>2, <1>3

(* A number has one quotient and one remainder. *)
LEMMA OneQuotient ==
  ASSUME NEW q \in Nat, NEW r \in Nat, NEW u \in Nat, NEW v \in Nat, NEW s \in Nat \ {0},
         r < s, v < s, q * s + r = u * s + v
  PROVE  q = u /\ r = v
<1>0. q * s \in Nat /\ u * s \in Nat
  BY SMT
<1>1. ~(q < u)
  BY <1>0, MulApart
<1>2. ~(u < q)
  BY <1>0, MulApart
<1>3. q = u
  BY <1>1, <1>2
<1>. QED
  BY <1>0, <1>3

LEMMA Quotient ==
  ASSUME NEW q \in Nat, NEW r \in Nat, NEW s \in Nat \ {0}, r < s
  PROVE  (q * s + r) \div s = q /\ (q * s + r) % s = r
<1> DEFINE x == q * s + r
<1>1. x \in Nat
  <2>1. q * s \in Nat
    BY SMT
  <2>. QED
    BY <2>1
<1>2. /\ x \div s \in Nat /\ x % s \in Nat /\ x % s < s
      /\ x = s * (x \div s) + (x % s)
  BY <1>1, DivMod
<1> DEFINE u == x \div s
           v == x % s
<1> HIDE DEF u, v
<1>3. u \in Nat /\ v \in Nat /\ v < s /\ x = s * u + v
  BY <1>2 DEF u, v
<1>4. s * u = u * s
  BY <1>3, SMT
<1>5. q * s + r = u * s + v
  BY <1>3, <1>4
<1>6. q = u /\ r = v
  BY <1>3, <1>5, OneQuotient
<1>. QED
  BY <1>6 DEF u, v

LEMMA CeilDivBounds ==
  ASSUME NEW a \in Nat, NEW b \in Nat \ {0}
  PROVE  /\ CeilDiv(a, b) \in Nat
         /\ CeilDiv(a, b) * b >= a
         /\ CeilDiv(a, b) * b < a + b
<1> DEFINE q == (a + b - 1) \div b
           r == (a + b - 1) % b
<1>1. a + b - 1 \in Nat
  BY SMT
<1>2. q \in Nat /\ r \in Nat /\ a + b - 1 = b * q + r /\ r < b
  BY <1>1, DivMod
<1> HIDE DEF q, r
<1>3. q * b = b * q
  BY <1>2, SMT
<1>4. q * b >= a /\ q * b < a + b
  BY <1>2, <1>3, SMT
<1> QED
  BY <1>2, <1>4 DEF CeilDiv, q

(* Rounding something up gives a positive multiple. *)
LEMMA RoundedUp ==
  ASSUME NEW a \in Nat \ {0}, NEW b \in Nat \ {0}
  PROVE  /\ CeilDiv(a, b) \in Nat \ {0}
         /\ RoundUp(a, b) \in Nat \ {0} /\ \E q \in Nat : RoundUp(a, b) = q * b
<1> DEFINE c == CeilDiv(a, b)
<1>1. c \in Nat /\ c * b >= a
  BY CeilDivBounds
<1> HIDE DEF c
<1>2. c # 0
  BY <1>1
<1>3. c * b \in Nat
  BY <1>1, SMT
<1>. QED
  BY <1>1, <1>2, <1>3 DEF c, RoundUp

(* The starts of the pieces of a length are the multiples of the step below *)
(* it.                                                                      *)
LEMMA StartsMember ==
  ASSUME NEW L \in Nat, NEW s \in Nat \ {0}, NEW x
  PROVE  x \in Starts(L, s) <=> \E q \in Nat : x = q * s /\ x < L
<1> DEFINE c == CeilDiv(L, s)
<1>1. c \in Nat /\ c * s >= L /\ c * s < L + s
  BY CeilDivBounds
<1>2. Starts(L, s) = {i * s : i \in 0..(c - 1)}
  BY DEF Starts
<1> HIDE DEF c
<1>3. ASSUME x \in Starts(L, s) PROVE \E q \in Nat : x = q * s /\ x < L
  <2>1. PICK q \in 0..(c - 1) : x = q * s
    BY <1>2, <1>3
  <2>2. q \in Nat /\ q < c
    BY <1>1
  <2>3. q * s + s <= c * s
    BY <1>1, <2>2, MulApart
  <2>4. q * s \in Nat /\ c * s \in Nat
    BY <1>1, <2>2, SMT
  <2>. QED
    BY <1>1, <2>1, <2>2, <2>3, <2>4
<1>4. ASSUME NEW q \in Nat, x = q * s, x < L PROVE x \in Starts(L, s)
  <2>1. q < c
    <3> SUFFICES ASSUME c <= q PROVE FALSE
      BY <1>1
    <3>1. c * s <= q * s
      BY <1>1, MulMonotone
    <3>2. c * s \in Nat /\ q * s \in Nat
      BY <1>1, SMT
    <3>. QED
      BY <1>1, <1>4, <3>1, <3>2
  <2>2. q \in 0..(c - 1)
    BY <1>1, <2>1
  <2>. QED
    BY <1>2, <1>4, <2>2
<1>. QED
  BY <1>3, <1>4

(* They are apart by the step, go on from one to the next, and every place  *)
(* is in the piece of one.                                                  *)
LEMMA StartsFacts ==
  ASSUME NEW L \in Nat, NEW s \in Nat \ {0}
  PROVE  /\ \A x \in Starts(L, s) : x \in Nat /\ x < L /\ (x + s < L => x + s \in Starts(L, s))
         /\ \A x, y \in Starts(L, s) : x < y => x + s <= y
         /\ L > 0 => 0 \in Starts(L, s)
         /\ \A i \in 0..(L - 1) : \E x \in Starts(L, s) : x <= i /\ i < x + s
<1>1. ASSUME NEW x \in Starts(L, s)
      PROVE  x \in Nat /\ x < L /\ (x + s < L => x + s \in Starts(L, s))
  <2>1. PICK q \in Nat : x = q * s /\ x < L
    BY StartsMember
  <2>2. q * s \in Nat /\ (q + 1) * s = q * s + s
    BY SMT
  <2>3. q + 1 \in Nat /\ x + s = (q + 1) * s
    BY <2>1, <2>2
  <2>4. x + s < L => x + s \in Starts(L, s)
    BY <2>3, StartsMember
  <2>. QED
    BY <2>1, <2>2, <2>4
<1>2. ASSUME NEW x \in Starts(L, s), NEW y \in Starts(L, s), x < y PROVE x + s <= y
  <2>1. PICK q \in Nat : x = q * s /\ x < L
    BY StartsMember
  <2>2. PICK u \in Nat : y = u * s /\ y < L
    BY StartsMember
  <2>3. q * s \in Nat /\ u * s \in Nat
    BY SMT
  <2>4. q < u
    <3> SUFFICES ASSUME u <= q PROVE FALSE
      OBVIOUS
    <3>1. u * s <= q * s
      BY MulMonotone
    <3>. QED
      BY <1>2, <2>1, <2>2, <2>3, <3>1
  <2>. QED
    BY <2>1, <2>2, <2>4, MulApart
<1>3. L > 0 => 0 \in Starts(L, s)
  <2>1. 0 = 0 * s
    OBVIOUS
  <2>. QED
    BY <2>1, StartsMember
<1>4. ASSUME NEW i \in 0..(L - 1) PROVE \E x \in Starts(L, s) : x <= i /\ i < x + s
  <2> DEFINE q == i \div s
             r == i % s
  <2>1. q \in Nat /\ r \in Nat /\ i = s * q + r /\ r < s
    BY DivMod
  <2> HIDE DEF q, r
  <2>2. q * s = s * q /\ q * s \in Nat
    BY <2>1, SMT
  <2>3. q * s <= i /\ i < q * s + s /\ q * s < L
    BY <2>1, <2>2
  <2>4. q * s \in Starts(L, s)
    BY <2>1, <2>3, StartsMember
  <2>. QED
    BY <2>3, <2>4
<1>. QED
  BY <1>1, <1>2, <1>3, <1>4

-----------------------------------------------------------------------------
(* The kernels are of this kind. *)

(* A strip with a micro-kernel, and one of rows computed element by element.*)
LEMMA MicroStrip ==
  ASSUME NEW many \in {"all", "one"}, NEW w \in Nat \ {0}, NEW r \in Nat \ {0},
         NEW u \in Nat \ {0}, NEW left \in {Micro(1, 1, 1), Micro(r, 1, 1)}
  PROVE  LET s == Strip(many, Micro(r, w, u), Gather(r), Copy(r), left)
         IN  StripOK(s, w) /\ s.many = many /\ s.micro.rows = r
<1>1. left.unroll = 1 /\ left.rows \in {1, r}
  BY DEF Micro
<1>. QED
  BY <1>1 DEF StripOK, Strip, Micro

LEMMA ScalarRows ==
  ASSUME NEW w
  PROVE  LET s == Rows(Micro(1, 1, 1))
         IN  StripOK(s, w) /\ s.many = "all" /\ s.micro.rows = 1
BY DEF StripOK, Rows, Strip, Micro

LEMMA StripLists ==
  ASSUME NEW w \in Nat, NEW routine, NEW packB, NEW packBT,
         NEW s, NEW t, NEW u, NEW v,
         StripOK(s, w), StripOK(t, w), StripOK(u, w), StripOK(v, w), s.many = "all"
  PROVE  /\ s.micro.rows = 1 => KernelOK(Kernel(routine, packB, packBT, <<s>>), w)
         /\ t.many = "all" /\ t.micro.rows = 1 =>
              KernelOK(Kernel(routine, packB, packBT, <<s, t>>), w)
         /\ s.micro.rows <= 2 * t.micro.rows /\ u.many = "all" /\ u.micro.rows = 1 =>
              KernelOK(Kernel(routine, packB, packBT, <<s, t, u>>), w)
         /\ s.micro.rows <= 2 * t.micro.rows /\ t.micro.rows <= 2 * u.micro.rows
              /\ u.micro.rows <= 2 * v.micro.rows /\ v.micro.rows = 1 =>
              KernelOK(Kernel(routine, packB, packBT, <<s, t, u, v>>), w)
<1>1. s.micro.rows = 1 => KernelOK(Kernel(routine, packB, packBT, <<s>>), w)
  BY DEF KernelOK, Kernel
<1>2. t.many = "all" /\ t.micro.rows = 1 =>
        KernelOK(Kernel(routine, packB, packBT, <<s, t>>), w)
  BY DEF KernelOK, Kernel
<1>3. s.micro.rows <= 2 * t.micro.rows /\ u.many = "all" /\ u.micro.rows = 1 =>
        KernelOK(Kernel(routine, packB, packBT, <<s, t, u>>), w)
  BY DEF KernelOK, Kernel
<1>4. s.micro.rows <= 2 * t.micro.rows /\ t.micro.rows <= 2 * u.micro.rows
        /\ u.micro.rows <= 2 * v.micro.rows /\ v.micro.rows = 1 =>
        KernelOK(Kernel(routine, packB, packBT, <<s, t, u, v>>), w)
  BY DEF KernelOK, Kernel
<1>. QED
  BY <1>1, <1>2, <1>3, <1>4

(* What a kernel that packs needs besides its strips. *)
LEMMA PacksItself ==
  ASSUME NEW w \in Nat \ {0}, NEW routine, NEW ss,
         KernelOK(Kernel(routine, Copy(w), Gather(w), ss), w)
  PROVE  OwnOK(Kernel(routine, Copy(w), Gather(w), ss))
BY DEF OwnOK, PackersOK, Kernel, Copy

LEMMA Sizes ==
  /\ 1 \in Nat \ {0} /\ 2 \in Nat \ {0} /\ 4 \in Nat \ {0} /\ 6 \in Nat \ {0}
  /\ 8 \in Nat \ {0} /\ 12 \in Nat \ {0} /\ 16 \in Nat \ {0} /\ 0 \in Nat
OBVIOUS

(* One micro-kernel and scalar rows, as most kernels are. *)
LEMMA TwoStrips ==
  ASSUME NEW routine, NEW w \in Nat \ {0}, NEW r \in Nat \ {0}, NEW u \in Nat \ {0},
         NEW left \in {Micro(1, 1, 1), Micro(r, 1, 1)}
  PROVE  LET kernel == Kernel(routine, Copy(w), Gather(w),
                         <<Strip("all", Micro(r, w, u), Gather(r), Copy(r), left),
                           Rows(Micro(1, 1, 1))>>)
         IN  OwnOK(kernel) /\ KernelOK(kernel, w)
<1> DEFINE s == Strip("all", Micro(r, w, u), Gather(r), Copy(r), left)
           t == Rows(Micro(1, 1, 1))
<1>1. StripOK(s, w) /\ s.many = "all"
  BY MicroStrip
<1>2. StripOK(t, w) /\ t.many = "all" /\ t.micro.rows = 1
  BY ScalarRows
<1> HIDE DEF s, t
<1>3. KernelOK(Kernel(routine, Copy(w), Gather(w), <<s, t>>), w)
  BY <1>1, <1>2, StripLists
<1>4. OwnOK(Kernel(routine, Copy(w), Gather(w), <<s, t>>))
  BY <1>3, PacksItself
<1>. QED
  BY <1>3, <1>4 DEF s, t

LEMMA PlainKernels ==
  /\ OwnOK(sgemm_k_base) /\ OwnOK(dgemm_k_base)
  /\ OwnOK(sgemm_k_sse) /\ OwnOK(dgemm_k_sse)
  /\ OwnOK(sgemm_k_avx) /\ OwnOK(dgemm_k_avx)
  /\ OwnOK(dgemm_k_fma)
  /\ OwnOK(dgemm_k_neon) /\ KernelOK(dgemm_k_neon, 8)
<1>1. OwnOK(sgemm_k_base)
  BY Sizes, TwoStrips, Zenon
     DEF sgemm_k_base, PackMatrixB_base, PackMatrixB_trans_base, AddDot4x4_base,
         PackMatrixA_base, PackMatrixA_trans_base, AddDot
<1>2. OwnOK(sgemm_k_sse)
  BY Sizes, TwoStrips, Zenon
     DEF sgemm_k_sse, PackMatrixB_sse, PackMatrixB_trans_sse, AddDot4x4_sse,
         PackMatrixA_sse, PackMatrixA_trans_sse, AddDot
<1>3. OwnOK(dgemm_k_sse)
  BY Sizes, TwoStrips, Zenon
     DEF dgemm_k_sse, PackMatrixB_2_d, PackMatrixB_2_d_trans, AddDot2x2_dgemm_sse,
         PackMatrixA_2_d, PackMatrixA_2_d_trans, AddDot_d
<1>4. OwnOK(sgemm_k_avx)
  BY Sizes, TwoStrips, Zenon
     DEF sgemm_k_avx, PackMatrixB_8, PackMatrixB_8_trans, AddDot4x8_avx,
         PackMatrixA_4_avx, PackMatrixA_4_trans_avx, AddDot
<1>5. OwnOK(dgemm_k_avx)
  BY Sizes, TwoStrips, Zenon
     DEF dgemm_k_avx, PackMatrixB_4_d, PackMatrixB_4_d_trans, AddDot4x4_dgemm_avx,
         PackMatrixA_4_d_avx, PackMatrixA_4_d_trans_avx, AddDot_d
<1>6. OwnOK(dgemm_k_fma)
  BY Sizes, TwoStrips, Zenon
     DEF dgemm_k_fma, PackMatrixB_8_d_fma, PackMatrixB_8_d_trans_fma, AddDot6x8_dgemm_fma,
         PackMatrixA_6_d, PackMatrixA_6_d_trans, AddDot_d
<1>7. OwnOK(dgemm_k_neon) /\ KernelOK(dgemm_k_neon, 8)
  BY Sizes, TwoStrips, Zenon
     DEF dgemm_k_neon, PackMatrixB_8_d_neon, PackMatrixB_8_d_trans_neon, AddDot4x8_dgemm_neon,
         PackMatrixA_4_d_neon, PackMatrixA_4_d_trans_neon, AddDot_d, AddDot4x1col_d_neon
<1>8. OwnOK(dgemm_k_base)
  <2>1. StripOK(Rows(AddDot_d), 0) /\ Rows(AddDot_d).many = "all" /\ Rows(AddDot_d).micro.rows = 1
    BY ScalarRows DEF AddDot_d
  <2>2. KernelOK(dgemm_k_base, 0)
    BY <2>1, Sizes, StripLists, Zenon DEF dgemm_k_base
  <2>3. dgemm_k_base.packB.width = 0
    BY DEF dgemm_k_base, Kernel, NoPack, Copy
  <2>. QED
    BY <2>2, <2>3 DEF OwnOK
<1>. QED
  BY <1>1, <1>2, <1>3, <1>4, <1>5, <1>6, <1>7, <1>8

LEMMA StripedKernels ==
  OwnOK(sgemm_k_fma) /\ OwnOK(sgemm_k_neon) /\ KernelOK(sgemm_k_neon, 12)
<1>1. OwnOK(sgemm_k_fma)
  <2> DEFINE s == Strip("all", Micro(6, 16, 4), Gather(6), Copy(6), Micro(1, 1, 1))
             t == Strip("one", Micro(4, 16, 2), Gather(4), Copy(4), Micro(1, 1, 1))
             u == Strip("one", Micro(2, 16, 1), Gather(2), Copy(2), Micro(1, 1, 1))
             v == Strip("one", Micro(1, 16, 1), Gather(1), Copy(1), Micro(1, 1, 1))
  <2>1. StripOK(s, 16) /\ s.many = "all" /\ s.micro.rows = 6
    BY SMT DEF StripOK, Strip, Micro
  <2>2. StripOK(t, 16) /\ t.micro.rows = 4
    BY SMT DEF StripOK, Strip, Micro
  <2>3. StripOK(u, 16) /\ u.micro.rows = 2
    BY SMT DEF StripOK, Strip, Micro
  <2>4. StripOK(v, 16) /\ v.micro.rows = 1
    BY SMT DEF StripOK, Strip, Micro
  <2>5. sgemm_k_fma = Kernel("sgemm", Copy(16), Gather(16), <<s, t, u, v>>)
    BY DEF sgemm_k_fma, PackMatrixB_16, PackMatrixB_16_trans, AddDot6x16_fma, AddDot4x16_fma,
           AddDot2x16_fma, AddDot1x16_fma, PackMatrixA_6, PackMatrixA_6_trans,
           PackMatrixA_4_wide, PackMatrixA_4_wide_trans, PackMatrixA_2, PackMatrixA_2_trans,
           PackMatrixA_1, PackMatrixA_1_trans, AddDot
  <2> HIDE DEF s, t, u, v
  <2>6. /\ s.micro.rows <= 2 * t.micro.rows /\ t.micro.rows <= 2 * u.micro.rows
        /\ u.micro.rows <= 2 * v.micro.rows
    BY <2>1, <2>2, <2>3, <2>4
  <2>7. KernelOK(Kernel("sgemm", Copy(16), Gather(16), <<s, t, u, v>>), 16)
    BY <2>1, <2>2, <2>3, <2>4, <2>6, Sizes, StripLists, Zenon
  <2>. QED
    BY <2>5, <2>7, Sizes, PacksItself, Zenon
<1>2. OwnOK(sgemm_k_neon) /\ KernelOK(sgemm_k_neon, 12)
  <2> DEFINE s == Strip("all", Micro(8, 12, 4), Gather(8), Copy(8), Micro(8, 1, 1))
             t == Strip("one", Micro(4, 12, 2), Gather(4), Copy(4), Micro(4, 1, 1))
             u == Rows(Micro(1, 1, 1))
  <2>1. StripOK(s, 12) /\ s.many = "all" /\ s.micro.rows = 8
    BY SMT DEF StripOK, Strip, Micro
  <2>2. StripOK(t, 12) /\ t.micro.rows = 4
    BY SMT DEF StripOK, Strip, Micro
  <2>3. StripOK(u, 12) /\ u.many = "all" /\ u.micro.rows = 1
    BY ScalarRows, Zenon
  <2>5. sgemm_k_neon = Kernel("sgemm", Copy(12), Gather(12), <<s, t, u>>)
    BY DEF sgemm_k_neon, PackMatrixB_12, PackMatrixB_12_trans, AddDot8x12_neon, AddDot4x12_neon,
           PackMatrixA_8, PackMatrixA_8_trans, PackMatrixA_4_neon, PackMatrixA_4_trans_neon,
           AddDot, AddDot8x1col_neon, AddDot4x1col_neon
  <2> HIDE DEF s, t, u
  <2>6. s.micro.rows <= 2 * t.micro.rows
    BY <2>1, <2>2
  <2>7. KernelOK(Kernel("sgemm", Copy(12), Gather(12), <<s, t, u>>), 12)
    BY <2>1, <2>2, <2>3, <2>6, Sizes, StripLists, Zenon
  <2>. QED
    BY <2>5, <2>7, Sizes, PacksItself, Zenon
<1>. QED
  BY <1>1, <1>2

(* Whatever the feature word, the kernel of the table packs its own panels. *)
LEMMA TableOfKernels ==
  ASSUME NEW f, NEW routine \in {"sgemm", "dgemm"}
  PROVE  OwnOK(GemmKernelsOf(f)[routine])
BY PlainKernels, StripedKernels DEF GemmKernelsOf, Base3, Sse3, Avx3, Fma3, Neon3

(* The cooperative kernels read panels as their packing functions fill them.*)
LEMMA SharedKernels ==
  ASSUME NEW routine \in {"sgemm", "dgemm"}
  PROVE  /\ KernelOK(Neon3Shared[routine].macro, WidthOf(routine))
         /\ PackersOK(Neon3Shared[routine].pack, WidthOf(routine))
         /\ WidthOf(routine) \in Nat \ {0}
<1>1. KernelOK(sgemm_macro_k_neon, 12)
  <2>1. sgemm_macro_k_neon.strips = sgemm_k_neon.strips
    BY DEF sgemm_macro_k_neon, sgemm_k_neon, Kernel
  <2>. QED
    BY <2>1, StripedKernels DEF KernelOK
<1>2. KernelOK(dgemm_macro_k_neon, 8)
  <2>1. dgemm_macro_k_neon.strips = dgemm_k_neon.strips
    BY DEF dgemm_macro_k_neon, dgemm_k_neon, Kernel
  <2>. QED
    BY <2>1, PlainKernels DEF KernelOK
<1>3. PackersOK(sgemm_pack_b_neon, 12) /\ PackersOK(dgemm_pack_b_neon, 8)
  BY DEF PackersOK, sgemm_pack_b_neon, dgemm_pack_b_neon, PackMatrixB_12, PackMatrixB_12_trans,
         PackMatrixB_8_d_neon, PackMatrixB_8_d_trans_neon
<1>. QED
  BY <1>1, <1>2, <1>3 DEF WidthOf, Neon3Shared

-----------------------------------------------------------------------------
(* Strips take every row once. *)

(* The rows taken before each strip, as the recursion defines them: there   *)
(* are four strips at most, and the function is written out.                *)
LEMMA RowsUnfold ==
  ASSUME NEW strips, Len(strips) \in 1..4, NEW rows
  PROVE  LET of == RowsOf(strips, rows)
         IN  /\ of[0] = 0
             /\ \A i \in 1..Len(strips) :
                  of[i] = of[i - 1] + Taken(strips[i], rows - of[i - 1])
<1> DEFINE L == Len(strips)
           more(i, x) == x + Taken(strips[i], rows - x)
           a1 == more(1, 0)
           a2 == more(2, a1)
           a3 == more(3, a2)
           a4 == more(4, a3)
           g == [i \in 0..L |-> IF i = 0 THEN 0 ELSE IF i = 1 THEN a1 ELSE IF i = 2 THEN a2
                                ELSE IF i = 3 THEN a3 ELSE a4]
           Rec(f) == [i \in 0..L |-> IF i = 0 THEN 0 ELSE more(i, f[i - 1])]
<1> HIDE DEF L
<1>0. L \in 1..4
  BY DEF L
<1>1. g = Rec(g)
  <2> SUFFICES ASSUME NEW i \in 0..L PROVE g[i] = Rec(g)[i]
    OBVIOUS
  <2> DEFINE G(j) == g[j]
  <2>0. i \in 0..4 /\ (i >= 1 => 1 <= L) /\ (i >= 2 => 2 <= L) /\ (i >= 3 => 3 <= L)
    BY <1>0
  <2>1. g[0] = 0 /\ (1 <= L => g[1] = a1) /\ (2 <= L => g[2] = a2) /\ (3 <= L => g[3] = a3)
        /\ (4 <= L => g[4] = a4)
    BY <1>0
  <2>2. Rec(g)[i] = IF i = 0 THEN 0 ELSE more(i, g[i - 1])
    BY <1>0
  <2> HIDE DEF g, Rec, more, a1, a2, a3, a4
  <2>3. CASE i = 0
    BY <2>1, <2>2, <2>3
  <2>4. CASE i = 1
    BY <2>0, <2>1, <2>2, <2>4 DEF a1
  <2>5. CASE i = 2
    BY <2>0, <2>1, <2>2, <2>5 DEF a2
  <2>6. CASE i = 3
    BY <2>0, <2>1, <2>2, <2>6 DEF a3
  <2>7. CASE i = 4
    BY <1>0, <2>0, <2>1, <2>2, <2>7 DEF a4
  <2>. QED
    BY <2>0, <2>3, <2>4, <2>5, <2>6, <2>7
<1>2. RowsOf(strips, rows) = CHOOSE f : f = Rec(f)
  BY DEF RowsOf, L
<1> HIDE DEF g
<1>3. RowsOf(strips, rows) = Rec(RowsOf(strips, rows))
  <2> HIDE DEF Rec
  <2>. QED
    BY <1>1, <1>2
<1> DEFINE of == RowsOf(strips, rows)
<1> HIDE DEF of
<1>4. of = Rec(of)
  BY <1>3 DEF of
<1>5. of[0] = 0 /\ \A i \in 1..L : of[i] = of[i - 1] + Taken(strips[i], rows - of[i - 1])
  BY <1>0, <1>4
<1>. QED
  BY <1>5 DEF of, L

(* A strip takes whole groups of its rows, and where one group at most is   *)
(* tried and two do not fit, or all are tried, leaves less than a group.    *)
LEMMA TakenFacts ==
  ASSUME NEW s, NEW w, StripOK(s, w), NEW left \in Nat
  PROVE  /\ Taken(s, left) \in Nat /\ Taken(s, left) <= left
         /\ \E q \in Nat : Taken(s, left) = q * s.micro.rows
         /\ s.many = "all" \/ left < 2 * s.micro.rows => left - Taken(s, left) < s.micro.rows
<1> DEFINE r == s.micro.rows
           fit == left \div r
           rest == left % r
           one == Min2(fit, 1)
<1>1. r \in Nat \ {0} /\ s.many \in {"all", "one"}
  BY DEF StripOK
<1>2. fit \in Nat /\ rest \in Nat /\ left = r * fit + rest /\ rest < r
  BY <1>1, DivMod
<1>3. Taken(s, left) = (IF s.many = "all" THEN fit ELSE one) * r
  BY DEF Taken
<1>4. one \in Nat /\ one <= fit
  BY <1>2 DEF Min2
<1>5. fit # 0 => one = 1
  BY <1>2 DEF Min2
<1>6. fit = 0 => one = 0
  BY <1>2 DEF Min2
<1> HIDE DEF fit, rest, one, r
<1>7. r * fit = fit * r /\ fit * r \in Nat /\ one * r \in Nat /\ one * r <= fit * r
  BY <1>1, <1>2, <1>4, MulMonotone, SMT
<1>8. CASE s.many = "all"
  <2>1. Taken(s, left) = fit * r
    BY <1>3, <1>8
  <2>2. fit * r <= left /\ left - fit * r < r
    BY <1>1, <1>2, <1>7
  <2>. QED
    BY <1>2, <1>7, <2>1, <2>2 DEF r
<1>9. CASE s.many # "all"
  <2>1. Taken(s, left) = one * r
    BY <1>3, <1>9
  <2>2. one * r <= left
    BY <1>1, <1>2, <1>7
  <2>3. ASSUME left < 2 * r PROVE left - one * r < r
    <3>1. CASE fit = 0
      <4>1. fit * r = 0 /\ one * r = 0
        BY <1>1, <1>6, <3>1
      <4>. QED
        BY <1>2, <1>7, <4>1
    <3>2. CASE fit # 0
      <4>1. one * r = r
        BY <1>1, <1>5, <3>2
      <4>. QED
        BY <1>1, <2>3, <4>1
    <3>. QED
      BY <3>1, <3>2
  <2>. QED
    BY <1>4, <1>7, <1>9, <2>1, <2>2, <2>3 DEF r
<1>. QED
  BY <1>8, <1>9

(* The rows are used up when the last strip has taken its own.              *)
LEMMA RowsTaken ==
  ASSUME NEW kernel, NEW w, KernelOK(kernel, w), NEW rows \in Nat
  PROVE  LET of == RowsOf(kernel.strips, rows)
             L  == Len(kernel.strips)
         IN  /\ of[0] = 0 /\ of[L] = rows
             /\ \A i \in 1..L :
                  /\ of[i - 1] \in Nat /\ of[i] \in Nat /\ of[i - 1] <= of[i] /\ of[i] <= rows
                  /\ \E q \in Nat : of[i] = of[i - 1] + q * kernel.strips[i].micro.rows
<1> DEFINE ss == kernel.strips
           of == RowsOf(ss, rows)
           L  == Len(ss)
           R(i) == ss[i].micro.rows
           Good(i) == /\ of[i - 1] \in Nat /\ of[i] \in Nat /\ of[i - 1] <= of[i] /\ of[i] <= rows
                      /\ \E q \in Nat : of[i] = of[i - 1] + q * R(i)
                      /\ rows - of[i] < R(i)
<1>1. L \in 1..4 /\ \A i \in 1..L : StripOK(ss[i], w)
  BY DEF KernelOK
<1>2. ss[1].many = "all" /\ R(L) = 1
  BY DEF KernelOK
<1>3. \A i \in 2..L : ss[i].many = "all" \/ R(i - 1) <= 2 * R(i)
  BY DEF KernelOK
<1>4. of[0] = 0 /\ \A i \in 1..L : of[i] = of[i - 1] + Taken(ss[i], rows - of[i - 1])
  BY <1>1, RowsUnfold
<1>5. \A i \in 1..L : R(i) \in Nat \ {0}
  BY <1>1 DEF StripOK
<1> HIDE DEF ss, of, L
<1>6. ASSUME NEW i \in 1..L, of[i - 1] \in Nat, of[i - 1] <= rows,
             ss[i].many = "all" \/ rows - of[i - 1] < 2 * R(i)
      PROVE  Good(i)
  <2> DEFINE left == rows - of[i - 1]
             took == Taken(ss[i], left)
  <2>1. left \in Nat /\ StripOK(ss[i], w)
    BY <1>1, <1>6
  <2> HIDE DEF left
  <2>2. /\ took \in Nat /\ took <= left
        /\ \E q \in Nat : took = q * R(i)
        /\ ss[i].many = "all" \/ left < 2 * R(i) => left - took < R(i)
    BY <2>1, TakenFacts, Zenon
  <2>3. of[i] = of[i - 1] + took
    BY <1>4 DEF left
  <2> HIDE DEF took
  <2>4. left - took < R(i)
    BY <1>6, <2>2 DEF left
  <2>5. of[i] \in Nat /\ of[i - 1] <= of[i] /\ of[i] <= rows /\ rows - of[i] = left - took
    BY <1>6, <2>2, <2>3 DEF left
  <2>. QED
    BY <1>6, <2>2, <2>3, <2>4, <2>5
<1>7. Good(1)
  BY <1>1, <1>2, <1>4, <1>6
<1>8. ASSUME NEW i \in 2..L, Good(i - 1) PROVE Good(i)
  <2>1. i \in 1..L /\ i - 1 \in 1..L
    BY <1>1
  <2>2. of[i - 1] \in Nat /\ of[i - 1] <= rows /\ rows - of[i - 1] < R(i - 1)
    BY <1>8
  <2>3. R(i) \in Nat /\ R(i - 1) \in Nat
    BY <1>5, <2>1
  <2>4. ss[i].many = "all" \/ rows - of[i - 1] < 2 * R(i)
    <3> DEFINE x == R(i - 1)
               y == R(i)
               z == of[i - 1]
    <3>1. ss[i].many = "all" \/ x <= 2 * y
      BY <1>3
    <3>. HIDE DEF x, y, z
    <3>2. x <= 2 * y => rows - z < 2 * y
      BY <2>2, <2>3 DEF x, y, z
    <3>. QED
      BY <3>1, <3>2 DEF y, z
  <2>. QED
    BY <1>6, <2>1, <2>2, <2>4
<1> HIDE DEF Good
<1>9. \A i \in 1..L : Good(i)
  <2>2. 2 <= L => Good(2)
    BY <1>1, <1>7, <1>8
  <2>3. 3 <= L => Good(3)
    BY <1>1, <1>8, <2>2
  <2>4. 4 <= L => Good(4)
    BY <1>1, <1>8, <2>3
  <2>. QED
    BY <1>1, <1>7, <2>2, <2>3, <2>4
<1>10. of[L] = rows
  <2>1. Good(L)
    BY <1>1, <1>9
  <2>. QED
    BY <1>2, <2>1 DEF Good
<1>. QED
  BY <1>4, <1>9, <1>10 DEF Good, ss, of, L

(* The rows where the i-th strip begins: KernelTerms' At(i).                *)
StripRows(kernel, rows, i) ==
  LET of == RowsOf(kernel.strips, rows)
  IN  {row \in of[i - 1]..(of[i] - 1) : (row - of[i - 1]) % kernel.strips[i].micro.rows = 0}

(* Every row is a row of a strip, and the rows of a strip are rows.         *)
LEMMA StripRowsAll ==
  ASSUME NEW kernel, NEW w, KernelOK(kernel, w), NEW rows \in Nat
  PROVE  /\ \A i \in 1..Len(kernel.strips) : \A row \in StripRows(kernel, rows, i) :
              row \in Nat /\ row + kernel.strips[i].micro.rows <= rows
         /\ \A x \in 0..(rows - 1) :
              \E i \in 1..Len(kernel.strips) : \E row \in StripRows(kernel, rows, i) :
                row <= x /\ x < row + kernel.strips[i].micro.rows
<1> DEFINE ss == kernel.strips
           of == RowsOf(ss, rows)
           L  == Len(ss)
<1>1. /\ of[0] = 0 /\ of[L] = rows
      /\ \A i \in 1..L :
           /\ of[i - 1] \in Nat /\ of[i] \in Nat /\ of[i - 1] <= of[i] /\ of[i] <= rows
           /\ \E q \in Nat : of[i] = of[i - 1] + q * ss[i].micro.rows
  BY RowsTaken
<1>2. L \in 1..4 /\ \A i \in 1..L : ss[i].micro.rows \in Nat \ {0}
  BY DEF KernelOK, StripOK
<1>3. \A i : StripRows(kernel, rows, i) =
        {row \in of[i - 1]..(of[i] - 1) : (row - of[i - 1]) % ss[i].micro.rows = 0}
  BY DEF StripRows
<1> HIDE DEF of, L, ss
<1>4. ASSUME NEW i \in 1..L, NEW row \in StripRows(kernel, rows, i)
      PROVE  row \in Nat /\ row + ss[i].micro.rows <= rows
  <2> DEFINE r == ss[i].micro.rows
             base == of[i - 1]
             top == of[i]
             x == row - base
  <2>1. base \in Nat /\ top \in Nat /\ top <= rows /\ r \in Nat \ {0}
    BY <1>1, <1>2
  <2>2. PICK q \in Nat : top = base + q * r
    BY <1>1
  <2>3. row \in base..(top - 1) /\ x % r = 0
    BY <1>3, <1>4
  <2> HIDE DEF r, base, top
  <2>4. x \in Nat /\ x < top - base /\ row \in Nat
    BY <2>1, <2>3
  <2>5. x \div r \in Nat /\ x = r * (x \div r) + (x % r)
    BY <2>1, <2>4, DivMod
  <2> HIDE DEF x
  <2> DEFINE u == x \div r
  <2>6. u \in Nat /\ x = r * u
    <3>1. x = r * u + 0
      BY <2>3, <2>5
    <3>2. r * u \in Nat
      BY <2>1, <2>5, SMT
    <3>. QED
      BY <2>5, <3>1, <3>2
  <2> HIDE DEF u
  <2>7. x = u * r /\ q * r \in Nat
    BY <2>1, <2>2, <2>6, SMT
  <2>8. x < q * r
    BY <2>1, <2>2, <2>4, <2>7
  <2>9. u < q
    <3> SUFFICES ASSUME q <= u PROVE FALSE
      BY <2>2, <2>6
    <3>1. q * r <= u * r
      BY <2>1, <2>2, <2>6, MulMonotone
    <3>. QED
      BY <2>4, <2>7, <2>8, <3>1
  <2>10. x + r <= q * r
    BY <2>1, <2>2, <2>6, <2>7, <2>9, MulApart
  <2>. QED
    BY <2>1, <2>2, <2>4, <2>7, <2>10 DEF x, r
<1>5. ASSUME NEW x \in 0..(rows - 1)
      PROVE  \E i \in 1..L : \E row \in StripRows(kernel, rows, i) :
               row <= x /\ x < row + ss[i].micro.rows
  <2>1. \E i \in 1..L : of[i - 1] <= x /\ x < of[i]
    <3>1. of[0] <= x /\ x < of[L]
      BY <1>1
    <3>2. \A i \in 1..L : of[i] \in Nat
      BY <1>1
    <3>3. CASE L = 1
      BY <3>1, <3>3
    <3>4. CASE L = 2
      BY <3>1, <3>2, <3>4
    <3>5. CASE L = 3
      BY <3>1, <3>2, <3>5
    <3>6. CASE L = 4
      BY <3>1, <3>2, <3>6
    <3>. QED
      BY <1>2, <3>3, <3>4, <3>5, <3>6
  <2>2. PICK i \in 1..L : of[i - 1] <= x /\ x < of[i]
    BY <2>1
  <2> DEFINE r == ss[i].micro.rows
             base == of[i - 1]
             top == of[i]
             d == x - base
             rest == d % r
             row == x - rest
  <2>3. base \in Nat /\ top \in Nat /\ top <= rows /\ r \in Nat \ {0} /\ base <= x /\ x < top
    BY <1>1, <1>2, <2>2
  <2> HIDE DEF r, base, top
  <2>4. d \in Nat
    BY <2>3
  <2>5. d \div r \in Nat /\ rest \in Nat /\ d = r * (d \div r) + rest /\ rest < r
    BY <2>3, <2>4, DivMod
  <2> HIDE DEF d
  <2> DEFINE u == d \div r
  <2> HIDE DEF rest, u
  <2>6. u \in Nat /\ rest \in Nat /\ d = r * u + rest /\ rest < r
    BY <2>5 DEF u
  <2>7. r * u = u * r + 0 /\ r * u \in Nat
    BY <2>3, <2>6, SMT
  <2>8. row - base = u * r + 0
    BY <2>3, <2>6, <2>7 DEF d
  <2>9. (row - base) % r = 0
    <3>1. (u * r + 0) % r = 0
      BY <2>3, <2>6, Quotient
    <3>. QED
      BY <2>8, <3>1
  <2>10. row \in base..(top - 1) /\ row <= x /\ x < row + r
    BY <2>3, <2>6, <2>7 DEF d
  <2> HIDE DEF row
  <2>11. row \in StripRows(kernel, rows, i)
    BY <1>3, <2>9, <2>10 DEF base, top, r
  <2>. QED
    BY <2>10, <2>11 DEF r
<1>. QED
  BY <1>4, <1>5 DEF ss, L

-----------------------------------------------------------------------------
(* What a kernel adds. *)

LEMMA MulFacts ==
  ASSUME NEW a \in Nat, NEW b \in Nat, NEW s \in Nat
  PROVE  /\ a * s \in Nat /\ a * b \in Nat /\ a * s = s * a
         /\ (a + b) * s = a * s + b * s
         /\ a * b * s = a * (b * s) /\ (a * b) * s \in Nat /\ b * s \in Nat
BY SMT

(* Element r of step q in a packed panel of w. *)
LEMMA PackedElement ==
  ASSUME NEW w \in Nat \ {0}, NEW ld \in Nat, NEW q \in Nat, NEW r \in 0..(w - 1)
  PROVE  /\ PackedFrom(Copy(w), ld, q * w + r) = q * ld + r
         /\ PackedFrom(Gather(w), ld, q * w + r) = r * ld + q
<1>1. r \in Nat /\ r < w
  OBVIOUS
<1>2. (q * w + r) \div w = q /\ (q * w + r) % w = r
  BY <1>1, Quotient
<1> DEFINE x == q * w + r
<1> HIDE DEF x
<1>3. PackedFrom(Copy(w), ld, x) = (x \div w) * ld + (x % w)
  BY DEF PackedFrom, Copy
<1>4. PackedFrom(Gather(w), ld, x) = (x % w) * ld + (x \div w)
  BY DEF PackedFrom, Gather
<1>. QED
  BY <1>2, <1>3, <1>4 DEF x

LEMMA Strides ==
  ASSUME CallOK(call)
  PROVE  /\ a_row_stride \in Nat /\ a_col_stride \in Nat
         /\ b_row_stride \in Nat /\ b_col_stride \in Nat
         /\ call.ldc \in Nat \ {0} /\ m \in Nat \ {0} /\ n \in Nat \ {0} /\ k \in Nat \ {0}
         /\ n <= call.ldc
<1>1. call.lda_use \in Nat /\ call.ldb_use \in Nat
  BY DEF CallOK
<1>2. call.ldc \in Nat /\ call.n_use \in Nat \ {0} /\ call.n_use <= call.ldc
      /\ call.m_use \in Nat \ {0} /\ call.k \in Nat \ {0}
  BY DEF CallOK
<1>. QED
  BY <1>1, <1>2 DEF a_row_stride, a_col_stride, b_row_stride, b_col_stride, m, n, k

(* A block: where its operands begin, and its sizes. *)
BlockOK(g) ==
  /\ g.a \in Nat /\ g.b \in Nat /\ g.c \in Nat
  /\ g.rows \in Nat /\ g.cols \in Nat /\ g.dep \in Nat

(* Its term of row i, column j and depth q. *)
BlockTerm(g, i, j, q) ==
  <<g.c + i * call.ldc + j, g.a + i * a_row_stride + q * a_col_stride,
    g.b + q * b_row_stride + j * b_col_stride>>

(* Index of a packed panel of B for column j and depth q of the block. *)
PanelIndex(w, dep, j, q) == (j \div w) * w * dep + q * w + (j % w)

(* The whole panels of a block are in bp. *)
PanelHolds(bp, w, g) ==
  w # 0 => \A j \in 0..((g.cols \div w) * w - 1), q \in 0..(g.dep - 1) :
             bp[PanelIndex(w, g.dep, j, q)] = g.b + q * b_row_stride + j * b_col_stride

(* Where the element of a column and a depth is in the panels. *)
LEMMA PanelPlace ==
  ASSUME NEW w \in Nat \ {0}, NEW dep \in Nat, NEW cols \in Nat,
         NEW j \in 0..((cols \div w) * w - 1), NEW q \in 0..(dep - 1)
  PROVE  LET x == PanelIndex(w, dep, j, q)
         IN  /\ x \in 0..((cols \div w) * w * dep - 1)
             /\ x \div (w * dep) = j \div w
             /\ x % (w * dep) = q * w + (j % w)
             /\ j % w \in 0..(w - 1) /\ j \in Nat /\ j < cols
<1> DEFINE whole == cols \div w
           first == j \div w
           rest == j % w
           wd == w * dep
           y == q * w + rest
<1>1. whole \in Nat /\ cols = w * whole + (cols % w) /\ cols % w \in Nat
  BY DivMod
<1> HIDE DEF whole
<1>2. whole * w \in Nat /\ w * whole = whole * w /\ whole * w <= cols
  BY <1>1, MulFacts
<1>3. j \in Nat /\ j < whole * w /\ j < cols
  BY <1>2 DEF whole
<1>4. first \in Nat /\ rest \in Nat /\ j = w * first + rest /\ rest < w
  BY <1>3, DivMod
<1> HIDE DEF first, rest
<1>5. w * first = first * w /\ first * w \in Nat
  BY <1>4, MulFacts
<1>6. first < whole
  <2> SUFFICES ASSUME whole <= first PROVE FALSE
    BY <1>1, <1>4
  <2>1. whole * w <= first * w
    BY <1>1, <1>4, MulMonotone
  <2>. QED
    BY <1>2, <1>3, <1>4, <1>5, <2>1
<1>7. wd \in Nat \ {0} /\ w * dep = dep * w /\ dep * w \in Nat
  <2>1. dep \in Nat \ {0}
    OBVIOUS
  <2>. QED
    BY <2>1, SMT
<1>8. q * w + w <= dep * w /\ q * w \in Nat
  <2>1. q \in Nat /\ q < dep
    OBVIOUS
  <2>. QED
    BY <2>1, MulApart, MulFacts
<1>9. y \in Nat /\ y < wd
  BY <1>4, <1>7, <1>8
<1>10. PanelIndex(w, dep, j, q) = first * wd + y
  <2>1. first * w * dep = first * wd
    BY <1>4, MulFacts
  <2>2. PanelIndex(w, dep, j, q) = first * w * dep + q * w + rest
    BY DEF PanelIndex, first, rest
  <2>3. first * wd \in Nat
    BY <1>4, <1>7, MulFacts
  <2> HIDE DEF wd
  <2>. QED
    BY <1>4, <1>8, <2>1, <2>2, <2>3
<1>11. first * wd + wd <= whole * wd /\ first * wd \in Nat /\ whole * wd \in Nat
  <2> HIDE DEF wd
  <2>. QED
    BY <1>1, <1>4, <1>6, <1>7, MulApart, MulFacts
<1>12. whole * w * dep = whole * wd
  BY <1>1, MulFacts
<1> DEFINE x == first * wd + y
<1> HIDE DEF wd, y
<1>13. x \div wd = first /\ x % wd = y
  BY <1>4, <1>7, <1>9, Quotient
<1>14. x \in 0..(whole * wd - 1)
  <2> DEFINE u == first * wd
             v == whole * wd
  <2>1. u + wd <= v /\ u \in Nat /\ v \in Nat
    BY <1>11
  <2> HIDE DEF u, v
  <2>2. u + y \in 0..(v - 1)
    BY <1>7, <1>9, <2>1
  <2>. QED
    BY <2>2 DEF u, v
<1>15. rest \in 0..(w - 1)
  BY <1>4
<1> HIDE DEF x
<1>16. /\ x \in 0..(whole * w * dep - 1)
       /\ x \div wd = first /\ x % wd = q * w + rest
       /\ rest \in 0..(w - 1) /\ j \in Nat /\ j < cols
       /\ PanelIndex(w, dep, j, q) = x
  BY <1>3, <1>10, <1>12, <1>13, <1>14, <1>15 DEF y, x
<1>. QED
  BY <1>16 DEF wd, first, rest, whole

(* Panels that are packed hold what the block needs. *)
LEMMA PacksPanels ==
  ASSUME CallOK(call), NEW packers, NEW w \in Nat \ {0}, PackersOK(packers, w),
         NEW g, g.b \in Nat, g.cols \in Nat, g.dep \in Nat
  PROVE  /\ PanelHolds(PackB(packers, g), w, g)
         /\ DOMAIN PackB(packers, g) = 0..((g.cols \div w) * w * g.dep - 1)
<1> DEFINE form == IF call.tb = "no" THEN packers.packB ELSE packers.packBT
           bp == PackB(packers, g)
           ld == call.ldb_use
           wd == w * g.dep
<1>1. form.width = w
  BY DEF PackersOK, Copy, Gather
<1>2. bp = [x \in 0..((g.cols \div w) * w * g.dep - 1) |->
             g.b + (x \div wd) * w * b_col_stride + PackedFrom(form, ld, x % wd)]
  BY <1>1 DEF PackB
<1>3. ASSUME NEW q \in Nat, NEW r \in 0..(w - 1)
      PROVE  PackedFrom(form, ld, q * w + r) = q * b_row_stride + r * b_col_stride
  <2>1. ld \in Nat
    BY DEF CallOK
  <2>2. CASE call.tb = "no"
    <3>1. form = Copy(w) /\ b_row_stride = ld /\ b_col_stride = 1
      BY <2>2 DEF PackersOK, b_row_stride, b_col_stride
    <3> HIDE DEF ld, form
    <3>2. PackedFrom(Copy(w), ld, q * w + r) = q * ld + r
      BY <2>1, PackedElement
    <3>3. r * 1 = r
      OBVIOUS
    <3>. QED
      BY <3>1, <3>2, <3>3
  <2>3. CASE call.tb # "no"
    <3>1. form = Gather(w) /\ b_row_stride = 1 /\ b_col_stride = ld
      BY <2>3 DEF PackersOK, b_row_stride, b_col_stride
    <3> HIDE DEF ld, form
    <3>2. PackedFrom(Gather(w), ld, q * w + r) = r * ld + q
      BY <2>1, PackedElement
    <3>3. q * 1 = q /\ r * ld \in Nat
      BY <2>1, SMT
    <3>. QED
      BY <3>1, <3>2, <3>3
  <2>. QED
    BY <2>2, <2>3
<1>4. ASSUME NEW j \in 0..((g.cols \div w) * w - 1), NEW q \in 0..(g.dep - 1)
      PROVE  bp[PanelIndex(w, g.dep, j, q)] = g.b + q * b_row_stride + j * b_col_stride
  <2> DEFINE x == PanelIndex(w, g.dep, j, q)
             first == j \div w
             rest == j % w
  <2>0. g.dep \in Nat /\ g.cols \in Nat /\ g.b \in Nat
    OBVIOUS
  <2> HIDE DEF bp, form, ld
  <2>1. /\ x \in 0..((g.cols \div w) * w * g.dep - 1)
        /\ x \div wd = first /\ x % wd = q * w + rest
        /\ rest \in 0..(w - 1) /\ j \in Nat
    <3> DEFINE cc == g.cols
               d == g.dep
    <3>1. cc \in Nat /\ d \in Nat /\ j \in 0..((cc \div w) * w - 1) /\ q \in 0..(d - 1)
      BY <2>0
    <3> HIDE DEF cc, d
    <3>2. LET y == PanelIndex(w, d, j, q)
          IN  /\ y \in 0..((cc \div w) * w * d - 1)
              /\ y \div (w * d) = j \div w
              /\ y % (w * d) = q * w + (j % w)
              /\ j % w \in 0..(w - 1) /\ j \in Nat /\ j < cc
      BY <3>1, PanelPlace
    <3>. QED
      BY <3>2 DEF cc, d
  <2>2. first \in Nat /\ j = w * first + rest /\ rest \in Nat
    BY <2>1, DivMod
  <2> HIDE DEF x
  <2>3. bp[x] = g.b + (x \div wd) * w * b_col_stride + PackedFrom(form, ld, x % wd)
    BY <1>2, <2>1
  <2> HIDE DEF first, rest, wd, bp, form
  <2>4. PackedFrom(form, ld, q * w + rest) = q * b_row_stride + rest * b_col_stride
    BY <1>3, <2>1
  <2>5. bp[x] = g.b + first * w * b_col_stride + (q * b_row_stride + rest * b_col_stride)
    BY <2>1, <2>3, <2>4
  <2> DEFINE s == b_col_stride
             t == q * b_row_stride
  <2>6. s \in Nat /\ t \in Nat
    BY Strides, MulFacts
  <2>7. j * s = first * w * s + rest * s /\ first * w * s \in Nat /\ rest * s \in Nat
    <3>1. w * first = first * w /\ first * w \in Nat
      BY <2>2, MulFacts
    <3>2. j = first * w + rest
      BY <2>2, <3>1
    <3> DEFINE fw == first * w
    <3> HIDE DEF s, fw
    <3>3. (fw + rest) * s = fw * s + rest * s /\ fw * s \in Nat /\ rest * s \in Nat
      BY <2>2, <2>6, <3>1, MulFacts DEF fw
    <3>. QED
      BY <3>2, <3>3 DEF fw
  <2> HIDE DEF s, t
  <2>8. bp[x] = g.b + first * w * s + (t + rest * s)
    BY <2>5 DEF s, t
  <2>9. bp[x] = g.b + t + j * s
    <3> DEFINE u == first * w * s
               v == rest * s
               z == j * s
               gb == g.b
               bx == bp[x]
    <3> HIDE DEF u, v, z, gb, bx
    <3>1. u \in Nat /\ v \in Nat /\ z = u + v /\ bx = gb + u + (t + v) /\ gb \in Nat
      BY <2>0, <2>7, <2>8 DEF u, v, z, gb, bx
    <3>2. bx = gb + t + z
      BY <2>6, <3>1
    <3>. QED
      BY <3>2 DEF z, gb, bx
  <2>. QED
    BY <2>9 DEF s, t, x
<1> HIDE DEF bp
<1>5. DOMAIN bp = 0..((g.cols \div w) * w * g.dep - 1)
  BY <1>2
<1>. QED
  BY <1>4, <1>5 DEF PanelHolds, bp

(* A packed strip of A holds what the micro-kernel needs. *)
LEMMA PacksStrip ==
  ASSUME CallOK(call), NEW s, NEW w, StripOK(s, w), s.micro.cols # 0,
         NEW g, BlockOK(g), NEW row \in Nat,
         NEW r \in 0..(s.micro.rows - 1), NEW q \in 0..(g.dep - 1)
  PROVE  PackA(s, g, row)[q * s.micro.rows + r]
           = g.a + (row + r) * a_row_stride + q * a_col_stride
<1> DEFINE form == IF call.ta = "no" THEN s.pack ELSE s.packT
           ap == PackA(s, g, row)
           ld == call.lda_use
           h == s.micro.rows
           x == q * h + r
<1>0. h \in Nat \ {0} /\ s.pack = Gather(h) /\ s.packT = Copy(h)
  BY DEF StripOK
<1>1. form.width = h
  BY <1>0 DEF Copy, Gather
<1>2. ap = [y \in 0..(h * g.dep - 1) |-> g.a + row * a_row_stride + PackedFrom(form, ld, y)]
  BY <1>1 DEF PackA
<1>3. PackedFrom(form, ld, x) = r * a_row_stride + q * a_col_stride
  <2>1. ld \in Nat /\ q \in Nat
    BY DEF CallOK, BlockOK
  <2>2. CASE call.ta = "no"
    <3>1. form = Gather(h) /\ a_row_stride = ld /\ a_col_stride = 1
      BY <1>0, <2>2 DEF a_row_stride, a_col_stride
    <3> HIDE DEF ld, form, h
    <3>2. PackedFrom(Gather(h), ld, q * h + r) = r * ld + q
      BY <1>0, <2>1, PackedElement DEF h
    <3>3. q * 1 = q
      BY <2>1
    <3>. QED
      BY <3>1, <3>2, <3>3
  <2>3. CASE call.ta # "no"
    <3>1. form = Copy(h) /\ a_row_stride = 1 /\ a_col_stride = ld
      BY <1>0, <2>3 DEF a_row_stride, a_col_stride
    <3> HIDE DEF ld, form, h
    <3>2. PackedFrom(Copy(h), ld, q * h + r) = q * ld + r
      BY <1>0, <2>1, PackedElement DEF h
    <3>3. r * 1 = r /\ q * ld \in Nat /\ r \in Nat
      BY <1>0, <2>1, SMT DEF h
    <3>. QED
      BY <3>1, <3>2, <3>3
  <2>. QED
    BY <2>2, <2>3
<1> HIDE DEF ap, form
<1>4. x \in 0..(h * g.dep - 1)
  <2>0. g.dep \in Nat /\ q \in Nat /\ q < g.dep /\ r \in Nat /\ r < h
    BY <1>0 DEF BlockOK
  <2> DEFINE d == g.dep
  <2> HIDE DEF d, h
  <2>1. q * h + h <= d * h /\ q * h \in Nat /\ d * h \in Nat /\ d * h = h * d
    BY <1>0, <2>0, MulApart, MulFacts DEF d
  <2>. QED
    BY <2>0, <1>0, <2>1 DEF d
<1> HIDE DEF x
<1>5. ap[x] = g.a + row * a_row_stride + (r * a_row_stride + q * a_col_stride)
  BY <1>2, <1>3, <1>4
<1> DEFINE s1 == a_row_stride
           t == q * a_col_stride
<1>6. s1 \in Nat /\ t \in Nat /\ g.a \in Nat /\ r \in Nat
  BY <1>0, Strides, MulFacts DEF BlockOK
<1> HIDE DEF s1
<1>7. (row + r) * s1 = row * s1 + r * s1 /\ row * s1 \in Nat /\ r * s1 \in Nat
  BY <1>6, MulFacts
<1> HIDE DEF t
<1>8. ap[x] = g.a + row * s1 + (r * s1 + t)
  BY <1>5 DEF s1, t
<1>9. ap[x] = g.a + (row + r) * s1 + t
  <2> DEFINE u == row * s1
             v == r * s1
  <2> HIDE DEF u, v
  <2>1. u \in Nat /\ v \in Nat /\ (row + r) * s1 = u + v /\ ap[x] = g.a + u + (v + t)
    BY <1>7, <1>8 DEF u, v
  <2>. QED
    BY <1>6, <2>1
<1>. QED
  BY <1>9 DEF s1, t, x, ap

(* Both parts of an unrolled depth loop are the depth. *)
LEMMA DepthAll ==
  ASSUME NEW s, NEW d \in Nat, s.unroll \in Nat \ {0}
  PROVE  Depth(s, d) = 0..(d - 1)
<1> DEFINE u == s.unroll
           q == d \div u
<1>1. q \in Nat /\ d = u * q + (d % u) /\ d % u \in Nat
  BY DivMod
<1> HIDE DEF q, u
<1>2. q * u \in Nat /\ u * q = q * u /\ q * u <= d
  <2>1. u \in Nat
    BY DEF u
  <2>. QED
    BY <1>1, <2>1, MulFacts
<1> DEFINE e == q * u
<1> HIDE DEF e
<1>3. e \in Nat /\ e <= d
  BY <1>2 DEF e
<1>4. Depth(s, d) = 0..(e - 1) \cup e..(d - 1)
  BY DEF Depth, e, q, u
<1>. QED
  BY <1>3, <1>4

(* The columns that go to the micro-kernel. *)
WholeCols(s, g) == IF s.micro.cols = 0 THEN 0 ELSE (g.cols \div s.micro.cols) * s.micro.cols

(* What the code reads for an element of a strip: in a panel, or left over. *)
PanelTerm(s, g, row, bp, r, j, p) ==
  <<g.c + (row + r) * call.ldc + j, PackA(s, g, row)[p * s.micro.rows + r],
    bp[PanelIndex(s.micro.cols, g.dep, j, p)]>>

LeftTerm(s, g, row, r, j, p) ==
  <<g.c + (row + r) * call.ldc + j,
    IF s.left.rows > 1 THEN PackA(s, g, row)[p * s.left.rows + r]
    ELSE g.a + (row + r) * a_row_stride + p * a_col_stride,
    g.b + p * b_row_stride + j * b_col_stride>>

(* One or the other, with the depths of the two loops. *)
IsPart(x, s, g, row, bp, Dm, Dl) ==
  \/ \E r \in 0..(s.micro.rows - 1), j \in 0..(WholeCols(s, g) - 1), p \in Dm :
       x = PanelTerm(s, g, row, bp, r, j, p)
  \/ \E r \in 0..(s.micro.rows - 1), j \in WholeCols(s, g)..(g.cols - 1), p \in Dl :
       x = LeftTerm(s, g, row, r, j, p)

LEMMA StripTermsParts ==
  ASSUME NEW s, NEW g, NEW row, NEW bp, NEW x
  PROVE  x \in StripTerms(s, g, row, bp)
           <=> IsPart(x, s, g, row, bp, Depth(s.micro, g.dep), Depth(s.left, g.dep))
BY DEF StripTerms, PanelTerm, LeftTerm, WholeCols, PanelIndex, IsPart

LEMMA WholeColsBound ==
  ASSUME NEW s, NEW w, StripOK(s, w), w \in Nat, NEW g, BlockOK(g)
  PROVE  WholeCols(s, g) \in 0..g.cols
<1> DEFINE v == s.micro.cols
           c == g.cols
<1>1. v \in Nat /\ c \in Nat
  BY DEF StripOK, BlockOK
<1>2. WholeCols(s, g) = IF v = 0 THEN 0 ELSE (c \div v) * v
  BY DEF WholeCols
<1> HIDE DEF v, c
<1>3. CASE v # 0
  <2>1. c \div v \in Nat /\ c % v \in Nat /\ c = v * (c \div v) + (c % v)
    BY <1>1, <1>3, DivMod
  <2> DEFINE q == c \div v
  <2> HIDE DEF q
  <2>2. q * v \in Nat /\ v * q = q * v
    BY <1>1, <2>1, MulFacts DEF q
  <2>3. q * v <= c
    BY <1>1, <2>1, <2>2 DEF q
  <2>4. WholeCols(s, g) = q * v
    BY <1>2, <1>3 DEF q
  <2>. QED
    BY <1>1, <2>2, <2>3, <2>4 DEF c
<1>. QED
  BY <1>1, <1>2, <1>3 DEF c

LEMMA StripReads ==
  ASSUME CallOK(call), NEW w \in Nat, NEW s, StripOK(s, w), NEW g, BlockOK(g),
         NEW row \in Nat, NEW bp, PanelHolds(bp, w, g),
         NEW r \in 0..(s.micro.rows - 1), NEW q \in 0..(g.dep - 1)
  PROVE  /\ \A j \in 0..(WholeCols(s, g) - 1) :
              PanelTerm(s, g, row, bp, r, j, q) = BlockTerm(g, row + r, j, q)
         /\ \A j \in WholeCols(s, g)..(g.cols - 1) :
              LeftTerm(s, g, row, r, j, q) = BlockTerm(g, row + r, j, q)
<1> DEFINE aa == g.a + (row + r) * a_row_stride + q * a_col_stride
<1>1. s.micro.cols # 0 => PackA(s, g, row)[q * s.micro.rows + r] = aa
  BY PacksStrip
<1>2. s.left.rows > 1 => s.left.rows = s.micro.rows /\ s.micro.cols # 0
  BY DEF StripOK
<1>3. ASSUME NEW j \in 0..(WholeCols(s, g) - 1)
      PROVE  PanelTerm(s, g, row, bp, r, j, q) = BlockTerm(g, row + r, j, q)
  <2>1. s.micro.cols # 0
    BY <1>3 DEF WholeCols
  <2>2. s.micro.cols = w /\ w # 0
    BY <2>1 DEF StripOK
  <2>3. WholeCols(s, g) = (g.cols \div w) * w
    BY <2>2 DEF WholeCols
  <2>4. j \in 0..((g.cols \div w) * w - 1)
    BY <1>3, <2>3
  <2>5. bp[PanelIndex(w, g.dep, j, q)] = g.b + q * b_row_stride + j * b_col_stride
    BY <2>2, <2>4 DEF PanelHolds
  <2> HIDE DEF aa
  <2>6. PackA(s, g, row)[q * s.micro.rows + r] = aa
    BY <1>1, <2>1
  <2>. QED
    BY <2>2, <2>5, <2>6 DEF PanelTerm, BlockTerm, aa
<1>4. ASSUME NEW j \in WholeCols(s, g)..(g.cols - 1)
      PROVE  LeftTerm(s, g, row, r, j, q) = BlockTerm(g, row + r, j, q)
  <2> DEFINE l == IF s.left.rows > 1 THEN PackA(s, g, row)[q * s.left.rows + r] ELSE aa
  <2>1. l = aa
    <3> HIDE DEF aa
    <3>. QED
      BY <1>1, <1>2
  <2>2. LeftTerm(s, g, row, r, j, q) =
          <<g.c + (row + r) * call.ldc + j, l, g.b + q * b_row_stride + j * b_col_stride>>
    BY DEF LeftTerm
  <2> HIDE DEF l
  <2>. QED
    BY <2>1, <2>2 DEF BlockTerm
<1>. QED
  BY <1>3, <1>4

(* A strip adds the terms of its rows, every column and the whole depth.    *)
LEMMA StripAdds ==
  ASSUME CallOK(call), NEW w \in Nat, NEW s, StripOK(s, w), NEW g, BlockOK(g),
         NEW row \in Nat, NEW bp, PanelHolds(bp, w, g)
  PROVE  /\ \A x \in StripTerms(s, g, row, bp) :
              \E r \in 0..(s.micro.rows - 1), j \in 0..(g.cols - 1), q \in 0..(g.dep - 1) :
                x = BlockTerm(g, row + r, j, q)
         /\ \A r \in 0..(s.micro.rows - 1), j \in 0..(g.cols - 1), q \in 0..(g.dep - 1) :
              BlockTerm(g, row + r, j, q) \in StripTerms(s, g, row, bp)
<1> DEFINE D == 0..(g.dep - 1)
           R == 0..(s.micro.rows - 1)
           W == WholeCols(s, g)
           c == g.cols
<1>1. Depth(s.micro, g.dep) = D /\ Depth(s.left, g.dep) = D
  <2>1. g.dep \in Nat /\ s.micro.unroll \in Nat \ {0} /\ s.left.unroll \in Nat \ {0}
    BY DEF StripOK, BlockOK
  <2>. QED
    BY <2>1, DepthAll
<1>2. W \in 0..c /\ c \in Nat
  BY WholeColsBound DEF BlockOK
<1>3. \A x : x \in StripTerms(s, g, row, bp) <=>
        \/ \E r \in R, j \in 0..(W - 1), p \in D : x = PanelTerm(s, g, row, bp, r, j, p)
        \/ \E r \in R, j \in W..(c - 1), p \in D : x = LeftTerm(s, g, row, r, j, p)
  <2>1. \A x : x \in StripTerms(s, g, row, bp) <=> IsPart(x, s, g, row, bp, D, D)
    BY <1>1, StripTermsParts
  <2>. QED
    BY <2>1 DEF IsPart
<1>4. \A r \in R, p \in D :
        /\ \A j \in 0..(W - 1) :
              PanelTerm(s, g, row, bp, r, j, p) = BlockTerm(g, row + r, j, p)
        /\ \A j \in W..(c - 1) :
              LeftTerm(s, g, row, r, j, p) = BlockTerm(g, row + r, j, p)
  BY StripReads
<1> HIDE DEF D, R, W, c
<1>5. ASSUME NEW x \in StripTerms(s, g, row, bp)
      PROVE  \E r \in R, j \in 0..(c - 1), q \in D : x = BlockTerm(g, row + r, j, q)
  <2>1. CASE \E r \in R, j \in 0..(W - 1), p \in D : x = PanelTerm(s, g, row, bp, r, j, p)
    <3>1. PICK r \in R, j \in 0..(W - 1), p \in D : x = PanelTerm(s, g, row, bp, r, j, p)
      BY <2>1
    <3>2. j \in 0..(c - 1) /\ x = BlockTerm(g, row + r, j, p)
      BY <1>2, <1>4, <3>1
    <3>. QED
      BY <3>2
  <2>2. CASE \E r \in R, j \in W..(c - 1), p \in D : x = LeftTerm(s, g, row, r, j, p)
    <3>1. PICK r \in R, j \in W..(c - 1), p \in D : x = LeftTerm(s, g, row, r, j, p)
      BY <2>2
    <3>2. j \in 0..(c - 1) /\ x = BlockTerm(g, row + r, j, p)
      BY <1>2, <1>4, <3>1
    <3>. QED
      BY <3>2
  <2>. QED
    BY <1>3, <2>1, <2>2
<1>6. ASSUME NEW r \in R, NEW j \in 0..(c - 1), NEW q \in D
      PROVE  BlockTerm(g, row + r, j, q) \in StripTerms(s, g, row, bp)
  <2>1. CASE j \in 0..(W - 1)
    BY <1>3, <1>4, <2>1
  <2>2. CASE j \in W..(c - 1)
    BY <1>3, <1>4, <2>2
  <2>. QED
    BY <1>2, <2>1, <2>2
<1>. QED
  BY <1>5, <1>6 DEF D, R, c

(* The terms of a block. *)
BlockTerms(g) ==
  {BlockTerm(g, i, j, q) : i \in 0..(g.rows - 1), j \in 0..(g.cols - 1), q \in 0..(g.dep - 1)}

(* A kernel with the panels it needs adds the terms of its block. *)
LEMMA KernelAdds ==
  ASSUME CallOK(call), NEW kernel, NEW w, KernelOK(kernel, w), NEW g, BlockOK(g),
         NEW bp, PanelHolds(bp, w, g)
  PROVE  /\ KernelTerms(kernel, g, bp) = BlockTerms(g)
         /\ KernelCount(kernel, g) = g.cols * g.dep * g.rows
<1> DEFINE ss == kernel.strips
           L == Len(ss)
           T(i, row) == StripTerms(ss[i], g, row, bp)
           At(i) == StripRows(kernel, g.rows, i)
<1>1. w \in Nat /\ L \in 1..4 /\ DOMAIN ss = 1..L /\ \A i \in 1..L : StripOK(ss[i], w)
  BY DEF KernelOK
<1>2. g.rows \in Nat
  BY DEF BlockOK
<1>3. KernelTerms(kernel, g, bp) = UNION {UNION {T(i, row) : row \in At(i)} : i \in 1..L}
  BY <1>1 DEF KernelTerms, StripRows
<1>4. /\ \A i \in 1..L : \A row \in At(i) : row \in Nat /\ row + ss[i].micro.rows <= g.rows
      /\ \A x \in 0..(g.rows - 1) : \E i \in 1..L : \E row \in At(i) :
           row <= x /\ x < row + ss[i].micro.rows
  BY <1>2, StripRowsAll
<1>5. \A i \in 1..L : ss[i].micro.rows \in Nat
  BY <1>1 DEF StripOK
<1>6. ASSUME NEW i \in 1..L, NEW row \in At(i)
      PROVE  /\ \A x \in T(i, row) :
                  \E r \in 0..(ss[i].micro.rows - 1), j \in 0..(g.cols - 1), q \in 0..(g.dep - 1) :
                    x = BlockTerm(g, row + r, j, q)
             /\ \A r \in 0..(ss[i].micro.rows - 1), j \in 0..(g.cols - 1), q \in 0..(g.dep - 1) :
                  BlockTerm(g, row + r, j, q) \in T(i, row)
  <2>1. row \in Nat /\ StripOK(ss[i], w)
    BY <1>1, <1>4
  <2>. QED
    BY <1>1, <2>1, StripAdds
<1> HIDE DEF ss, L, T, At
<1>7. ASSUME NEW x \in KernelTerms(kernel, g, bp) PROVE x \in BlockTerms(g)
  <2>1. PICK i \in 1..L : x \in UNION {T(i, row) : row \in At(i)}
    BY <1>3
  <2>2. PICK row \in At(i) : x \in T(i, row)
    BY <2>1
  <2>3. PICK r \in 0..(ss[i].micro.rows - 1), j \in 0..(g.cols - 1), q \in 0..(g.dep - 1) :
          x = BlockTerm(g, row + r, j, q)
    BY <1>6, <2>2
  <2>4. row + r \in 0..(g.rows - 1)
    BY <1>2, <1>4, <1>5
  <2>. QED
    BY <2>3, <2>4 DEF BlockTerms
<1>8. ASSUME NEW i \in 0..(g.rows - 1), NEW j \in 0..(g.cols - 1), NEW q \in 0..(g.dep - 1)
      PROVE  BlockTerm(g, i, j, q) \in KernelTerms(kernel, g, bp)
  <2>1. PICK e \in 1..L : \E row \in At(e) : row <= i /\ i < row + ss[e].micro.rows
    BY <1>4
  <2>2. PICK row \in At(e) : row <= i /\ i < row + ss[e].micro.rows
    BY <2>1
  <2>3. row \in Nat /\ i \in Nat /\ ss[e].micro.rows \in Nat
    BY <1>2, <1>4, <1>5
  <2>4. i - row \in 0..(ss[e].micro.rows - 1) /\ row + (i - row) = i
    BY <2>2, <2>3
  <2>5. BlockTerm(g, row + (i - row), j, q) \in T(e, row)
    BY <1>6, <2>4
  <2>. QED
    BY <1>3, <2>4, <2>5
<1>9. KernelTerms(kernel, g, bp) = BlockTerms(g)
  BY <1>7, <1>8 DEF BlockTerms
<1>10. KernelCount(kernel, g) = g.cols * g.dep * g.rows
  <2>1. RowsOf(ss, g.rows)[L] = g.rows
    BY <1>2, RowsTaken DEF ss, L
  <2>. QED
    BY <2>1 DEF KernelCount, ss, L
<1>. QED
  BY <1>9, <1>10

-----------------------------------------------------------------------------
(* The terms of the product. *)

(* A row, a column below the leading dimension and a depth make one term.   *)
LEMMA OneTerm ==
  ASSUME CallOK(call),
         NEW i \in Nat, NEW j \in 0..(n - 1), NEW p \in Nat,
         NEW u \in Nat, NEW v \in 0..(n - 1), NEW q \in Nat,
         TermAt(i, j, p) = TermAt(u, v, q)
  PROVE  i = u /\ j = v /\ p = q
<1>1. n \in Nat \ {0} /\ call.ldc \in Nat \ {0} /\ n <= call.ldc
      /\ a_row_stride \in Nat /\ a_col_stride \in Nat
  BY Strides
<1>2. i * call.ldc + j = u * call.ldc + v
  BY DEF TermAt
<1>3. i * a_row_stride + p * a_col_stride = u * a_row_stride + q * a_col_stride
  BY DEF TermAt
<1>4. i = u /\ j = v
  <2> DEFINE s == call.ldc
  <2>1. s \in Nat \ {0} /\ j \in Nat /\ v \in Nat /\ j < s /\ v < s /\ i * s + j = u * s + v
    BY <1>1, <1>2
  <2> HIDE DEF s
  <2>. QED
    BY <2>1, OneQuotient
<1>5. a_col_stride # 0
  <2>1. call.m_use \in Nat \ {0} /\ call.lda_use \in Nat
        /\ (call.ta # "no" => call.lda_use >= call.m_use)
    BY DEF CallOK
  <2>. QED
    BY <2>1 DEF a_col_stride
<1> DEFINE s == a_row_stride
           t == a_col_stride
<1>6. s \in Nat /\ t \in Nat \ {0} /\ i * s + p * t = i * s + q * t
  BY <1>1, <1>3, <1>4, <1>5
<1> HIDE DEF s, t
<1>7. i * s \in Nat /\ p * t \in Nat /\ q * t \in Nat
  BY <1>6, MulFacts
<1>8. p * t + 0 = q * t + 0
  BY <1>6, <1>7
<1>9. p = q
  BY <1>6, <1>8, OneQuotient
<1>. QED
  BY <1>4, <1>9

(* What the driver's rows, columns and depths make of the caller's. *)
LEMMA CallersTerms ==
  ASSUME CallOK(call), NEW i \in Nat, NEW j \in Nat, NEW p \in Nat
  PROVE  /\ call.layout = "row" =>
              /\ call.m = m /\ call.n = n /\ C_at(i, j) = i * call.ldc + j
              /\ Term(i, j, p) = TermAt(i, j, p)
         /\ call.layout = "col" =>
              /\ call.m = n /\ call.n = m /\ C_at(i, j) = j * call.ldc + i
              /\ Term(i, j, p) = TermAt(j, i, p)
         /\ call.k = k /\ call.layout \in {"row", "col"}
<1>1. CASE call.layout = "row"
  <2>1. /\ call.m_use = call.m /\ call.n_use = call.n
        /\ call.lda_use = call.lda /\ call.ldb_use = call.ldb
        /\ call.ta = call.transa /\ call.tb = call.transb
    BY <1>1 DEF CallOK
  <2>2. C_at(i, j) = i * call.ldc + j
    BY <1>1 DEF C_at, Element
  <2>3. A_at(i, p) = i * a_row_stride + p * a_col_stride
    <3>1. CASE call.transa = "no"
      <4>1. A_at(i, p) = i * call.lda + p
        BY <1>1, <3>1 DEF A_at, Element
      <4>2. a_row_stride = call.lda /\ a_col_stride = 1 /\ p * 1 = p
        BY <2>1, <3>1 DEF a_row_stride, a_col_stride
      <4>. QED
        BY <4>1, <4>2
    <3>2. CASE call.transa # "no"
      <4>1. A_at(i, p) = p * call.lda + i
        BY <1>1, <3>2 DEF A_at, Element
      <4>2. a_row_stride = 1 /\ a_col_stride = call.lda /\ i * 1 = i /\ call.lda \in Nat
        BY <2>1, <3>2 DEF a_row_stride, a_col_stride, CallOK
      <4>3. p * call.lda \in Nat
        BY <4>2, MulFacts
      <4>. QED
        BY <4>1, <4>2, <4>3
    <3>. QED
      BY <3>1, <3>2
  <2>4. B_at(p, j) = p * b_row_stride + j * b_col_stride
    <3>1. CASE call.transb = "no"
      <4>1. B_at(p, j) = p * call.ldb + j
        BY <1>1, <3>1 DEF B_at, Element
      <4>2. b_row_stride = call.ldb /\ b_col_stride = 1 /\ j * 1 = j
        BY <2>1, <3>1 DEF b_row_stride, b_col_stride
      <4>. QED
        BY <4>1, <4>2
    <3>2. CASE call.transb # "no"
      <4>1. B_at(p, j) = j * call.ldb + p
        BY <1>1, <3>2 DEF B_at, Element
      <4>2. b_row_stride = 1 /\ b_col_stride = call.ldb /\ p * 1 = p /\ call.ldb \in Nat
        BY <2>1, <3>2 DEF b_row_stride, b_col_stride, CallOK
      <4>3. j * call.ldb \in Nat
        BY <4>2, MulFacts
      <4>. QED
        BY <4>1, <4>2, <4>3
    <3>. QED
      BY <3>1, <3>2
  <2>. QED
    BY <1>1, <2>1, <2>2, <2>3, <2>4 DEF Term, TermAt, m, n, k
<1>2. CASE call.layout = "col"
  <2>1. /\ call.m_use = call.n /\ call.n_use = call.m
        /\ call.lda_use = call.ldb /\ call.ldb_use = call.lda
        /\ call.ta = call.transb /\ call.tb = call.transa
    BY <1>2 DEF CallOK
  <2>2. C_at(i, j) = j * call.ldc + i
    BY <1>2 DEF C_at, Element
  <2>3. B_at(p, j) = j * a_row_stride + p * a_col_stride
    <3>1. CASE call.transb = "no"
      <4>1. B_at(p, j) = j * call.ldb + p
        BY <1>2, <3>1 DEF B_at, Element
      <4>2. a_row_stride = call.ldb /\ a_col_stride = 1 /\ p * 1 = p
        BY <2>1, <3>1 DEF a_row_stride, a_col_stride
      <4>. QED
        BY <4>1, <4>2
    <3>2. CASE call.transb # "no"
      <4>1. B_at(p, j) = p * call.ldb + j
        BY <1>2, <3>2 DEF B_at, Element
      <4>2. a_row_stride = 1 /\ a_col_stride = call.ldb /\ j * 1 = j /\ call.ldb \in Nat
        BY <2>1, <3>2 DEF a_row_stride, a_col_stride, CallOK
      <4>3. p * call.ldb \in Nat
        BY <4>2, MulFacts
      <4>. QED
        BY <4>1, <4>2, <4>3
    <3>. QED
      BY <3>1, <3>2
  <2>4. A_at(i, p) = p * b_row_stride + i * b_col_stride
    <3>1. CASE call.transa = "no"
      <4>1. A_at(i, p) = p * call.lda + i
        BY <1>2, <3>1 DEF A_at, Element
      <4>2. b_row_stride = call.lda /\ b_col_stride = 1 /\ i * 1 = i
        BY <2>1, <3>1 DEF b_row_stride, b_col_stride
      <4>. QED
        BY <4>1, <4>2
    <3>2. CASE call.transa # "no"
      <4>1. A_at(i, p) = i * call.lda + p
        BY <1>2, <3>2 DEF A_at, Element
      <4>2. b_row_stride = 1 /\ b_col_stride = call.lda /\ p * 1 = p /\ call.lda \in Nat
        BY <2>1, <3>2 DEF b_row_stride, b_col_stride, CallOK
      <4>3. i * call.lda \in Nat
        BY <4>2, MulFacts
      <4>. QED
        BY <4>1, <4>2, <4>3
    <3>. QED
      BY <3>1, <3>2
  <2>. QED
    BY <1>2, <2>1, <2>2, <2>3, <2>4 DEF Term, TermAt, m, n, k
<1>3. call.layout \in {"row", "col"}
  BY DEF CallOK
<1>. QED
  BY <1>1, <1>2, <1>3 DEF k

(* The product and the elements of C, as the driver counts them. *)
LEMMA WantedTerms ==
  ASSUME CallOK(call)
  PROVE  /\ Wanted = {TermAt(i, j, p) : i \in 0..(m - 1), j \in 0..(n - 1), p \in 0..(k - 1)}
         /\ Elements = Places
<1>0. m \in Nat \ {0} /\ n \in Nat \ {0} /\ k \in Nat \ {0}
      /\ (\A i \in 0..(m - 1) : i \in Nat) /\ (\A i \in 0..(n - 1) : i \in Nat)
      /\ (\A i \in 0..(k - 1) : i \in Nat)
  BY Strides
<1> DEFINE ldc == call.ldc
           At(i, j, p) == TermAt(i, j, p)
           Want(i, j, p) == Term(i, j, p)
           Place(i, j) == C_at(i, j)
<1>1. CASE call.layout = "row"
  <2>1. call.m = m /\ call.n = n /\ call.k = k
    BY <1>0, <1>1, CallersTerms
  <2>2. \A i, j, p \in Nat : Want(i, j, p) = At(i, j, p) /\ Place(i, j) = i * ldc + j
    BY <1>1, CallersTerms
  <2>3. Wanted = {Want(i, j, p) : i \in 0..(m - 1), j \in 0..(n - 1), p \in 0..(k - 1)}
    BY <2>1 DEF Wanted
  <2>4. Elements = {Place(i, j) : i \in 0..(m - 1), j \in 0..(n - 1)}
    BY <2>1 DEF Elements
  <2>5. Places = {i * ldc + j : i \in 0..(m - 1), j \in 0..(n - 1)}
    BY DEF Places
  <2> HIDE DEF Want, Place, At, ldc
  <2>6. Elements = Places
    BY <1>0, <2>2, <2>4, <2>5
  <2>7. Wanted = {At(i, j, p) : i \in 0..(m - 1), j \in 0..(n - 1), p \in 0..(k - 1)}
    BY <1>0, <2>2, <2>3
  <2>. QED
    BY <2>6, <2>7 DEF At
<1>2. CASE call.layout = "col"
  <2>1. call.m = n /\ call.n = m /\ call.k = k
    BY <1>0, <1>2, CallersTerms
  <2>2. \A i, j, p \in Nat : Want(i, j, p) = At(j, i, p) /\ Place(i, j) = j * ldc + i
    BY <1>2, CallersTerms
  <2>3. Wanted = {Want(i, j, p) : i \in 0..(n - 1), j \in 0..(m - 1), p \in 0..(k - 1)}
    BY <2>1 DEF Wanted
  <2>4. Elements = {Place(i, j) : i \in 0..(n - 1), j \in 0..(m - 1)}
    BY <2>1 DEF Elements
  <2>5. Places = {i * ldc + j : i \in 0..(m - 1), j \in 0..(n - 1)}
    BY DEF Places
  <2> HIDE DEF Want, Place, At, ldc
  <2>6. Elements = Places
    <3>1. ASSUME NEW x \in Elements PROVE x \in Places
      <4>1. PICK i \in 0..(n - 1), j \in 0..(m - 1) : x = Place(i, j)
        BY <2>4
      <4>. QED
        BY <1>0, <2>2, <2>5, <4>1
    <3>2. ASSUME NEW x \in Places PROVE x \in Elements
      <4>1. PICK i \in 0..(m - 1), j \in 0..(n - 1) : x = i * ldc + j
        BY <2>5
      <4>2. Place(j, i) = x
        BY <1>0, <2>2, <4>1
      <4>. QED
        BY <2>4, <4>2
    <3>. QED
      BY <3>1, <3>2
  <2>7. Wanted = {At(i, j, p) : i \in 0..(m - 1), j \in 0..(n - 1), p \in 0..(k - 1)}
    <3>1. ASSUME NEW x \in Wanted
          PROVE  x \in {At(i, j, p) : i \in 0..(m - 1), j \in 0..(n - 1), p \in 0..(k - 1)}
      <4>1. PICK i \in 0..(n - 1), j \in 0..(m - 1), p \in 0..(k - 1) : x = Want(i, j, p)
        BY <2>3
      <4>2. x = At(j, i, p)
        BY <1>0, <2>2, <4>1
      <4>. QED
        BY <4>2
    <3>2. ASSUME NEW i \in 0..(m - 1), NEW j \in 0..(n - 1), NEW p \in 0..(k - 1)
          PROVE  At(i, j, p) \in Wanted
      <4>1. Want(j, i, p) = At(i, j, p)
        BY <1>0, <2>2
      <4>. QED
        BY <2>3, <4>1
    <3>. QED
      BY <3>1, <3>2
  <2>. QED
    BY <2>6, <2>7 DEF At
<1>3. call.layout \in {"row", "col"}
  BY DEF CallOK
<1>. QED
  BY <1>1, <1>2, <1>3

(* A block at row i0, column j0 and depth p0 of the product. *)
BlockAt(g, i0, j0, p0) ==
  /\ i0 \in Nat /\ j0 \in Nat /\ p0 \in Nat
  /\ g.rows \in Nat /\ g.cols \in Nat /\ g.dep \in Nat
  /\ i0 + g.rows <= m /\ j0 + g.cols <= n /\ p0 + g.dep <= k
  /\ g.c = i0 * call.ldc + j0
  /\ g.a = i0 * a_row_stride + p0 * a_col_stride
  /\ g.b = p0 * b_row_stride + j0 * b_col_stride

LEMMA BlockPlaces ==
  ASSUME CallOK(call), NEW g, NEW i0, NEW j0, NEW p0, BlockAt(g, i0, j0, p0)
  PROVE  /\ BlockOK(g)
         /\ \A i, j, q \in Nat : BlockTerm(g, i, j, q) = TermAt(i0 + i, j0 + j, p0 + q)
<1>1. i0 \in Nat /\ j0 \in Nat /\ p0 \in Nat
  BY DEF BlockAt
<1>2. a_row_stride \in Nat /\ a_col_stride \in Nat /\ b_row_stride \in Nat
      /\ b_col_stride \in Nat /\ call.ldc \in Nat
  BY Strides
<1>3. BlockOK(g)
  <2>1. g.c \in Nat
    <3>1. i0 * call.ldc \in Nat
      BY <1>1, <1>2, MulFacts
    <3>. QED
      BY <1>1, <3>1 DEF BlockAt
  <2>2. g.a \in Nat
    <3>1. i0 * a_row_stride \in Nat /\ p0 * a_col_stride \in Nat
      BY <1>1, <1>2, MulFacts
    <3>. QED
      BY <3>1 DEF BlockAt
  <2>3. g.b \in Nat
    <3>1. p0 * b_row_stride \in Nat /\ j0 * b_col_stride \in Nat
      BY <1>1, <1>2, MulFacts
    <3>. QED
      BY <3>1 DEF BlockAt
  <2>. QED
    BY <2>1, <2>2, <2>3 DEF BlockOK, BlockAt
<1>4. ASSUME NEW i \in Nat, NEW j \in Nat, NEW q \in Nat
      PROVE  BlockTerm(g, i, j, q) = TermAt(i0 + i, j0 + j, p0 + q)
  <2> DEFINE ldc == call.ldc
             ar == a_row_stride
             ac == a_col_stride
             br == b_row_stride
             bc == b_col_stride
  <2>1. g.c + i * ldc + j = (i0 + i) * ldc + (j0 + j)
    <3>1. ldc \in Nat /\ g.c = i0 * ldc + j0
      BY <1>2 DEF BlockAt
    <3> HIDE DEF ldc
    <3>2. (i0 + i) * ldc = i0 * ldc + i * ldc /\ i0 * ldc \in Nat /\ i * ldc \in Nat
      BY <1>1, <3>1, MulFacts
    <3>. QED
      BY <1>1, <3>1, <3>2
  <2>2. g.a + i * ar + q * ac = (i0 + i) * ar + (p0 + q) * ac
    <3>1. ar \in Nat /\ ac \in Nat /\ g.a = i0 * ar + p0 * ac
      BY <1>2 DEF BlockAt
    <3> HIDE DEF ar, ac
    <3>2. (i0 + i) * ar = i0 * ar + i * ar /\ i0 * ar \in Nat /\ i * ar \in Nat
      BY <1>1, <3>1, MulFacts
    <3>3. (p0 + q) * ac = p0 * ac + q * ac /\ p0 * ac \in Nat /\ q * ac \in Nat
      BY <1>1, <3>1, MulFacts
    <3>. QED
      BY <3>1, <3>2, <3>3
  <2>3. g.b + q * br + j * bc = (p0 + q) * br + (j0 + j) * bc
    <3>1. br \in Nat /\ bc \in Nat /\ g.b = p0 * br + j0 * bc
      BY <1>2 DEF BlockAt
    <3> HIDE DEF br, bc
    <3>2. (p0 + q) * br = p0 * br + q * br /\ p0 * br \in Nat /\ q * br \in Nat
      BY <1>1, <3>1, MulFacts
    <3>3. (j0 + j) * bc = j0 * bc + j * bc /\ j0 * bc \in Nat /\ j * bc \in Nat
      BY <1>1, <3>1, MulFacts
    <3>. QED
      BY <3>1, <3>2, <3>3
  <2>. QED
    BY <2>1, <2>2, <2>3 DEF BlockTerm, TermAt
<1>. QED
  BY <1>3, <1>4

(* Rows, columns and depths of a box, and its terms. *)
InBox(i, j, p, g, i0, j0, p0) ==
  /\ i0 <= i /\ i < i0 + g.rows /\ j0 <= j /\ j < j0 + g.cols
  /\ p0 <= p /\ p < p0 + g.dep

LEMMA BlockBox ==
  ASSUME CallOK(call), NEW g, NEW i0, NEW j0, NEW p0, BlockAt(g, i0, j0, p0)
  PROVE  /\ \A x \in BlockTerms(g) :
              \E i \in 0..(m - 1), j \in 0..(n - 1), p \in 0..(k - 1) :
                x = TermAt(i, j, p) /\ InBox(i, j, p, g, i0, j0, p0)
         /\ \A i, j, p \in Nat :
              InBox(i, j, p, g, i0, j0, p0) => TermAt(i, j, p) \in BlockTerms(g)
<1>1. \A i, j, q \in Nat : BlockTerm(g, i, j, q) = TermAt(i0 + i, j0 + j, p0 + q)
  BY BlockPlaces
<1>2. /\ i0 \in Nat /\ j0 \in Nat /\ p0 \in Nat
      /\ g.rows \in Nat /\ g.cols \in Nat /\ g.dep \in Nat
      /\ i0 + g.rows <= m /\ j0 + g.cols <= n /\ p0 + g.dep <= k
  BY DEF BlockAt
<1>3. m \in Nat /\ n \in Nat /\ k \in Nat
  BY Strides
<1>4. ASSUME NEW x \in BlockTerms(g)
      PROVE  \E i \in 0..(m - 1), j \in 0..(n - 1), p \in 0..(k - 1) :
               x = TermAt(i, j, p) /\ InBox(i, j, p, g, i0, j0, p0)
  <2>1. PICK i \in 0..(g.rows - 1), j \in 0..(g.cols - 1), q \in 0..(g.dep - 1) :
          x = BlockTerm(g, i, j, q)
    BY DEF BlockTerms
  <2>2. i \in Nat /\ j \in Nat /\ q \in Nat /\ i < g.rows /\ j < g.cols /\ q < g.dep
    BY <1>2
  <2>3. x = TermAt(i0 + i, j0 + j, p0 + q)
    BY <1>1, <2>1, <2>2
  <2>4. /\ i0 + i \in 0..(m - 1) /\ j0 + j \in 0..(n - 1) /\ p0 + q \in 0..(k - 1)
        /\ InBox(i0 + i, j0 + j, p0 + q, g, i0, j0, p0)
    BY <1>2, <1>3, <2>2 DEF InBox
  <2>. QED
    BY <2>3, <2>4
<1>5. ASSUME NEW i \in Nat, NEW j \in Nat, NEW p \in Nat, InBox(i, j, p, g, i0, j0, p0)
      PROVE  TermAt(i, j, p) \in BlockTerms(g)
  <2>1. /\ i - i0 \in 0..(g.rows - 1) /\ j - j0 \in 0..(g.cols - 1) /\ p - p0 \in 0..(g.dep - 1)
        /\ i0 + (i - i0) = i /\ j0 + (j - j0) = j /\ p0 + (p - p0) = p
        /\ i - i0 \in Nat /\ j - j0 \in Nat /\ p - p0 \in Nat
    BY <1>2, <1>5 DEF InBox
  <2>2. BlockTerm(g, i - i0, j - j0, p - p0) = TermAt(i, j, p)
    BY <1>1, <2>1
  <2>. QED
    BY <2>1, <2>2 DEF BlockTerms
<1>. QED
  BY <1>4, <1>5

LEMMA Upto ==
  ASSUME NEW N \in Nat
  PROVE  IsFiniteSet(0..(N - 1)) /\ Cardinality(0..(N - 1)) = N
<1>1. 0 \in Int /\ N - 1 \in Int
  OBVIOUS
<1>2. /\ IsFiniteSet(0..(N - 1))
      /\ Cardinality(0..(N - 1)) = IF 0 > N - 1 THEN 0 ELSE (N - 1) - 0 + 1
  BY <1>1, FS_Interval
<1>3. (IF 0 > N - 1 THEN 0 ELSE (N - 1) - 0 + 1) = N
  OBVIOUS
<1>. QED
  BY <1>2, <1>3

(* The terms of a block are as many as the kernels count.                   *)
LEMMA BlockCount ==
  ASSUME CallOK(call), NEW g, NEW i0, NEW j0, NEW p0, BlockAt(g, i0, j0, p0)
  PROVE  IsFiniteSet(BlockTerms(g)) /\ Cardinality(BlockTerms(g)) = g.cols * g.dep * g.rows
<1> DEFINE R == g.rows
           C == g.cols
           D == g.dep
           I == 0..(R - 1)
           J == 0..(C - 1)
           Q == 0..(D - 1)
           S == (J \X Q) \X I
           T == BlockTerms(g)
           F(x) == BlockTerm(g, x[2], x[1][1], x[1][2])
           f == [x \in S |-> F(x)]
<1>0. R \in Nat /\ C \in Nat /\ D \in Nat /\ i0 \in Nat /\ j0 \in Nat /\ p0 \in Nat
      /\ j0 + C <= n /\ n \in Nat
  BY Strides DEF BlockAt
<1> HIDE DEF R, C, D
<1>1. /\ IsFiniteSet(I) /\ IsFiniteSet(J) /\ IsFiniteSet(Q)
      /\ Cardinality(I) = R /\ Cardinality(J) = C /\ Cardinality(Q) = D
  BY <1>0, Upto
<1>2. \A i \in I : i \in Nat
  BY <1>0
<1>3. \A j \in J : j \in Nat /\ j0 + j \in 0..(n - 1)
  BY <1>0
<1>4. \A q \in Q : q \in Nat
  BY <1>0
<1>5. T = {BlockTerm(g, i, j, q) : i \in I, j \in J, q \in Q}
  BY DEF BlockTerms, R, C, D
<1> HIDE DEF I, J, Q, T
<1>6. IsFiniteSet(S) /\ Cardinality(S) = C * D * R
  <2>1. IsFiniteSet(J \X Q) /\ Cardinality(J \X Q) = C * D
    BY <1>1, FS_Product
  <2> HIDE DEF S
  <2>2. IsFiniteSet(S) /\ Cardinality(S) = Cardinality(J \X Q) * R
    BY <1>1, <2>1, FS_Product DEF S
  <2>. QED
    BY <2>1, <2>2
<1>7. f \in [S -> T]
  <2> SUFFICES ASSUME NEW x \in S PROVE F(x) \in T
    OBVIOUS
  <2>1. x[2] \in I /\ x[1][1] \in J /\ x[1][2] \in Q
    OBVIOUS
  <2>. QED
    BY <1>5, <2>1
<1>8. ASSUME NEW x \in S, NEW y \in S, f[x] = f[y] PROVE x = y
  <2>1. /\ x[2] \in I /\ x[1][1] \in J /\ x[1][2] \in Q
        /\ y[2] \in I /\ y[1][1] \in J /\ y[1][2] \in Q
        /\ x = <<<<x[1][1], x[1][2]>>, x[2]>> /\ y = <<<<y[1][1], y[1][2]>>, y[2]>>
    OBVIOUS
  <2>2. F(x) = F(y)
    BY <1>8
  <2> DEFINE i == x[2]
             j == x[1][1]
             q == x[1][2]
             u == y[2]
             v == y[1][1]
             w == y[1][2]
  <2>3. i \in I /\ j \in J /\ q \in Q /\ u \in I /\ v \in J /\ w \in Q
        /\ BlockTerm(g, i, j, q) = BlockTerm(g, u, v, w)
    BY <2>1, <2>2
  <2> HIDE DEF i, j, q, u, v, w
  <2>4. /\ i \in Nat /\ j \in Nat /\ q \in Nat /\ u \in Nat /\ v \in Nat /\ w \in Nat
        /\ j0 + j \in 0..(n - 1) /\ j0 + v \in 0..(n - 1)
    BY <1>2, <1>3, <1>4, <2>3
  <2>5. TermAt(i0 + i, j0 + j, p0 + q) = TermAt(i0 + u, j0 + v, p0 + w)
    BY <2>3, <2>4, BlockPlaces
  <2>6. i0 + i \in Nat /\ p0 + q \in Nat /\ i0 + u \in Nat /\ p0 + w \in Nat
    BY <1>0, <2>4
  <2>7. i0 + i = i0 + u /\ j0 + j = j0 + v /\ p0 + q = p0 + w
    <3> DEFINE a == i0 + i
               b == j0 + j
               c == p0 + q
               d == i0 + u
               e == j0 + v
               h == p0 + w
    <3>1. /\ a \in Nat /\ b \in 0..(n - 1) /\ c \in Nat /\ d \in Nat /\ e \in 0..(n - 1)
          /\ h \in Nat /\ TermAt(a, b, c) = TermAt(d, e, h)
      BY <2>4, <2>5, <2>6
    <3> HIDE DEF a, b, c, d, e, h
    <3>2. a = d /\ b = e /\ c = h
      BY <3>1, OneTerm
    <3>. QED
      BY <3>2 DEF a, b, c, d, e, h
  <2>8. i = u /\ j = v /\ q = w
    BY <1>0, <2>4, <2>7
  <2>. QED
    BY <2>1, <2>8 DEF i, j, q, u, v, w
<1>9. \A y \in T : \E x \in S : f[x] = y
  <2> SUFFICES ASSUME NEW y \in T PROVE \E x \in S : f[x] = y
    OBVIOUS
  <2>1. PICK i \in I, j \in J, q \in Q : y = BlockTerm(g, i, j, q)
    BY <1>5
  <2>2. <<<<j, q>>, i>> \in S /\ F(<<<<j, q>>, i>>) = y
    BY <2>1
  <2>. QED
    BY <2>2
<1> HIDE DEF S, f
<1>10. f \in Bijection(S, T)
  BY <1>7, <1>8, <1>9, Fun_IsBij
<1>11. ExistsBijection(S, T)
  BY <1>10 DEF ExistsBijection
<1>12. IsFiniteSet(T) /\ Cardinality(T) = C * D * R
  BY <1>6, <1>11, FS_Bijection
<1>. QED
  BY <1>12 DEF T, C, D, R

-----------------------------------------------------------------------------
(* A call, and the sizes of the pieces it is cut into. *)

(* What the input checks let through, in the caller's words. *)
ArgumentsOK(c, routine) ==
  /\ c.routine = routine /\ c.layout \in {"row", "col"}
  /\ c.transa \in {"no", "yes"} /\ c.transb \in {"no", "yes"}
  /\ c.m \in Nat \ {0} /\ c.n \in Nat \ {0} /\ c.k \in Nat \ {0}
  /\ c.lda \in Nat /\ c.ldb \in Nat /\ c.ldc \in Nat
  /\ c.lda >= IF (c.transa = "no") = (c.layout = "row") THEN c.k ELSE c.m
  /\ c.ldb >= IF (c.transb = "no") = (c.layout = "row") THEN c.n ELSE c.k
  /\ c.ldc >= IF c.layout = "row" THEN c.n ELSE c.m

LEMMA ArgumentsAreOK ==
  ASSUME NEW routine, NEW c \in Arguments(routine)
  PROVE  ArgumentsOK(c, routine)
<1> DEFINE LdOf(layout, trans, rows, cols, pad) ==
             (IF (trans = "no") = (layout = "row") THEN cols ELSE rows) + pad
           Call(layout, transa, transb, shape, pad, alpha, beta, scarce) ==
             [routine |-> routine, layout |-> layout, transa |-> transa,
              transb |-> transb, m |-> shape[1], n |-> shape[2], k |-> shape[3],
              lda |-> LdOf(layout, transa, shape[1], shape[3], pad),
              ldb |-> LdOf(layout, transb, shape[3], shape[2], pad),
              ldc |-> (IF layout = "row" THEN shape[2] ELSE shape[1]) + pad,
              alpha |-> alpha, beta |-> beta, scarce |-> scarce]
<1>1. ASSUME NEW l \in {"row", "col"}, NEW ta \in {"no", "yes"}, NEW tb \in {"no", "yes"},
             NEW s \in Shapes \cup ScarceShapes, NEW p \in Pads, NEW al, NEW be, NEW sc
      PROVE  ArgumentsOK(Call(l, ta, tb, s, p, al, be, sc), routine)
  <2>1. s[1] \in Nat \ {0} /\ s[2] \in Nat \ {0} /\ s[3] \in Nat \ {0} /\ p \in Nat
    BY GemmAssumption
  <2> DEFINE x == s[1]
             y == s[2]
             z == s[3]
  <2>2. x \in Nat \ {0} /\ y \in Nat \ {0} /\ z \in Nat \ {0} /\ p \in Nat
    BY <2>1
  <2> HIDE DEF x, y, z
  <2>3. Call(l, ta, tb, s, p, al, be, sc) =
          [routine |-> routine, layout |-> l, transa |-> ta, transb |-> tb,
           m |-> x, n |-> y, k |-> z, lda |-> LdOf(l, ta, x, z, p),
           ldb |-> LdOf(l, tb, z, y, p), ldc |-> (IF l = "row" THEN y ELSE x) + p,
           alpha |-> al, beta |-> be, scarce |-> sc]
    BY DEF x, y, z
  <2> DEFINE d == Call(l, ta, tb, s, p, al, be, sc)
  <2> HIDE DEF d, Call
  <2>4. d = [routine |-> routine, layout |-> l, transa |-> ta, transb |-> tb,
             m |-> x, n |-> y, k |-> z, lda |-> LdOf(l, ta, x, z, p),
             ldb |-> LdOf(l, tb, z, y, p), ldc |-> (IF l = "row" THEN y ELSE x) + p,
             alpha |-> al, beta |-> be, scarce |-> sc]
    BY <2>3 DEF d
  <2>5. /\ d.routine = routine /\ d.layout = l /\ d.transa = ta /\ d.transb = tb
        /\ d.m = x /\ d.n = y /\ d.k = z /\ d.lda = LdOf(l, ta, x, z, p)
        /\ d.ldb = LdOf(l, tb, z, y, p) /\ d.ldc = (IF l = "row" THEN y ELSE x) + p
    <3> HIDE DEF LdOf
    <3>. QED
      BY <2>4
  <2>. QED
    BY <2>2, <2>5 DEF ArgumentsOK, d
<1> DEFINE C1(l, ta, tb, s, p) == Call(l, ta, tb, s, p, "other", "other", FALSE)
           C2(l, s, p, al, be) == Call(l, "no", "yes", s, p, al, be, FALSE)
           C3(l, s, p) == Call(l, "no", "yes", s, p, "other", "other", TRUE)
           A1 == {C1(l, ta, tb, s, p) :
                    l \in {"row", "col"}, ta \in {"no", "yes"}, tb \in {"no", "yes"},
                    s \in Shapes, p \in Pads}
           A2 == {C2(l, s, p, al, be) :
                    l \in {"row", "col"}, s \in ScarceShapes, p \in Pads,
                    al \in {"zero", "other"}, be \in {"zero", "one", "other"}}
           A3 == {C3(l, s, p) : l \in {"row", "col"}, s \in ScarceShapes, p \in Pads}
<1>2. c \in A1 \cup A2 \cup A3
  BY DEF Arguments
<1>3. ASSUME NEW l \in {"row", "col"}, NEW ta \in {"no", "yes"}, NEW tb \in {"no", "yes"},
             NEW s \in Shapes, NEW p \in Pads
      PROVE  ArgumentsOK(C1(l, ta, tb, s, p), routine)
  <2>1. s \in Shapes \cup ScarceShapes
    OBVIOUS
  <2> HIDE DEF Call
  <2>. QED
    BY <1>1, <2>1, Zenon
<1>4. ASSUME NEW l \in {"row", "col"}, NEW s \in ScarceShapes, NEW p \in Pads, NEW al, NEW be
      PROVE  ArgumentsOK(C2(l, s, p, al, be), routine) /\ ArgumentsOK(C3(l, s, p), routine)
  <2>1. s \in Shapes \cup ScarceShapes /\ "no" \in {"no", "yes"} /\ "yes" \in {"no", "yes"}
    OBVIOUS
  <2> HIDE DEF Call
  <2>. QED
    BY <1>1, <2>1, Zenon
<1> HIDE DEF C1, C2, C3
<1>. QED
  BY <1>2, <1>3, <1>4

(* Whatever the processor, the driver's view of the call is sound. *)
LEMMA CallsAreOK ==
  ASSUME NEW routine \in Routines, NEW f, NEW c \in Arguments(routine), NEW t \in Threads
  PROVE  CallOK(GemmCall(f, c, t))
<1> DEFINE d == GemmCall(f, c, t)
           u == RowMajor(c)
<1>1. ArgumentsOK(c, routine) /\ routine \in {"sgemm", "dgemm"} /\ t \in Nat \ {0}
  BY ArgumentsAreOK, GemmAssumption
<1>2. /\ d.routine = c.routine /\ d.layout = c.layout /\ d.transa = c.transa
      /\ d.transb = c.transb /\ d.m = c.m /\ d.n = c.n /\ d.k = c.k
      /\ d.lda = c.lda /\ d.ldb = c.ldb /\ d.ldc = c.ldc
      /\ d.m_use = u.m_use /\ d.n_use = u.n_use /\ d.lda_use = u.lda_use
      /\ d.ldb_use = u.ldb_use /\ d.ta = u.ta /\ d.tb = u.tb
      /\ d.kernel = GemmKernelsOf(f)[c.routine] /\ d.threads = t
  BY DEF GemmCall
<1>3. /\ c.layout = "row" =>
           /\ u.m_use = c.m /\ u.n_use = c.n /\ u.lda_use = c.lda /\ u.ldb_use = c.ldb
           /\ u.ta = c.transa /\ u.tb = c.transb
      /\ c.layout # "row" =>
           /\ u.m_use = c.n /\ u.n_use = c.m /\ u.lda_use = c.ldb /\ u.ldb_use = c.lda
           /\ u.ta = c.transb /\ u.tb = c.transa
  BY DEF RowMajor
<1>4. OwnOK(d.kernel)
  BY <1>1, <1>2, TableOfKernels DEF ArgumentsOK
<1> HIDE DEF d, u
<1>5. /\ c.routine \in {"sgemm", "dgemm"} /\ c.layout \in {"row", "col"}
      /\ c.transa \in {"no", "yes"} /\ c.transb \in {"no", "yes"}
      /\ c.m \in Nat \ {0} /\ c.n \in Nat \ {0} /\ c.k \in Nat \ {0}
      /\ c.lda \in Nat /\ c.ldb \in Nat /\ c.ldc \in Nat
  BY <1>1 DEF ArgumentsOK
<1>6. CASE c.layout = "row"
  <2>1. /\ c.lda >= IF c.transa = "no" THEN c.k ELSE c.m
        /\ c.ldb >= IF c.transb = "no" THEN c.n ELSE c.k
        /\ c.ldc >= c.n
    BY <1>1, <1>6 DEF ArgumentsOK
  <2>. QED
    BY <1>1, <1>2, <1>3, <1>4, <1>5, <1>6, <2>1 DEF CallOK, d
<1>7. CASE c.layout = "col"
  <2>1. /\ c.lda >= IF c.transa = "no" THEN c.m ELSE c.k
        /\ c.ldb >= IF c.transb = "no" THEN c.k ELSE c.n
        /\ c.ldc >= c.m
    BY <1>1, <1>5, <1>7 DEF ArgumentsOK
  <2>. QED
    BY <1>1, <1>2, <1>3, <1>4, <1>5, <1>7, <2>1 DEF CallOK, d
<1>. QED
  BY <1>5, <1>6, <1>7

(* A set of numbers has a least. *)
LEMMA LeastExists ==
  ASSUME NEW S \in SUBSET Nat, S # {}
  PROVE  \E i \in S : \A j \in S : i <= j
<1>. DEFINE R == OpToRel(<, Nat)
<1>1. \A x, y \in Nat : <<y, x>> \in R <=> y < x
  BY DEF OpToRel
<1>2. IsWellFoundedOn(R, Nat)
  BY NatLessThanWellFounded
<1>. HIDE DEF R
<1>3. PICK i \in S : \A j \in S : ~(<<j, i>> \in R)
  BY <1>2, WFMin
<1>4. i \in Nat /\ \A j \in S : j \in Nat /\ ~(j < i)
  BY <1>1, <1>3
<1>5. \A j \in S : i <= j
  BY <1>4
<1>. QED
  BY <1>5

(* The rounded square root of the tiles' target exists. *)
LEMMA TargetType ==
  ASSUME CallOK(call)
  PROVE  Target \in Nat \ {0}
<1> DEFINE t == call.threads
           P(x) == /\ (2 * x - 1) * (2 * x - 1) <= 4 * t
                   /\ (2 * x + 1) * (2 * x + 1) > 4 * t
           S == {x \in Nat : (2 * x + 1) * (2 * x + 1) > 4 * t}
<1>1. t \in Nat \ {0}
  BY DEF CallOK
<1>2. Target = Max2(2, CHOOSE x \in 0..t : P(x))
  BY DEF Target
<1> HIDE DEF t
<1>3. t \in S
  <2>1. (2 * t + 1) * (2 * t + 1) > 4 * t
    <3>1. (2 * t + 1) * (2 * t + 1) = 4 * (t * t) + 4 * t + 1
      BY <1>1, SMT
    <3>2. t * t \in Nat
      BY <1>1, SMT
    <3>. QED
      BY <1>1, <3>1, <3>2
  <2>. QED
    BY <1>1, <2>1
<1>4. PICK x \in S : \A y \in S : x <= y
  <2> HIDE DEF S
  <2>1. S \in SUBSET Nat
    BY DEF S
  <2>. QED
    BY <1>3, <2>1, LeastExists
<1>5. x \in 0..t
  BY <1>1, <1>3, <1>4
<1>6. x # 0
  <2> SUFFICES ASSUME x = 0 PROVE FALSE
    OBVIOUS
  <2>1. (2 * x + 1) * (2 * x + 1) = 1
    OBVIOUS
  <2>. QED
    BY <1>1, <1>4, <2>1
<1>7. x - 1 \in Nat /\ ~(x - 1 \in S)
  BY <1>4, <1>5, <1>6
<1>8. (2 * x - 1) * (2 * x - 1) <= 4 * t
  <2>1. 2 * (x - 1) + 1 = 2 * x - 1
    BY <1>5
  <2>2. ~((2 * (x - 1) + 1) * (2 * (x - 1) + 1) > 4 * t)
    BY <1>7
  <2> DEFINE y == 2 * x - 1
  <2>3. y \in Int /\ ~(y * y > 4 * t)
    BY <1>5, <2>1, <2>2
  <2> HIDE DEF y
  <2>4. y * y \in Int
    BY <2>3, SMT
  <2>5. y * y <= 4 * t
    BY <1>1, <2>3, <2>4
  <2>. QED
    BY <2>5 DEF y
<1>9. \E y \in 0..t : P(y)
  BY <1>4, <1>5, <1>8
<1> HIDE DEF P
<1>10. (CHOOSE y \in 0..t : P(y)) \in 0..t
  BY <1>9
<1> DEFINE z == CHOOSE y \in 0..t : P(y)
<1> HIDE DEF z
<1>11. z \in 0..t /\ Target = Max2(2, z)
  BY <1>2, <1>10 DEF z
<1>. QED
  BY <1>1, <1>11 DEF Max2

LEMMA PieceSizes ==
  ASSUME CallOK(call)
  PROVE  /\ Band \in Nat \ {0} /\ Chunk \in Nat \ {0}
         /\ mc_use \in Nat \ {0} /\ nb_use \in Nat \ {0}
         /\ Chunk = n \/ (\E q \in Nat : Chunk = q * WidthOf(call.routine))
<1>1. m \in Nat \ {0} /\ n \in Nat \ {0} /\ call.threads \in Nat \ {0}
      /\ call.routine \in {"sgemm", "dgemm"}
  BY Strides DEF CallOK
<1>2. Band \in Nat \ {0}
  <2>1. CeilDiv(m, call.threads) \in Nat \ {0}
    BY <1>1, RoundedUp
  <2>2. RoundUp(CeilDiv(m, call.threads), 6) \in Nat \ {0}
        /\ RoundUp(CeilDiv(m, call.threads), 4) \in Nat \ {0}
    BY <2>1, Sizes, RoundedUp, Zenon
  <2>. QED
    BY <2>2 DEF Band
<1>3. Chunk \in Nat \ {0} /\ (Chunk = n \/ (\E q \in Nat : Chunk = q * WidthOf(call.routine)))
  <2>1. CeilDiv(n, call.threads) \in Nat \ {0}
    BY <1>1, RoundedUp
  <2>2. RoundUp(CeilDiv(n, call.threads), 12) \in Nat \ {0}
        /\ \E q \in Nat : RoundUp(CeilDiv(n, call.threads), 12) = q * 12
    BY <2>1, Sizes, RoundedUp, Zenon
  <2>3. CASE call.routine = "sgemm"
    BY <2>2, <2>3 DEF Chunk, WidthOf
  <2>4. CASE call.routine # "sgemm"
    BY <1>1, <2>4 DEF Chunk
  <2>. QED
    BY <2>3, <2>4
<1>4. mc_use \in Nat \ {0} /\ nb_use \in Nat \ {0}
  <2>1. Target \in Nat \ {0} /\ MIN_TILE \in Nat \ {0}
        /\ cblas_gemm_mc \in Nat \ {0} /\ cblas_gemm_nb \in Nat \ {0}
    BY TargetType, GemmAssumption
  <2>2. CeilDiv(m, Target) \in Nat \ {0} /\ CeilDiv(n, Target) \in Nat \ {0}
    BY <1>1, <2>1, RoundedUp
  <2>. QED
    BY <2>1, <2>2 DEF mc_use, nb_use, Max2
<1>. QED
  BY <1>2, <1>3, <1>4

-----------------------------------------------------------------------------
(* The batches. *)

DepthOK == depth \in Starts(k, cblas_gemm_kc)

LEMMA DepthBlocks ==
  ASSUME CallOK(call)
  PROVE  /\ \A d \in Starts(k, cblas_gemm_kc) :
              /\ d \in Nat /\ pb(d) \in Nat \ {0} /\ pb(d) <= cblas_gemm_kc /\ d + pb(d) <= k
              /\ d + cblas_gemm_kc < k =>
                   pb(d) = cblas_gemm_kc /\ d + cblas_gemm_kc \in Starts(k, cblas_gemm_kc)
              /\ ~(d + cblas_gemm_kc < k) => d + pb(d) = k
         /\ 0 \in Starts(k, cblas_gemm_kc) /\ cblas_gemm_kc \in Nat \ {0}
<1>1. k \in Nat \ {0} /\ cblas_gemm_kc \in Nat \ {0}
  BY Strides, GemmAssumption
<1>2. 0 \in Starts(k, cblas_gemm_kc)
  BY <1>1, StartsFacts
<1>3. ASSUME NEW d \in Starts(k, cblas_gemm_kc)
      PROVE  /\ d \in Nat /\ pb(d) \in Nat \ {0} /\ pb(d) <= cblas_gemm_kc /\ d + pb(d) <= k
             /\ d + cblas_gemm_kc < k =>
                  pb(d) = cblas_gemm_kc /\ d + cblas_gemm_kc \in Starts(k, cblas_gemm_kc)
             /\ ~(d + cblas_gemm_kc < k) => d + pb(d) = k
  <2>1. d \in Nat /\ d < k
        /\ (d + cblas_gemm_kc < k => d + cblas_gemm_kc \in Starts(k, cblas_gemm_kc))
    BY <1>1, StartsFacts
  <2>. QED
    BY <1>1, <2>1 DEF pb, Min2
<1>. QED
  BY <1>1, <1>2, <1>3

(* A row and a column of C from an address. *)
LEMMA PlaceOf ==
  ASSUME CallOK(call), NEW r \in Nat, NEW j \in 0..(n - 1), NEW t, t.c = r * call.ldc + j
  PROVE  t.c \in Nat /\ RowOf(t) = r /\ ColOf(t) = j
<1> DEFINE s == call.ldc
<1>1. s \in Nat \ {0} /\ j \in Nat /\ j < s
  BY Strides
<1>2. RowOf(t) = (r * s + j) \div s /\ ColOf(t) = (r * s + j) % s /\ t.c = r * s + j
  BY DEF RowOf, ColOf
<1> HIDE DEF s
<1>3. r * s \in Nat
  BY <1>1, MulFacts
<1>4. (r * s + j) \div s = r /\ (r * s + j) % s = j
  BY <1>1, Quotient
<1>. QED
  BY <1>1, <1>2, <1>3, <1>4

(* The pieces of a length. *)
LEMMA Piece ==
  ASSUME NEW L \in Nat \ {0}, NEW s \in Nat \ {0}, NEW x \in Starts(L, s)
  PROVE  x \in Nat /\ x < L /\ Min2(L - x, s) \in 1..(L - x) /\ x + Min2(L - x, s) <= x + s
         /\ (x + s < L => Min2(L - x, s) = s) /\ (~(x + s < L) => x + Min2(L - x, s) = L)
<1>1. x \in Nat /\ x < L
  BY StartsFacts
<1>. QED
  BY <1>1 DEF Min2

LEMMA PiecesApart ==
  ASSUME NEW L \in Nat \ {0}, NEW s \in Nat \ {0}, NEW x \in Starts(L, s), NEW y \in Starts(L, s),
         x # y
  PROVE  x + Min2(L - x, s) <= y \/ y + Min2(L - y, s) <= x
<1>1. x \in Nat /\ y \in Nat /\ (x < y => x + s <= y) /\ (y < x => y + s <= x)
  BY StartsFacts
<1>2. Min2(L - x, s) \in Nat /\ Min2(L - y, s) \in Nat
      /\ x + Min2(L - x, s) <= x + s /\ y + Min2(L - y, s) <= y + s
  BY Piece
<1>. QED
  BY <1>1, <1>2

LEMMA PiecesCover ==
  ASSUME NEW L \in Nat \ {0}, NEW s \in Nat \ {0}, NEW i \in 0..(L - 1)
  PROVE  \E x \in Starts(L, s) : x <= i /\ i < x + Min2(L - x, s)
<1>1. PICK x \in Starts(L, s) : x <= i /\ i < x + s
  BY StartsFacts
<1>2. x \in Nat /\ x < L
  BY StartsFacts
<1>3. i < x + Min2(L - x, s)
  BY <1>1, <1>2 DEF Min2
<1>. QED
  BY <1>1, <1>3

(* A task at a row and a column that has done nothing yet. *)
Fresh(t, r, j, rows, cols, dep) ==
  /\ t.c = r * call.ldc + j /\ t.rows = rows /\ t.cols = cols /\ t.dep = dep
  /\ t.a = r * a_row_stride + depth * a_col_stride
  /\ t.b = depth * b_row_stride + j * b_col_stride
  /\ t.p = 0 /\ t.pos = 0 /\ KindOK(t) /\ IsTask(t)
  /\ r \in Nat /\ j \in 0..(n - 1) /\ rows \in 1..(m - r) /\ cols \in 1..(n - j)
  /\ dep = (IF t.loop = "none" THEN pb(depth) ELSE k) /\ t.loop \in {"none", "rows", "cols"}

LEMMA FreshTasks ==
  ASSUME CallOK(call), DepthOK, NEW t, NEW r, NEW j, NEW rows, NEW cols, NEW dep,
         Fresh(t, r, j, rows, cols, dep)
  PROVE  /\ AddOK(t) /\ RowOf(t) = r /\ ColOf(t) = j
         /\ \A i, c, p \in Nat : Todo(t, i, c, p) <=>
              /\ r <= i /\ i < r + rows /\ j <= c /\ c < j + cols
              /\ depth <= p /\ p < depth + dep
<1>1. r \in Nat /\ j \in 0..(n - 1) /\ t.c = r * call.ldc + j
  BY DEF Fresh
<1>2. t.c \in Nat /\ RowOf(t) = r /\ ColOf(t) = j
  BY <1>1, PlaceOf
<1>3. LoopOK(t)
  <2>1. 0 \in Starts(k, cblas_gemm_kc)
    BY DepthBlocks
  <2>2. t.rows \in Nat \ {0} /\ t.cols \in Nat \ {0}
    BY <1>1, Strides DEF Fresh
  <2>3. 0 \in Starts(t.rows, cblas_gemm_mc) /\ 0 \in Starts(t.cols, cblas_gemm_nb)
    BY <2>2, GemmAssumption, StartsFacts
  <2>4. t.loop \in {"none", "rows", "cols"} /\ t.p = 0 /\ t.pos = 0
        /\ t.dep = (IF t.loop = "none" THEN pb(depth) ELSE k)
    BY DEF Fresh
  <2>. QED
    BY <2>1, <2>3, <2>4 DEF LoopOK
<1>4. AddOK(t)
  BY <1>2, <1>3 DEF AddOK, Fresh
<1>5. ASSUME NEW i \in Nat, NEW c \in Nat, NEW p \in Nat
      PROVE  Todo(t, i, c, p) <=>
              /\ r <= i /\ i < r + rows /\ j <= c /\ c < j + cols
              /\ depth <= p /\ p < depth + dep
  <2>1. t.p = 0 /\ t.pos = 0 /\ t.rows = rows /\ t.cols = cols /\ t.dep = dep
    BY DEF Fresh
  <2>2. depth \in Nat
    BY DepthBlocks DEF DepthOK
  <2>3. depth + t.p = depth /\ r + t.pos = r /\ j + t.pos = j
    BY <1>1, <2>1, <2>2
  <2>. QED
    BY <1>2, <2>1, <2>3 DEF Todo
<1>. QED
  BY <1>2, <1>4, <1>5

(* A batch: its tasks are fit and apart, and cover C to a depth. *)
BatchOK(batch, dep) ==
  /\ \A t \in batch : AddOK(t)
  /\ \A t, u \in batch : t # u => AddedApart(t, u)
  /\ \A t \in batch : \A i, j, p \in Nat : Todo(t, i, j, p) => depth <= p
  /\ \A i \in 0..(m - 1), j \in 0..(n - 1), p \in 0..(k - 1) :
       depth <= p /\ p < depth + dep => \E t \in batch : Todo(t, i, j, p)

LEMMA SingleBatch ==
  ASSUME CallOK(call), DepthOK, plan = "single", depth = 0
  PROVE  BatchOK({SingleTask}, k)
<1> DEFINE t == SingleTask
<1>1. Fresh(t, 0, 0, m, n, k)
  <2>1. m \in Nat \ {0} /\ n \in Nat \ {0} /\ a_row_stride \in Nat /\ a_col_stride \in Nat
        /\ b_row_stride \in Nat /\ b_col_stride \in Nat /\ call.ldc \in Nat
    BY Strides
  <2>2. KindOK(t)
    BY DEF KindOK, SingleTask, Task
  <2>3. /\ t.c = 0 /\ t.a = 0 /\ t.b = 0 /\ t.rows = m /\ t.cols = n /\ t.dep = k
        /\ t.p = 0 /\ t.pos = 0 /\ t.loop = "rows" /\ IsTask(t)
    BY DEF SingleTask, Task, IsTask
  <2>4. \A s \in Nat : 0 * s = 0
    OBVIOUS
  <2> HIDE DEF t
  <2>. QED
    BY <2>1, <2>2, <2>3, <2>4 DEF Fresh
<1> HIDE DEF t
<1>2. /\ AddOK(t)
      /\ \A i, c, p \in Nat : Todo(t, i, c, p) <=>
           /\ 0 <= i /\ i < 0 + m /\ 0 <= c /\ c < 0 + n /\ depth <= p /\ p < depth + k
  BY <1>1, FreshTasks
<1>3. m \in Nat /\ n \in Nat /\ k \in Nat
  BY Strides
<1>4. \A i \in 0..(m - 1), j \in 0..(n - 1), p \in 0..(k - 1) :
        depth <= p /\ p < depth + k => Todo(t, i, j, p)
  BY <1>2, <1>3
<1>. QED
  BY <1>2, <1>4 DEF BatchOK, t

(* Tasks at the pieces of C's rows and columns. *)
Grid(batch, sr, sc, dep) ==
  /\ \A t \in batch : \E r \in Starts(m, sr), j \in Starts(n, sc) :
       Fresh(t, r, j, Min2(m - r, sr), Min2(n - j, sc), dep)
  /\ \A t, u \in batch : t # u => t.c # u.c
  /\ \A r \in Starts(m, sr), j \in Starts(n, sc) : \E t \in batch :
       Fresh(t, r, j, Min2(m - r, sr), Min2(n - j, sc), dep)

LEMMA GridBatch ==
  ASSUME CallOK(call), DepthOK, NEW batch, NEW sr \in Nat \ {0}, NEW sc \in Nat \ {0},
         NEW dep, Grid(batch, sr, sc, dep)
  PROVE  BatchOK(batch, dep)
<1>1. m \in Nat \ {0} /\ n \in Nat \ {0} /\ k \in Nat \ {0}
  BY Strides
<1>2. ASSUME NEW t \in batch PROVE AddOK(t) /\ \A i, j, p \in Nat : Todo(t, i, j, p) => depth <= p
  <2>1. PICK r \in Starts(m, sr), j \in Starts(n, sc) :
          Fresh(t, r, j, Min2(m - r, sr), Min2(n - j, sc), dep)
    BY DEF Grid
  <2>. QED
    BY <2>1, FreshTasks
<1>3. ASSUME NEW t \in batch, NEW u \in batch, t # u PROVE AddedApart(t, u)
  <2>1. PICK r \in Starts(m, sr), j \in Starts(n, sc) :
          Fresh(t, r, j, Min2(m - r, sr), Min2(n - j, sc), dep)
    BY DEF Grid
  <2>2. PICK v \in Starts(m, sr), w \in Starts(n, sc) :
          Fresh(u, v, w, Min2(m - v, sr), Min2(n - w, sc), dep)
    BY DEF Grid
  <2>3. RowOf(t) = r /\ ColOf(t) = j /\ RowOf(u) = v /\ ColOf(u) = w
    BY <2>1, <2>2, FreshTasks
  <2>4. /\ t.rows = Min2(m - r, sr) /\ t.cols = Min2(n - j, sc) /\ t.c = r * call.ldc + j
        /\ u.rows = Min2(m - v, sr) /\ u.cols = Min2(n - w, sc) /\ u.c = v * call.ldc + w
    BY <2>1, <2>2 DEF Fresh
  <2>5. r # v \/ j # w
    BY <1>3, <2>4 DEF Grid
  <2>6. r # v => r + t.rows <= v \/ v + u.rows <= r
    BY <1>1, <2>4, PiecesApart
  <2>7. j # w => j + t.cols <= w \/ w + u.cols <= j
    BY <1>1, <2>4, PiecesApart
  <2>. QED
    BY <2>3, <2>5, <2>6, <2>7 DEF AddedApart
<1>4. ASSUME NEW i \in 0..(m - 1), NEW j \in 0..(n - 1), NEW p \in 0..(k - 1),
             depth <= p, p < depth + dep
      PROVE  \E t \in batch : Todo(t, i, j, p)
  <2>1. PICK r \in Starts(m, sr) : r <= i /\ i < r + Min2(m - r, sr)
    BY <1>1, PiecesCover
  <2>2. PICK c \in Starts(n, sc) : c <= j /\ j < c + Min2(n - c, sc)
    BY <1>1, PiecesCover
  <2>3. PICK t \in batch : Fresh(t, r, c, Min2(m - r, sr), Min2(n - c, sc), dep)
    BY DEF Grid
  <2>4. i \in Nat /\ j \in Nat /\ p \in Nat
    BY <1>1
  <2>5. Todo(t, i, j, p)
    BY <1>4, <2>1, <2>2, <2>3, <2>4, FreshTasks
  <2>. QED
    BY <2>5
<1>. QED
  BY <1>2, <1>3, <1>4 DEF BatchOK

(* One piece is the whole length. *)
LEMMA OnePiece ==
  ASSUME NEW L \in Nat \ {0}
  PROVE  Starts(L, L) = {0} /\ Min2(L - 0, L) = L
<1>1. ASSUME NEW x \in Starts(L, L) PROVE x = 0
  <2>1. PICK q \in Nat : x = q * L /\ x < L
    BY StartsMember
  <2>2. q = 0
    <3> SUFFICES ASSUME 1 <= q PROVE FALSE
      BY <2>1
    <3>1. 1 * L <= q * L /\ q * L \in Nat
      BY <2>1, MulMonotone, MulFacts
    <3>. QED
      BY <2>1, <3>1
  <2>. QED
    BY <2>1, <2>2
<1>2. 0 \in Starts(L, L)
  BY StartsFacts
<1>3. Min2(L - 0, L) = L
  BY DEF Min2
<1>. QED
  BY <1>1, <1>2, <1>3

(* Addresses of different places of C are different.                        *)
LEMMA OnePlace ==
  ASSUME CallOK(call), NEW r \in Nat, NEW j \in 0..(n - 1), NEW u \in Nat, NEW v \in 0..(n - 1),
         r * call.ldc + j = u * call.ldc + v
  PROVE  r = u /\ j = v
<1> DEFINE s == call.ldc
<1>1. s \in Nat \ {0} /\ j \in Nat /\ v \in Nat /\ j < s /\ v < s /\ r * s + j = u * s + v
  BY Strides
<1> HIDE DEF s
<1>. QED
  BY <1>1, OneQuotient

LEMMA BandBatch ==
  ASSUME CallOK(call), DepthOK, plan = "bands", depth = 0
  PROVE  BatchOK(BandTasks, k)
<1> DEFINE F(r) == Task("kernel", "cols", r * a_row_stride, 0, r * call.ldc, Min2(m - r, Band), n, k)
<1>1. m \in Nat \ {0} /\ n \in Nat \ {0} /\ a_row_stride \in Nat /\ a_col_stride \in Nat
      /\ b_row_stride \in Nat /\ b_col_stride \in Nat /\ call.ldc \in Nat \ {0}
      /\ Band \in Nat \ {0}
  BY Strides, PieceSizes
<1>2. BandTasks = {F(r) : r \in Starts(m, Band)}
  BY DEF BandTasks
<1>3. ASSUME NEW r \in Starts(m, Band)
      PROVE  Fresh(F(r), r, 0, Min2(m - r, Band), n, k)
  <2> DEFINE t == F(r)
  <2>1. r \in Nat /\ Min2(m - r, Band) \in 1..(m - r)
    BY <1>1, Piece
  <2>2. KindOK(t)
    BY DEF KindOK, Task
  <2>3. /\ t.c = r * call.ldc /\ t.a = r * a_row_stride /\ t.b = 0
        /\ t.rows = Min2(m - r, Band) /\ t.cols = n /\ t.dep = k
        /\ t.p = 0 /\ t.pos = 0 /\ t.loop = "cols" /\ IsTask(t)
    BY DEF Task, IsTask
  <2> HIDE DEF t
  <2>4. r * call.ldc \in Nat /\ r * a_row_stride \in Nat
    BY <1>1, <2>1, MulFacts
  <2>5. (\A s \in Nat : 0 * s = 0) /\ (\A s \in Nat : s + 0 = s)
    OBVIOUS
  <2>6. /\ t.c = r * call.ldc + 0 /\ t.a = r * a_row_stride + depth * a_col_stride
        /\ t.b = depth * b_row_stride + 0 * b_col_stride
    BY <1>1, <2>3, <2>4, <2>5
  <2>7. 0 \in 0..(n - 1) /\ n \in 1..(n - 0)
    BY <1>1
  <2>8. k = (IF t.loop = "none" THEN pb(depth) ELSE k) /\ t.loop \in {"none", "rows", "cols"}
    BY <2>3
  <2>. QED
    BY <2>1, <2>2, <2>3, <2>6, <2>7, <2>8, Zenon DEF Fresh, t
<1> HIDE DEF F
<1>4. Grid(BandTasks, Band, n, k)
  <2>1. Starts(n, n) = {0} /\ Min2(n - 0, n) = n
    BY <1>1, OnePiece
  <2>2. ASSUME NEW t \in BandTasks
        PROVE  \E r \in Starts(m, Band), j \in Starts(n, n) :
                 Fresh(t, r, j, Min2(m - r, Band), Min2(n - j, n), k)
    BY <1>2, <1>3, <2>1
  <2>3. ASSUME NEW r \in Starts(m, Band), NEW j \in Starts(n, n)
        PROVE  \E t \in BandTasks : Fresh(t, r, j, Min2(m - r, Band), Min2(n - j, n), k)
    <3>1. F(r) \in BandTasks /\ Fresh(F(r), r, 0, Min2(m - r, Band), n, k) /\ j = 0
      BY <1>2, <1>3, <2>1
    <3>. QED
      BY <2>1, <3>1
  <2>4. ASSUME NEW t \in BandTasks, NEW u \in BandTasks, t.c = u.c PROVE t = u
    <3>1. PICK r \in Starts(m, Band) : t = F(r)
      BY <1>2
    <3>2. PICK v \in Starts(m, Band) : u = F(v)
      BY <1>2
    <3>3. r \in Nat /\ v \in Nat /\ t.c = r * call.ldc + 0 /\ u.c = v * call.ldc + 0
      BY <1>3, <3>1, <3>2 DEF Fresh
    <3>4. r * call.ldc + 0 = v * call.ldc + 0
      BY <2>4, <3>3, Zenon
    <3>5. 0 \in 0..(n - 1)
      BY <1>1
    <3>6. r = v
      BY <3>3, <3>4, <3>5, OnePlace
    <3>. QED
      BY <3>1, <3>2, <3>6
  <2>. QED
    BY <2>2, <2>3, <2>4 DEF Grid
<1>. QED
  BY <1>1, <1>4, GridBatch

LEMMA MacroBatchOK ==
  ASSUME CallOK(call), DepthOK, plan = "shared"
  PROVE  BatchOK(MacroTasks(depth), pb(depth))
<1> DEFINE F(r) == Task("macro", "none", r * a_row_stride + depth * a_col_stride,
                        depth * b_row_stride, r * call.ldc, Min2(m - r, Band), n, pb(depth))
           B == MacroTasks(depth)
           D == pb(depth)
<1>1. m \in Nat \ {0} /\ n \in Nat \ {0} /\ a_row_stride \in Nat /\ a_col_stride \in Nat
      /\ b_row_stride \in Nat /\ b_col_stride \in Nat /\ call.ldc \in Nat \ {0}
      /\ Band \in Nat \ {0} /\ depth \in Nat
  BY Strides, PieceSizes, DepthBlocks DEF DepthOK
<1>2. B = {F(r) : r \in Starts(m, Band)}
  BY DEF MacroTasks
<1>3. ASSUME NEW r \in Starts(m, Band)
      PROVE  Fresh(F(r), r, 0, Min2(m - r, Band), n, D)
  <2> DEFINE t == F(r)
  <2>1. r \in Nat /\ Min2(m - r, Band) \in 1..(m - r)
    BY <1>1, Piece
  <2>2. /\ t.c = r * call.ldc /\ t.a = r * a_row_stride + depth * a_col_stride
        /\ t.b = depth * b_row_stride /\ t.kind = "macro"
        /\ t.rows = Min2(m - r, Band) /\ t.cols = n /\ t.dep = D
        /\ t.p = 0 /\ t.pos = 0 /\ t.loop = "none" /\ IsTask(t)
    BY DEF Task, IsTask
  <2> HIDE DEF t, D
  <2>3. r * call.ldc \in Nat /\ r * a_row_stride \in Nat /\ depth * a_col_stride \in Nat
        /\ depth * b_row_stride \in Nat
    BY <1>1, <2>1, MulFacts
  <2>4. (\A s \in Nat : 0 * s = 0) /\ (\A s \in Nat : s + 0 = s)
    OBVIOUS
  <2>5. t.c = r * call.ldc + 0 /\ 0 \in 0..(n - 1)
    BY <1>1, <2>2, <2>3
  <2>6. ColOf(t) = 0
    BY <2>1, <2>5, PlaceOf
  <2>7. KindOK(t)
    BY <2>2, <2>6 DEF KindOK
  <2>8. t.b = depth * b_row_stride + 0 * b_col_stride
    BY <1>1, <2>2, <2>3, <2>4
  <2>. QED
    BY <1>1, <2>1, <2>2, <2>5, <2>7, <2>8 DEF Fresh, t, D
<1> HIDE DEF F, B, D
<1>4. Grid(B, Band, n, D)
  <2>1. Starts(n, n) = {0} /\ Min2(n - 0, n) = n
    BY <1>1, OnePiece
  <2>2. ASSUME NEW t \in B
        PROVE  \E r \in Starts(m, Band), j \in Starts(n, n) :
                 Fresh(t, r, j, Min2(m - r, Band), Min2(n - j, n), D)
    BY <1>2, <1>3, <2>1
  <2>3. ASSUME NEW r \in Starts(m, Band), NEW j \in Starts(n, n)
        PROVE  \E t \in B : Fresh(t, r, j, Min2(m - r, Band), Min2(n - j, n), D)
    <3>1. F(r) \in B /\ Fresh(F(r), r, 0, Min2(m - r, Band), n, D) /\ j = 0
      BY <1>2, <1>3, <2>1
    <3>. QED
      BY <2>1, <3>1
  <2>4. ASSUME NEW t \in B, NEW u \in B, t.c = u.c PROVE t = u
    <3>1. PICK r \in Starts(m, Band) : t = F(r)
      BY <1>2
    <3>2. PICK v \in Starts(m, Band) : u = F(v)
      BY <1>2
    <3>3. r \in Nat /\ v \in Nat /\ t.c = r * call.ldc + 0 /\ u.c = v * call.ldc + 0
      BY <1>3, <3>1, <3>2 DEF Fresh
    <3>4. r * call.ldc + 0 = v * call.ldc + 0
      BY <2>4, <3>3, Zenon
    <3>5. 0 \in 0..(n - 1)
      BY <1>1
    <3>6. r = v
      BY <3>3, <3>4, <3>5, OnePlace
    <3>. QED
      BY <3>1, <3>2, <3>6
  <2>. QED
    BY <2>2, <2>3, <2>4 DEF Grid
<1>5. BatchOK(B, D)
  BY <1>1, <1>4, GridBatch
<1>. QED
  BY <1>5 DEF B, D

LEMMA TileBatch ==
  ASSUME CallOK(call), DepthOK, plan = "tiles"
  PROVE  BatchOK(TileTasks(depth), pb(depth))
<1> DEFINE F(r, j) == Task("kernel", "none", r * a_row_stride + depth * a_col_stride,
                           depth * b_row_stride + j * b_col_stride, r * call.ldc + j,
                           Min2(m - r, mc_use), Min2(n - j, nb_use), pb(depth))
           B == TileTasks(depth)
           D == pb(depth)
<1>1. m \in Nat \ {0} /\ n \in Nat \ {0}
      /\ mc_use \in Nat \ {0} /\ nb_use \in Nat \ {0} /\ depth \in Nat
  BY Strides, PieceSizes, DepthBlocks DEF DepthOK
<1>2. B = {F(r, j) : r \in Starts(m, mc_use), j \in Starts(n, nb_use)}
  BY DEF TileTasks
<1>3. ASSUME NEW r \in Starts(m, mc_use), NEW j \in Starts(n, nb_use)
      PROVE  Fresh(F(r, j), r, j, Min2(m - r, mc_use), Min2(n - j, nb_use), D)
  <2> DEFINE t == F(r, j)
  <2>1. r \in Nat /\ Min2(m - r, mc_use) \in 1..(m - r)
    BY <1>1, Piece
  <2>2. j \in 0..(n - 1) /\ Min2(n - j, nb_use) \in 1..(n - j)
    <3>1. j \in Nat /\ j < n /\ Min2(n - j, nb_use) \in 1..(n - j)
      BY <1>1, Piece
    <3>. QED
      BY <1>1, <3>1
  <2>3. KindOK(t)
    BY DEF KindOK, Task
  <2>4. /\ t.c = r * call.ldc + j /\ t.a = r * a_row_stride + depth * a_col_stride
        /\ t.b = depth * b_row_stride + j * b_col_stride
        /\ t.rows = Min2(m - r, mc_use) /\ t.cols = Min2(n - j, nb_use) /\ t.dep = D
        /\ t.p = 0 /\ t.pos = 0 /\ t.loop = "none" /\ IsTask(t)
    BY DEF Task, IsTask
  <2> HIDE DEF t
  <2>. QED
    BY <2>1, <2>2, <2>3, <2>4 DEF Fresh, t
<1> HIDE DEF F, B, D
<1>4. Grid(B, mc_use, nb_use, D)
  <2>1. ASSUME NEW t \in B, NEW u \in B, t.c = u.c PROVE t = u
    <3>1. PICK r \in Starts(m, mc_use), j \in Starts(n, nb_use) : t = F(r, j)
      BY <1>2
    <3>2. PICK v \in Starts(m, mc_use), w \in Starts(n, nb_use) : u = F(v, w)
      BY <1>2
    <3>3. r \in Nat /\ v \in Nat /\ j \in 0..(n - 1) /\ w \in 0..(n - 1)
          /\ t.c = r * call.ldc + j /\ u.c = v * call.ldc + w
      BY <1>3, <3>1, <3>2 DEF Fresh
    <3>4. r = v /\ j = w
      BY <2>1, <3>3, OnePlace
    <3>. QED
      BY <3>1, <3>2, <3>4
  <2>2. ASSUME NEW t \in B
        PROVE  \E r \in Starts(m, mc_use), j \in Starts(n, nb_use) :
                 Fresh(t, r, j, Min2(m - r, mc_use), Min2(n - j, nb_use), D)
    BY <1>2, <1>3
  <2>3. ASSUME NEW r \in Starts(m, mc_use), NEW j \in Starts(n, nb_use)
        PROVE  \E t \in B : Fresh(t, r, j, Min2(m - r, mc_use), Min2(n - j, nb_use), D)
    BY <1>2, <1>3
  <2>. QED
    BY <2>1, <2>2, <2>3 DEF Grid
<1>5. BatchOK(B, D)
  BY <1>1, <1>4, GridBatch
<1>. QED
  BY <1>5 DEF B, D

-----------------------------------------------------------------------------
(* The kernel call a task makes next. *)

PlanOK == plan \in {"single", "bands", "tiles", "shared"} /\ (plan \in {"single", "bands"} => depth = 0)

(* Where it begins. *)
NextRow(t) == RowOf(t) + (IF t.loop = "rows" THEN t.pos ELSE 0)
NextCol(t) == ColOf(t) + (IF t.loop = "cols" THEN t.pos ELSE 0)
NextDep(t) == depth + t.p

(* The numbers of a task. *)
LEMMA TaskNumbers ==
  ASSUME CallOK(call), DepthOK, PlanOK, NEW t, AddOK(t)
  PROVE  /\ RowOf(t) \in Nat /\ ColOf(t) \in Nat
         /\ t.c = RowOf(t) * call.ldc + ColOf(t)
         /\ t.rows \in Nat \ {0} /\ t.cols \in Nat \ {0}
         /\ RowOf(t) + t.rows <= m /\ ColOf(t) + t.cols <= n
         /\ t.p \in Nat /\ t.pos \in Nat /\ depth \in Nat
         /\ NextDep(t) \in Starts(k, cblas_gemm_kc)
         /\ t.loop \in {"none", "rows", "cols"}
         /\ t.loop = "none" => t.p = 0 /\ t.pos = 0 /\ t.dep = pb(depth)
         /\ t.loop # "none" => depth = 0 /\ t.dep = k
         /\ t.loop = "rows" => t.pos \in Starts(t.rows, cblas_gemm_mc)
         /\ t.loop = "cols" => t.pos \in Starts(t.cols, cblas_gemm_nb)
<1>1. m \in Nat \ {0} /\ n \in Nat \ {0} /\ call.ldc \in Nat \ {0}
  BY Strides
<1>2. t.c \in Nat /\ t.rows \in 1..(m - RowOf(t)) /\ t.cols \in 1..(n - ColOf(t))
      /\ KindOK(t) /\ LoopOK(t)
  BY DEF AddOK
<1>3. RowOf(t) \in Nat /\ ColOf(t) \in Nat /\ t.c = RowOf(t) * call.ldc + ColOf(t)
  <2> DEFINE s == call.ldc
             c == t.c
  <2>1. s \in Nat \ {0} /\ c \in Nat /\ RowOf(t) = c \div s /\ ColOf(t) = c % s
    BY <1>1, <1>2 DEF RowOf, ColOf
  <2> HIDE DEF s, c
  <2>2. c \div s \in Nat /\ c % s \in Nat /\ c = s * (c \div s) + (c % s)
    BY <2>1, DivMod
  <2>3. s * (c \div s) = (c \div s) * s
    BY <2>1, <2>2, MulFacts
  <2>. QED
    BY <2>1, <2>2, <2>3 DEF s, c
<1>4. t.rows \in Nat \ {0} /\ t.cols \in Nat \ {0} /\ RowOf(t) + t.rows <= m /\ ColOf(t) + t.cols <= n
  BY <1>1, <1>2, <1>3
<1>5. t.loop \in {"none", "rows", "cols"} /\ (t.loop # "none" => depth = 0)
  BY <1>2 DEF KindOK, PlanOK
<1>6. depth \in Nat
  BY DepthBlocks DEF DepthOK
<1>7. \A x \in Starts(k, cblas_gemm_kc) : x \in Nat
  BY DepthBlocks
<1>8. CASE t.loop = "none"
  <2>1. t.p = 0 /\ t.pos = 0 /\ t.dep = pb(depth)
    BY <1>2, <1>8 DEF LoopOK
  <2>2. NextDep(t) = depth
    BY <1>6, <2>1 DEF NextDep
  <2>. QED
    BY <1>3, <1>4, <1>5, <1>6, <1>8, <2>1, <2>2 DEF DepthOK
<1>9. CASE t.loop = "rows"
  <2>1. t.dep = k /\ t.p \in Starts(k, cblas_gemm_kc) /\ t.pos \in Starts(t.rows, cblas_gemm_mc)
    BY <1>2, <1>9 DEF LoopOK
  <2>2. t.p \in Nat /\ t.pos \in Nat
    BY <1>4, <1>7, <2>1, GemmAssumption, StartsFacts
  <2>3. NextDep(t) = t.p
    BY <1>5, <1>9, <2>2 DEF NextDep
  <2>. QED
    BY <1>3, <1>4, <1>5, <1>6, <1>9, <2>1, <2>2, <2>3
<1>10. CASE t.loop = "cols"
  <2>1. t.dep = k /\ t.p \in Starts(k, cblas_gemm_kc) /\ t.pos \in Starts(t.cols, cblas_gemm_nb)
    BY <1>2, <1>10 DEF LoopOK
  <2>2. t.p \in Nat /\ t.pos \in Nat
    BY <1>4, <1>7, <2>1, GemmAssumption, StartsFacts
  <2>3. NextDep(t) = t.p
    BY <1>5, <1>10, <2>2 DEF NextDep
  <2>. QED
    BY <1>3, <1>4, <1>5, <1>6, <1>10, <2>1, <2>2, <2>3
<1>. QED
  BY <1>5, <1>8, <1>9, <1>10

(* Its operands begin where its rows, columns and depth do. *)
LEMMA NextBlock ==
  ASSUME CallOK(call), DepthOK, PlanOK, NEW t, AddOK(t)
  PROVE  LET g == KernelArgs(t)
         IN  /\ BlockAt(g, NextRow(t), NextCol(t), NextDep(t))
             /\ g.dep = pb(NextDep(t)) /\ g.dep = Min2(t.dep - t.p, cblas_gemm_kc)
             /\ g.rows = IF t.loop = "rows" THEN Min2(t.rows - t.pos, cblas_gemm_mc) ELSE t.rows
             /\ g.cols = IF t.loop = "cols" THEN Min2(t.cols - t.pos, cblas_gemm_nb) ELSE t.cols
             /\ t.loop = "none" => g = t
<1> DEFINE g == KernelArgs(t)
           R == RowOf(t)
           C == ColOf(t)
           ldc == call.ldc
           ar == a_row_stride
           ac == a_col_stride
           br == b_row_stride
           bc == b_col_stride
           p == t.p
           pos == t.pos
           D == NextDep(t)
<1>1. ldc \in Nat /\ ar \in Nat /\ ac \in Nat /\ br \in Nat /\ bc \in Nat /\ m \in Nat /\ n \in Nat
      /\ k \in Nat
  BY Strides
<1>2. /\ R \in Nat /\ C \in Nat /\ t.c = R * ldc + C
      /\ t.rows \in Nat \ {0} /\ t.cols \in Nat \ {0} /\ R + t.rows <= m /\ C + t.cols <= n
      /\ p \in Nat /\ pos \in Nat /\ depth \in Nat /\ D \in Starts(k, cblas_gemm_kc)
      /\ t.loop \in {"none", "rows", "cols"}
      /\ t.loop = "none" => t.p = 0 /\ t.pos = 0 /\ t.dep = pb(depth)
      /\ t.loop # "none" => depth = 0 /\ t.dep = k
      /\ t.loop = "rows" => t.pos \in Starts(t.rows, cblas_gemm_mc)
      /\ t.loop = "cols" => t.pos \in Starts(t.cols, cblas_gemm_nb)
  BY TaskNumbers
<1>3. t.a = R * ar + depth * ac /\ t.b = depth * br + C * bc /\ IsTask(t)
  BY DEF AddOK
<1>4. D = depth + p
  BY DEF NextDep
<1>5. pb(D) \in Nat \ {0} /\ D + pb(D) <= k /\ pb(D) = Min2(k - D, cblas_gemm_kc)
  BY <1>2, DepthBlocks DEF pb
<1>6. \A r \in Nat : (R + r) * ldc = R * ldc + r * ldc /\ (R + r) * ar = R * ar + r * ar
                     /\ r * ldc \in Nat /\ r * ar \in Nat /\ (C + r) * bc = C * bc + r * bc
                     /\ r * bc \in Nat
  BY <1>1, <1>2, MulFacts
<1>7. (depth + p) * ac = depth * ac + p * ac /\ (depth + p) * br = depth * br + p * br
      /\ depth * ac \in Nat /\ p * ac \in Nat /\ depth * br \in Nat /\ p * br \in Nat
  <2>1. p \in Nat /\ depth \in Nat
    BY <1>2
  <2> HIDE DEF ac, br, p
  <2>2. (depth + p) * ac = depth * ac + p * ac /\ depth * ac \in Nat /\ p * ac \in Nat
    BY <1>1, <2>1, MulFacts
  <2>3. (depth + p) * br = depth * br + p * br /\ depth * br \in Nat /\ p * br \in Nat
    BY <1>1, <2>1, MulFacts
  <2>. QED
    BY <2>2, <2>3
<1>8. R * ldc \in Nat /\ R * ar \in Nat /\ C * bc \in Nat
  BY <1>1, <1>2, MulFacts
<1>9. CASE t.loop = "none"
  <2>1. g = t
    BY <1>9 DEF KernelArgs
  <2>2. p = 0 /\ D = depth /\ t.dep = pb(D)
    BY <1>2, <1>4, <1>9
  <2>3. NextRow(t) = R /\ NextCol(t) = C
    BY <1>2, <1>9 DEF NextRow, NextCol
  <2>4. t.dep = Min2(t.dep - t.p, cblas_gemm_kc)
    <3>1. t.dep \in Nat /\ t.dep <= cblas_gemm_kc /\ cblas_gemm_kc \in Nat /\ t.p = 0
      BY <1>2, <2>2, DepthBlocks
    <3>. QED
      BY <3>1 DEF Min2
  <2>. QED
    BY <1>2, <1>3, <1>5, <1>9, <2>1, <2>2, <2>3, <2>4 DEF BlockAt
<1>10. CASE t.loop = "rows"
  <2> DEFINE h == Min2(t.rows - pos, cblas_gemm_mc)
             db == Min2(t.dep - p, cblas_gemm_kc)
  <2>1. /\ g.a = t.a + p * ac + pos * ar /\ g.b = t.b + p * br /\ g.c = t.c + pos * ldc
        /\ g.rows = h /\ g.cols = t.cols /\ g.dep = db
    BY <1>3, <1>10 DEF KernelArgs, IsTask
  <2>2. depth = 0 /\ t.dep = k /\ D = p /\ db = pb(D)
    BY <1>2, <1>4, <1>10 DEF pb
  <2>3. NextRow(t) = R + pos /\ NextCol(t) = C
    BY <1>2, <1>10 DEF NextRow, NextCol
  <2>4. h \in 1..(t.rows - pos)
    BY <1>2, <1>10, GemmAssumption, Piece
  <2> HIDE DEF h, db, g, R, C, ldc, ar, ac, br, bc, p, pos, D
  <2>5. g.c = (R + pos) * ldc + C
    BY <1>2, <1>6, <1>8, <2>1
  <2>6. g.a = (R + pos) * ar + D * ac
    <3>1. (R + pos) * ar = R * ar + pos * ar /\ pos * ar \in Nat
      BY <1>2, <1>6
    <3>. QED
      BY <1>3, <1>4, <1>7, <1>8, <2>1, <3>1
  <2>7. g.b = D * br + C * bc
    BY <1>3, <1>4, <1>7, <1>8, <2>1
  <2>8. h \in Nat /\ R + pos + h <= m /\ R + pos \in Nat
    BY <1>1, <1>2, <2>4
  <2>9. D \in Nat
    BY <1>2, <1>4
  <2>10. BlockAt(g, R + pos, C, D) /\ g.dep = pb(D)
    BY <1>2, <1>5, <2>1, <2>2, <2>5, <2>6, <2>7, <2>8, <2>9
       DEF BlockAt, ldc, ar, ac, br, bc
  <2>. QED
    BY <1>10, <2>1, <2>2, <2>3, <2>10 DEF g, h, db, R, C, D, pos, p
<1>11. CASE t.loop = "cols"
  <2> DEFINE h == Min2(t.cols - pos, cblas_gemm_nb)
             db == Min2(t.dep - p, cblas_gemm_kc)
  <2>1. /\ g.a = t.a + p * ac /\ g.b = t.b + p * br + pos * bc /\ g.c = t.c + pos
        /\ g.rows = t.rows /\ g.cols = h /\ g.dep = db
    BY <1>3, <1>11 DEF KernelArgs, IsTask
  <2>2. depth = 0 /\ t.dep = k /\ D = p /\ db = pb(D)
    BY <1>2, <1>4, <1>11 DEF pb
  <2>3. NextRow(t) = R /\ NextCol(t) = C + pos
    BY <1>2, <1>11 DEF NextRow, NextCol
  <2>4. h \in 1..(t.cols - pos)
    BY <1>2, <1>11, GemmAssumption, Piece
  <2> HIDE DEF h, db, g, R, C, ldc, ar, ac, br, bc, p, pos, D
  <2>5. g.c = R * ldc + (C + pos)
    BY <1>2, <1>8, <2>1
  <2>6. g.a = R * ar + D * ac
    BY <1>3, <1>4, <1>7, <1>8, <2>1
  <2>7. g.b = D * br + (C + pos) * bc
    <3>1. (C + pos) * bc = C * bc + pos * bc /\ pos * bc \in Nat
      BY <1>2, <1>6
    <3>. QED
      BY <1>3, <1>4, <1>7, <1>8, <2>1, <3>1
  <2>8. h \in Nat /\ C + pos + h <= n /\ C + pos \in Nat
    BY <1>1, <1>2, <2>4
  <2>9. D \in Nat
    BY <1>2, <1>4
  <2>10. BlockAt(g, R, C + pos, D) /\ g.dep = pb(D)
    BY <1>2, <1>5, <2>1, <2>2, <2>5, <2>6, <2>7, <2>8, <2>9
       DEF BlockAt, ldc, ar, ac, br, bc
  <2>. QED
    BY <1>11, <2>1, <2>2, <2>3, <2>10 DEF g, h, db, R, C, D, pos, p
<1>. QED
  BY <1>2, <1>9, <1>10, <1>11

(* What is left of it then. *)
LEMMA TodoParts ==
  ASSUME NEW t, NEW i, NEW j, NEW p
  PROVE  Todo(t, i, j, p) <=>
           /\ RowOf(t) <= i /\ i < RowOf(t) + t.rows /\ ColOf(t) <= j /\ j < ColOf(t) + t.cols
           /\ NextDep(t) <= p /\ p < depth + t.dep
           /\ \/ NextDep(t) + Min2(t.dep - t.p, cblas_gemm_kc) <= p
              \/ /\ t.loop = "rows" => RowOf(t) + t.pos <= i
                 /\ t.loop = "cols" => ColOf(t) + t.pos <= j
BY DEF Todo, NextDep

(* The same task further on. *)
Later(u, t, p, pos) ==
  /\ DOMAIN u = DOMAIN t /\ u.kind = t.kind /\ u.loop = t.loop
  /\ u.a = t.a /\ u.b = t.b /\ u.c = t.c /\ u.rows = t.rows /\ u.cols = t.cols /\ u.dep = t.dep
  /\ u.p = p /\ u.pos = pos

LEMMA LaterOK ==
  ASSUME CallOK(call), DepthOK, PlanOK, NEW t, AddOK(t), t.loop # "none",
         NEW u, NEW p \in Starts(k, cblas_gemm_kc), NEW pos, Later(u, t, p, pos),
         IF t.loop = "rows" THEN pos \in Starts(t.rows, cblas_gemm_mc)
                            ELSE pos \in Starts(t.cols, cblas_gemm_nb)
  PROVE  AddOK(u) /\ RowOf(u) = RowOf(t) /\ ColOf(u) = ColOf(t)
<1>1. RowOf(u) = RowOf(t) /\ ColOf(u) = ColOf(t)
  BY DEF Later, RowOf, ColOf
<1>2. KindOK(u)
  <2>1. KindOK(t)
    BY DEF AddOK
  <2>. QED
    BY <1>1, <2>1 DEF KindOK, Later, PlanOK
<1>3. LoopOK(u)
  <2>1. t.loop \in {"rows", "cols"} /\ t.dep = k
    BY TaskNumbers
  <2>2. u.loop = t.loop /\ u.dep = k /\ u.p = p /\ u.pos = pos /\ u.rows = t.rows /\ u.cols = t.cols
    BY <2>1 DEF Later
  <2>. QED
    BY <2>1, <2>2 DEF LoopOK
<1>4. IsTask(u)
  BY DEF AddOK, IsTask, Later
<1>5. /\ u.c \in Nat /\ u.rows \in 1..(m - RowOf(u)) /\ u.cols \in 1..(n - ColOf(u))
      /\ u.a = RowOf(u) * a_row_stride + depth * a_col_stride
      /\ u.b = depth * b_row_stride + ColOf(u) * b_col_stride
  BY <1>1 DEF AddOK, Later
<1>. QED
  BY <1>1, <1>2, <1>3, <1>4, <1>5 DEF AddOK

(* A task and its next block. *)
InNext(t, i, j, p) == InBox(i, j, p, KernelArgs(t), NextRow(t), NextCol(t), NextDep(t))

Splits(t) ==
  /\ \A u \in After(t) :
       /\ AddOK(u) /\ RowOf(u) = RowOf(t) /\ ColOf(u) = ColOf(t)
       /\ u.rows = t.rows /\ u.cols = t.cols
  /\ \A i, j, p \in Nat :
       /\ Todo(t, i, j, p) <=> InNext(t, i, j, p) \/ \E u \in After(t) : Todo(u, i, j, p)
       /\ \A u \in After(t) : ~(Todo(u, i, j, p) /\ InNext(t, i, j, p))

LEMMA AfterNone ==
  ASSUME CallOK(call), DepthOK, PlanOK, NEW t, AddOK(t), t.loop = "none"
  PROVE  Splits(t)
<1>1. After(t) = {}
  BY DEF After
<1> DEFINE R == RowOf(t)
           C == ColOf(t)
           D == NextDep(t)
<1>2. /\ R \in Nat /\ C \in Nat /\ t.rows \in Nat /\ t.cols \in Nat /\ depth \in Nat
      /\ t.p = 0 /\ t.pos = 0 /\ D \in Starts(k, cblas_gemm_kc)
  BY TaskNumbers
<1>3. D = depth
  BY <1>2 DEF NextDep
<1>4. NextRow(t) = R /\ NextCol(t) = C
  BY <1>2 DEF NextRow, NextCol
<1>5. KernelArgs(t) = t /\ t.dep = pb(D)
  BY NextBlock
<1>6. pb(D) \in Nat
  BY <1>2, DepthBlocks
<1>7. ASSUME NEW i \in Nat, NEW j \in Nat, NEW p \in Nat
      PROVE  Todo(t, i, j, p) <=> InNext(t, i, j, p)
  <2>1. InNext(t, i, j, p) <=>
          /\ R <= i /\ i < R + t.rows /\ C <= j /\ j < C + t.cols /\ D <= p /\ p < D + t.dep
    BY <1>4, <1>5 DEF InNext, InBox
  <2> HIDE DEF R, C, D
  <2>2. Todo(t, i, j, p) <=>
          /\ R <= i /\ i < R + t.rows /\ C <= j /\ j < C + t.cols /\ D <= p /\ p < D + t.dep
    BY <1>3, TodoParts DEF R, C, D
  <2>. QED
    BY <2>1, <2>2
<1>. QED
  BY <1>1, <1>7 DEF Splits

(* Rows: the next block, the blocks under it, and the depth after it.       *)
LEMMA AfterRows ==
  ASSUME CallOK(call), DepthOK, PlanOK, NEW t, AddOK(t), t.loop = "rows"
  PROVE  Splits(t)
<1> DEFINE R == RowOf(t)
           C == ColOf(t)
           D == NextDep(t)
           pos == t.pos
           rows == t.rows
           cols == t.cols
           mc == cblas_gemm_mc
           kc == cblas_gemm_kc
           h == Min2(rows - pos, mc)
           db == Min2(t.dep - t.p, kc)
           Rect(i, j, p) == /\ R <= i /\ i < R + rows /\ C <= j /\ j < C + cols /\ p < k
<1>1. /\ R \in Nat /\ C \in Nat /\ rows \in Nat \ {0} /\ cols \in Nat \ {0} /\ depth = 0
      /\ t.p \in Nat /\ pos \in Nat /\ D \in Starts(k, kc) /\ t.dep = k
      /\ pos \in Starts(rows, mc) /\ mc \in Nat \ {0} /\ kc \in Nat \ {0} /\ k \in Nat \ {0}
  BY TaskNumbers, Strides, GemmAssumption
<1>2. D = t.p
  BY <1>1 DEF NextDep
<1>3. /\ D \in Nat /\ pb(D) \in Nat \ {0} /\ db = pb(D) /\ D + db <= k
      /\ D + kc < k => db = kc /\ D + kc \in Starts(k, kc)
      /\ ~(D + kc < k) => D + db = k
  BY <1>1, <1>2, DepthBlocks DEF pb
<1>4. /\ h \in 1..(rows - pos) /\ pos < rows
      /\ pos + mc < rows => h = mc /\ pos + mc \in Starts(rows, mc)
      /\ ~(pos + mc < rows) => pos + h = rows
  BY <1>1, Piece, StartsFacts
<1>5. \A i, j, p : InNext(t, i, j, p) <=>
        /\ R + pos <= i /\ i < R + pos + h /\ C <= j /\ j < C + cols /\ D <= p /\ p < D + db
  <2>1. NextRow(t) = R + pos /\ NextCol(t) = C
    BY <1>1 DEF NextRow, NextCol
  <2>2. KernelArgs(t).rows = h /\ KernelArgs(t).cols = cols /\ KernelArgs(t).dep = db
    BY NextBlock
  <2>. QED
    BY <2>1, <2>2 DEF InNext, InBox
<1>6. \A i, j, p \in Nat : Todo(t, i, j, p) <=>
        Rect(i, j, p) /\ D <= p /\ (D + db <= p \/ R + pos <= i)
  <2>1. depth + t.dep = k
    BY <1>1
  <2>. QED
    BY <2>1, TodoParts
<1> DEFINE u1 == [t EXCEPT !.pos = @ + mc]
           u2 == [t EXCEPT !.pos = 0, !.p = @ + kc]
<1>7. After(t) = IF pos + mc < rows THEN {u1} ELSE IF t.p + kc < t.dep THEN {u2} ELSE {}
  BY DEF After
<1>8. Later(u1, t, t.p, pos + mc) /\ Later(u2, t, t.p + kc, 0)
  BY DEF AddOK, IsTask, Later
<1> HIDE DEF u1, u2
<1>9. CASE pos + mc < rows
  <2>1. After(t) = {u1}
    BY <1>7, <1>9
  <2>2. AddOK(u1) /\ RowOf(u1) = R /\ ColOf(u1) = C
    BY <1>1, <1>2, <1>4, <1>8, <1>9, LaterOK
  <2>3. u1.rows = rows /\ u1.cols = cols /\ u1.dep = t.dep /\ u1.p = t.p /\ u1.pos = pos + mc
        /\ u1.loop = "rows"
    BY <1>8 DEF Later
  <2>4. NextDep(u1) = D
    BY <2>3 DEF NextDep
  <2>5. \A i, j, p \in Nat : Todo(u1, i, j, p) <=>
          Rect(i, j, p) /\ D <= p /\ (D + db <= p \/ R + (pos + mc) <= i)
    <3>1. depth + u1.dep = k
      BY <1>1, <2>3
    <3>. QED
      BY <2>2, <2>3, <2>4, <3>1, TodoParts
  <2> HIDE DEF R, C, D, pos, rows, cols, mc, kc, h, db
  <2>6. ASSUME NEW i \in Nat, NEW j \in Nat, NEW p \in Nat
        PROVE  /\ Todo(t, i, j, p) <=> InNext(t, i, j, p) \/ Todo(u1, i, j, p)
               /\ ~(Todo(u1, i, j, p) /\ InNext(t, i, j, p))
    <3>1. InNext(t, i, j, p) <=>
        /\ R + pos <= i /\ i < R + pos + mc /\ C <= j /\ j < C + cols /\ D <= p /\ p < D + db
      BY <1>4, <1>5, <1>9
    <3>2. Todo(t, i, j, p) <=> Rect(i, j, p) /\ D <= p /\ (D + db <= p \/ R + pos <= i)
      BY <1>6
    <3>3. Todo(u1, i, j, p) <=> Rect(i, j, p) /\ D <= p /\ (D + db <= p \/ R + (pos + mc) <= i)
      BY <2>5
    <3>. QED
      BY <1>1, <1>3, <1>4, <1>9, <3>1, <3>2, <3>3
  <2>. QED
    BY <2>1, <2>2, <2>3, <2>6 DEF Splits, R, C, rows, cols
<1>10. CASE ~(pos + mc < rows) /\ t.p + kc < t.dep
  <2>1. After(t) = {u2} /\ D + kc < k
    BY <1>1, <1>2, <1>7, <1>10
  <2>2. t.p + kc \in Starts(k, kc) /\ 0 \in Starts(rows, mc)
    BY <1>1, <1>2, <1>3, <2>1, StartsFacts
  <2>3. AddOK(u2) /\ RowOf(u2) = R /\ ColOf(u2) = C
    BY <1>1, <1>8, <2>2, LaterOK
  <2>4. u2.rows = rows /\ u2.cols = cols /\ u2.dep = t.dep /\ u2.p = t.p + kc /\ u2.pos = 0
        /\ u2.loop = "rows"
    BY <1>8 DEF Later
  <2>5. NextDep(u2) = D + kc
    BY <1>1, <1>2, <2>4 DEF NextDep
  <2>6. \A i, j, p \in Nat : Todo(u2, i, j, p) <=> Rect(i, j, p) /\ D + kc <= p
    <3>1. depth + u2.dep = k /\ R + 0 = R
      BY <1>1, <2>4
    <3>. QED
      BY <2>3, <2>4, <2>5, <3>1, TodoParts
  <2> HIDE DEF R, C, D, pos, rows, cols, mc, kc, h, db
  <2>7. ASSUME NEW i \in Nat, NEW j \in Nat, NEW p \in Nat
        PROVE  /\ Todo(t, i, j, p) <=> InNext(t, i, j, p) \/ Todo(u2, i, j, p)
               /\ ~(Todo(u2, i, j, p) /\ InNext(t, i, j, p))
    <3>1. InNext(t, i, j, p) <=>
        /\ R + pos <= i /\ i < R + pos + h /\ C <= j /\ j < C + cols /\ D <= p /\ p < D + db
      BY <1>5
    <3>2. Todo(t, i, j, p) <=> Rect(i, j, p) /\ D <= p /\ (D + db <= p \/ R + pos <= i)
      BY <1>6
    <3>3. Todo(u2, i, j, p) <=> Rect(i, j, p) /\ D + kc <= p
      BY <2>6
    <3>4. db = kc /\ pos + h = rows /\ h \in Nat
      BY <1>1, <1>3, <1>4, <1>10, <2>1
    <3>. QED
      BY <1>1, <1>3, <1>4, <3>1, <3>2, <3>3, <3>4
  <2>. QED
    BY <2>1, <2>3, <2>4, <2>7 DEF Splits, R, C, rows, cols
<1>11. CASE ~(pos + mc < rows) /\ ~(t.p + kc < t.dep)
  <2>1. After(t) = {} /\ ~(D + kc < k)
    BY <1>1, <1>2, <1>7, <1>11
  <2> HIDE DEF R, C, D, pos, rows, cols, mc, kc, h, db
  <2>2. ASSUME NEW i \in Nat, NEW j \in Nat, NEW p \in Nat
        PROVE  Todo(t, i, j, p) <=> InNext(t, i, j, p)
    <3>1. InNext(t, i, j, p) <=>
        /\ R + pos <= i /\ i < R + pos + h /\ C <= j /\ j < C + cols /\ D <= p /\ p < D + db
      BY <1>5
    <3>2. Todo(t, i, j, p) <=> Rect(i, j, p) /\ D <= p /\ (D + db <= p \/ R + pos <= i)
      BY <1>6
    <3>3. D + db = k /\ pos + h = rows /\ h \in Nat /\ db \in Nat
      BY <1>1, <1>3, <1>4, <1>11, <2>1
    <3>. QED
      BY <1>1, <1>3, <1>4, <3>1, <3>2, <3>3
  <2>. QED
    BY <2>1, <2>2 DEF Splits
<1>. QED
  BY <1>9, <1>10, <1>11

(* Columns: the next block, the blocks beside it, and the depth after it.   *)
LEMMA AfterCols ==
  ASSUME CallOK(call), DepthOK, PlanOK, NEW t, AddOK(t), t.loop = "cols"
  PROVE  Splits(t)
<1> DEFINE R == RowOf(t)
           C == ColOf(t)
           D == NextDep(t)
           pos == t.pos
           rows == t.rows
           cols == t.cols
           nb == cblas_gemm_nb
           kc == cblas_gemm_kc
           h == Min2(cols - pos, nb)
           db == Min2(t.dep - t.p, kc)
           Rect(i, j, p) == /\ R <= i /\ i < R + rows /\ C <= j /\ j < C + cols /\ p < k
<1>1. /\ R \in Nat /\ C \in Nat /\ rows \in Nat \ {0} /\ cols \in Nat \ {0} /\ depth = 0
      /\ t.p \in Nat /\ pos \in Nat /\ D \in Starts(k, kc) /\ t.dep = k
      /\ pos \in Starts(cols, nb) /\ nb \in Nat \ {0} /\ kc \in Nat \ {0} /\ k \in Nat \ {0}
  BY TaskNumbers, Strides, GemmAssumption
<1>2. D = t.p
  BY <1>1 DEF NextDep
<1>3. /\ D \in Nat /\ pb(D) \in Nat \ {0} /\ db = pb(D) /\ D + db <= k
      /\ D + kc < k => db = kc /\ D + kc \in Starts(k, kc)
      /\ ~(D + kc < k) => D + db = k
  BY <1>1, <1>2, DepthBlocks DEF pb
<1>4. /\ h \in 1..(cols - pos) /\ pos < cols
      /\ pos + nb < cols => h = nb /\ pos + nb \in Starts(cols, nb)
      /\ ~(pos + nb < cols) => pos + h = cols
  BY <1>1, Piece, StartsFacts
<1>5. \A i, j, p : InNext(t, i, j, p) <=>
        /\ R <= i /\ i < R + rows /\ C + pos <= j /\ j < C + pos + h /\ D <= p /\ p < D + db
  <2>1. NextRow(t) = R /\ NextCol(t) = C + pos
    BY <1>1 DEF NextRow, NextCol
  <2>2. KernelArgs(t).rows = rows /\ KernelArgs(t).cols = h /\ KernelArgs(t).dep = db
    BY NextBlock
  <2>. QED
    BY <2>1, <2>2 DEF InNext, InBox
<1>6. \A i, j, p \in Nat : Todo(t, i, j, p) <=>
        Rect(i, j, p) /\ D <= p /\ (D + db <= p \/ C + pos <= j)
  <2>1. depth + t.dep = k
    BY <1>1
  <2>. QED
    BY <2>1, TodoParts
<1> DEFINE u1 == [t EXCEPT !.pos = @ + nb]
           u2 == [t EXCEPT !.pos = 0, !.p = @ + kc]
<1>7. After(t) = IF pos + nb < cols THEN {u1} ELSE IF t.p + kc < t.dep THEN {u2} ELSE {}
  BY DEF After
<1>8. Later(u1, t, t.p, pos + nb) /\ Later(u2, t, t.p + kc, 0)
  BY DEF AddOK, IsTask, Later
<1> HIDE DEF u1, u2
<1>9. CASE pos + nb < cols
  <2>1. After(t) = {u1}
    BY <1>7, <1>9
  <2>2. AddOK(u1) /\ RowOf(u1) = R /\ ColOf(u1) = C
    BY <1>1, <1>2, <1>4, <1>8, <1>9, LaterOK
  <2>3. u1.rows = rows /\ u1.cols = cols /\ u1.dep = t.dep /\ u1.p = t.p /\ u1.pos = pos + nb
        /\ u1.loop = "cols"
    BY <1>8 DEF Later
  <2>4. NextDep(u1) = D
    BY <2>3 DEF NextDep
  <2>5. \A i, j, p \in Nat : Todo(u1, i, j, p) <=>
          Rect(i, j, p) /\ D <= p /\ (D + db <= p \/ C + (pos + nb) <= j)
    <3>1. depth + u1.dep = k
      BY <1>1, <2>3
    <3>. QED
      BY <2>2, <2>3, <2>4, <3>1, TodoParts
  <2> HIDE DEF R, C, D, pos, rows, cols, nb, kc, h, db
  <2>6. ASSUME NEW i \in Nat, NEW j \in Nat, NEW p \in Nat
        PROVE  /\ Todo(t, i, j, p) <=> InNext(t, i, j, p) \/ Todo(u1, i, j, p)
               /\ ~(Todo(u1, i, j, p) /\ InNext(t, i, j, p))
    <3>1. InNext(t, i, j, p) <=>
        /\ R <= i /\ i < R + rows /\ C + pos <= j /\ j < C + pos + nb /\ D <= p /\ p < D + db
      BY <1>4, <1>5, <1>9
    <3>2. Todo(t, i, j, p) <=> Rect(i, j, p) /\ D <= p /\ (D + db <= p \/ C + pos <= j)
      BY <1>6
    <3>3. Todo(u1, i, j, p) <=> Rect(i, j, p) /\ D <= p /\ (D + db <= p \/ C + (pos + nb) <= j)
      BY <2>5
    <3>. QED
      BY <1>1, <1>3, <1>4, <1>9, <3>1, <3>2, <3>3
  <2>. QED
    BY <2>1, <2>2, <2>3, <2>6 DEF Splits, R, C, rows, cols
<1>10. CASE ~(pos + nb < cols) /\ t.p + kc < t.dep
  <2>1. After(t) = {u2} /\ D + kc < k
    BY <1>1, <1>2, <1>7, <1>10
  <2>2. t.p + kc \in Starts(k, kc) /\ 0 \in Starts(cols, nb)
    BY <1>1, <1>2, <1>3, <2>1, StartsFacts
  <2>3. AddOK(u2) /\ RowOf(u2) = R /\ ColOf(u2) = C
    BY <1>1, <1>8, <2>2, LaterOK
  <2>4. u2.rows = rows /\ u2.cols = cols /\ u2.dep = t.dep /\ u2.p = t.p + kc /\ u2.pos = 0
        /\ u2.loop = "cols"
    BY <1>8 DEF Later
  <2>5. NextDep(u2) = D + kc
    BY <1>1, <1>2, <2>4 DEF NextDep
  <2>6. \A i, j, p \in Nat : Todo(u2, i, j, p) <=> Rect(i, j, p) /\ D + kc <= p
    <3>1. depth + u2.dep = k /\ C + 0 = C
      BY <1>1, <2>4
    <3>. QED
      BY <2>3, <2>4, <2>5, <3>1, TodoParts
  <2> HIDE DEF R, C, D, pos, rows, cols, nb, kc, h, db
  <2>7. ASSUME NEW i \in Nat, NEW j \in Nat, NEW p \in Nat
        PROVE  /\ Todo(t, i, j, p) <=> InNext(t, i, j, p) \/ Todo(u2, i, j, p)
               /\ ~(Todo(u2, i, j, p) /\ InNext(t, i, j, p))
    <3>1. InNext(t, i, j, p) <=>
        /\ R <= i /\ i < R + rows /\ C + pos <= j /\ j < C + pos + h /\ D <= p /\ p < D + db
      BY <1>5
    <3>2. Todo(t, i, j, p) <=> Rect(i, j, p) /\ D <= p /\ (D + db <= p \/ C + pos <= j)
      BY <1>6
    <3>3. Todo(u2, i, j, p) <=> Rect(i, j, p) /\ D + kc <= p
      BY <2>6
    <3>4. db = kc /\ pos + h = cols /\ h \in Nat
      BY <1>1, <1>3, <1>4, <1>10, <2>1
    <3>. QED
      BY <1>1, <1>3, <1>4, <3>1, <3>2, <3>3, <3>4
  <2>. QED
    BY <2>1, <2>3, <2>4, <2>7 DEF Splits, R, C, rows, cols
<1>11. CASE ~(pos + nb < cols) /\ ~(t.p + kc < t.dep)
  <2>1. After(t) = {} /\ ~(D + kc < k)
    BY <1>1, <1>2, <1>7, <1>11
  <2> HIDE DEF R, C, D, pos, rows, cols, nb, kc, h, db
  <2>2. ASSUME NEW i \in Nat, NEW j \in Nat, NEW p \in Nat
        PROVE  Todo(t, i, j, p) <=> InNext(t, i, j, p)
    <3>1. InNext(t, i, j, p) <=>
        /\ R <= i /\ i < R + rows /\ C + pos <= j /\ j < C + pos + h /\ D <= p /\ p < D + db
      BY <1>5
    <3>2. Todo(t, i, j, p) <=> Rect(i, j, p) /\ D <= p /\ (D + db <= p \/ C + pos <= j)
      BY <1>6
    <3>3. D + db = k /\ pos + h = cols /\ h \in Nat /\ db \in Nat
      BY <1>1, <1>3, <1>4, <1>11, <2>1
    <3>. QED
      BY <1>1, <1>3, <1>4, <3>1, <3>2, <3>3
  <2>. QED
    BY <2>1, <2>2 DEF Splits
<1>. QED
  BY <1>9, <1>10, <1>11

LEMMA AfterSplits ==
  ASSUME CallOK(call), DepthOK, PlanOK, NEW t, AddOK(t)
  PROVE  Splits(t)
<1>1. t.loop \in {"none", "rows", "cols"}
  BY TaskNumbers
<1>. QED
  BY <1>1, AfterNone, AfterRows, AfterCols

-----------------------------------------------------------------------------
(* The shared panel. *)

LEMMA PackedColumns ==
  ASSUME NEW d \in Nat \ {0}, NEW j \in Nat
  PROVE  (j * d) \div d = j
<1>1. 0 \in Nat /\ 0 < d /\ j * d \in Nat /\ j * d + 0 = j * d
  BY MulFacts
<1>2. (j * d + 0) \div d = j
  BY <1>1, Quotient
<1>. QED
  BY <1>1, <1>2

LEMMA Multiples ==
  ASSUME NEW w \in Nat \ {0}, NEW i \in Nat
  PROVE  (i * w) % w = 0 /\ i * w \in Nat /\ (i * w) \div w = i
<1>1. 0 \in Nat /\ 0 < w /\ i * w \in Nat /\ i * w + 0 = i * w
  BY MulFacts
<1>2. (i * w + 0) % w = 0 /\ (i * w + 0) \div w = i
  BY <1>1, Quotient
<1>. QED
  BY <1>1, <1>2

LEMMA PackBatchOK ==
  ASSUME CallOK(call), DepthOK
  PROVE  /\ \A t \in PackTasks(depth) : PackOK(t)
         /\ \A t, u \in PackTasks(depth) : t # u => PackedApart(t, u)
         /\ \A j \in 0..(n - 1) : \E t \in PackTasks(depth) :
              PackedCol(t) <= j /\ j < PackedCol(t) + t.cols
<1> DEFINE D == pb(depth)
           w == WidthOf(call.routine)
           T(j) == [Task("pack", "none", 0, depth * b_row_stride + j * b_col_stride, 0, 0,
                         Min2(n - j, Chunk), D) EXCEPT !.to = j * D]
           B == PackTasks(depth)
<1>1. n \in Nat \ {0} /\ Chunk \in Nat \ {0} /\ (Chunk = n \/ (\E q \in Nat : Chunk = q * w))
  BY Strides, PieceSizes
<1>2. D \in Nat \ {0} /\ depth \in Nat
  BY DepthBlocks DEF DepthOK
<1>3. w \in Nat \ {0}
  BY DEF WidthOf
<1>4. B = {T(j) : j \in Starts(n, Chunk)}
  BY DEF PackTasks
<1>5. ASSUME NEW j \in Starts(n, Chunk)
      PROVE  PackOK(T(j)) /\ PackedCol(T(j)) = j /\ T(j).cols = Min2(n - j, Chunk)
  <2> DEFINE t == T(j)
  <2>1. /\ j \in Nat /\ j < n /\ Min2(n - j, Chunk) \in 1..(n - j)
        /\ j + Chunk < n => Min2(n - j, Chunk) = Chunk
        /\ ~(j + Chunk < n) => j + Min2(n - j, Chunk) = n
    BY <1>1, Piece
  <2>2. /\ t.kind = "pack" /\ t.to = j * D /\ t.dep = D /\ t.cols = Min2(n - j, Chunk)
        /\ t.b = depth * b_row_stride + j * b_col_stride
    BY DEF Task
  <2> HIDE DEF t, w
  <2>3. PackedCol(t) = j
    <3>1. PackedCol(t) = (j * D) \div D
      BY <2>2 DEF PackedCol
    <3> HIDE DEF D
    <3>. QED
      BY <1>2, <2>1, <3>1, PackedColumns
  <2>4. j % w = 0 /\ (j + t.cols = n \/ t.cols % w = 0)
    <3>1. CASE Chunk = n
      <4>1. j = 0
        BY <1>1, <3>1, OnePiece
      <4>2. 0 % w = 0
        BY <1>3
      <4>. QED
        BY <1>1, <2>1, <2>2, <3>1, <4>1, <4>2
    <3>2. CASE \E q \in Nat : Chunk = q * w
      <4>1. PICK q \in Nat : Chunk = q * w
        BY <3>2
      <4>2. PICK i \in Nat : j = i * Chunk
        BY <1>1, StartsMember
      <4>3. i * q \in Nat /\ i * (q * w) = (i * q) * w
        BY <1>3, <4>1, <4>2, MulFacts
      <4>4. j = (i * q) * w
        BY <4>1, <4>2, <4>3
      <4>5. j % w = 0
        <5> DEFINE e == i * q
        <5>1. e \in Nat /\ j = e * w
          BY <4>3, <4>4
        <5> HIDE DEF e
        <5>. QED
          BY <1>3, <5>1, Multiples
      <4>6. Chunk % w = 0
        BY <1>3, <4>1, Multiples
      <4>. QED
        BY <2>1, <2>2, <4>5, <4>6
    <3>. QED
      BY <1>1, <3>1, <3>2
  <2>5. PackOK(t)
    <3>1. t.to = PackedCol(t) * pb(depth) /\ t.dep = pb(depth)
      BY <2>2, <2>3
    <3>2. t.cols \in 1..(n - PackedCol(t)) /\ PackedCol(t) \in Nat
      BY <2>1, <2>2, <2>3
    <3>3. t.b = depth * b_row_stride + PackedCol(t) * b_col_stride /\ t.kind = "pack"
      BY <2>2, <2>3
    <3>4. PackedCol(t) % w = 0 /\ (PackedCol(t) + t.cols = n \/ t.cols % w = 0)
      BY <2>3, <2>4
    <3>. QED
      BY <3>1, <3>2, <3>3, <3>4, Zenon DEF PackOK, w
  <2>. QED
    BY <2>2, <2>3, <2>5 DEF t
<1> HIDE DEF T, B, w
<1>6. ASSUME NEW t \in B, NEW u \in B, t # u PROVE PackedApart(t, u)
  <2>1. PICK i \in Starts(n, Chunk) : t = T(i)
    BY <1>4
  <2>2. PICK j \in Starts(n, Chunk) : u = T(j)
    BY <1>4
  <2>3. i # j
    BY <1>6, <2>1, <2>2
  <2>4. i + Min2(n - i, Chunk) <= j \/ j + Min2(n - j, Chunk) <= i
    BY <1>1, <2>3, PiecesApart
  <2>5. /\ PackedCol(t) = i /\ t.cols = Min2(n - i, Chunk)
        /\ PackedCol(u) = j /\ u.cols = Min2(n - j, Chunk)
    BY <1>5, <2>1, <2>2
  <2>. QED
    BY <2>4, <2>5 DEF PackedApart
<1>7. ASSUME NEW j \in 0..(n - 1)
      PROVE  \E t \in B : PackedCol(t) <= j /\ j < PackedCol(t) + t.cols
  <2>1. PICK x \in Starts(n, Chunk) : x <= j /\ j < x + Min2(n - x, Chunk)
    BY <1>1, PiecesCover
  <2>2. T(x) \in B /\ PackedCol(T(x)) = x /\ T(x).cols = Min2(n - x, Chunk)
    BY <1>4, <1>5
  <2>. QED
    BY <2>1, <2>2
<1>. QED
  BY <1>4, <1>5, <1>6, <1>7 DEF B

(* The panels before a multiple of the width are below its columns' share,  *)
(* the others are not.                                                      *)
Whole(e, w) == e % w = 0

LEMMA PanelOrder ==
  ASSUME NEW w \in Nat \ {0}, NEW d \in Nat \ {0}, NEW e \in Nat, Whole(e, w),
         NEW j \in Nat, NEW q \in 0..(d - 1)
  PROVE  /\ PanelIndex(w, d, j, q) \in Nat
         /\ j < e => PanelIndex(w, d, j, q) < e * d
         /\ \A i \in Nat : j = e + i =>
              PanelIndex(w, d, j, q) = e * d + PanelIndex(w, d, i, q)
<1> DEFINE a == j \div w
           r == j % w
           b == e \div w
           wd == w * d
           y == q * w + r
<1>1. a \in Nat /\ r \in Nat /\ j = w * a + r /\ r < w
  BY DivMod
<1>2. b \in Nat /\ e = w * b
  <2>1. b \in Nat /\ e = w * b + (e % w)
    BY DivMod
  <2>3. e % w = 0
    BY DEF Whole
  <2> HIDE DEF b
  <2>2. w * b \in Nat
    BY <2>1, MulFacts
  <2>. QED
    BY <2>1, <2>2, <2>3
<1>3. PanelIndex(w, d, j, q) = a * w * d + q * w + r
  BY DEF PanelIndex
<1> HIDE DEF a, r, b
<1>4. w * a = a * w /\ w * b = b * w /\ a * w \in Nat /\ b * w \in Nat
  BY <1>1, <1>2, MulFacts
<1>5. a * w * d = a * wd /\ b * w * d = b * wd
  BY <1>1, <1>2, MulFacts
<1>6. wd \in Nat /\ wd = d * w
  BY MulFacts
<1>7. q * w + w <= d * w /\ q * w \in Nat
  <2>1. q \in Nat /\ q < d
    OBVIOUS
  <2>. QED
    BY <2>1, MulApart, MulFacts
<1>8. y \in Nat /\ y < wd
  BY <1>1, <1>6, <1>7
<1> HIDE DEF wd
<1>9. a * wd \in Nat /\ b * wd \in Nat
  BY <1>1, <1>2, <1>6, MulFacts
<1>10. PanelIndex(w, d, j, q) = a * wd + y
  BY <1>1, <1>3, <1>5, <1>7, <1>9
<1>11. e * d = b * wd
  BY <1>2, <1>4, <1>5
<1> HIDE DEF y
<1>12. ASSUME j < e PROVE PanelIndex(w, d, j, q) < e * d
  <2>1. a < b
    <3> SUFFICES ASSUME b <= a PROVE FALSE
      BY <1>1, <1>2
    <3>1. b * w <= a * w
      BY <1>1, <1>2, MulMonotone
    <3>. QED
      BY <1>1, <1>2, <1>4, <1>12, <3>1
  <2>2. a * wd + wd <= b * wd
    BY <1>1, <1>2, <1>6, <2>1, MulApart
  <2> DEFINE aw == a * wd
             bw == b * wd
             ed == e * d
  <2>3. aw + wd <= bw /\ aw \in Nat /\ bw \in Nat /\ ed = bw /\ PanelIndex(w, d, j, q) = aw + y
    BY <1>9, <1>10, <1>11, <2>2
  <2> HIDE DEF aw, bw, ed
  <2>4. PanelIndex(w, d, j, q) < ed
    BY <1>6, <1>8, <2>3
  <2>. QED
    BY <2>4 DEF ed
<1>13. ASSUME NEW i \in Nat, j = e + i
       PROVE  PanelIndex(w, d, j, q) = e * d + PanelIndex(w, d, i, q)
  <2>1. b <= a
    <3> SUFFICES ASSUME a < b PROVE FALSE
      BY <1>1, <1>2
    <3>1. a * w + w <= b * w
      BY <1>1, <1>2, MulApart
    <3>. QED
      BY <1>1, <1>2, <1>4, <1>13, <3>1
  <2> DEFINE c == a - b
  <2>2. c \in Nat /\ a = b + c
    BY <1>1, <1>2, <2>1
  <2> HIDE DEF c
  <2>3. (b + c) * w = b * w + c * w /\ c * w \in Nat
    BY <1>2, <2>2, MulFacts
  <2>4. i = c * w + r
    <3> DEFINE aw == a * w
               bw == b * w
               cw == c * w
    <3>1. /\ aw \in Nat /\ bw \in Nat /\ cw \in Nat /\ aw = bw + cw
          /\ j = aw + r /\ e = bw /\ j = e + i
      BY <1>1, <1>2, <1>4, <1>13, <2>2, <2>3
    <3> HIDE DEF aw, bw, cw
    <3>2. i = cw + r
      BY <3>1, <1>1
    <3>. QED
      BY <3>2 DEF cw
  <2>5. i \div w = c /\ i % w = r
    <3>1. (c * w + r) \div w = c /\ (c * w + r) % w = r
      BY <1>1, <2>2, Quotient
    <3>. QED
      BY <2>4, <3>1
  <2>6. PanelIndex(w, d, i, q) = c * w * d + q * w + r
    BY <2>5 DEF PanelIndex
  <2>7. c * w * d = c * wd
    BY <2>2, MulFacts DEF wd
  <2>8. (b + c) * wd = b * wd + c * wd /\ c * wd \in Nat
    BY <1>2, <1>6, <2>2, MulFacts
  <2>9. PanelIndex(w, d, i, q) = c * wd + y
    BY <1>1, <1>7, <2>6, <2>7, <2>8 DEF y
  <2>10. a * wd = b * wd + c * wd
    BY <2>2, <2>8
  <2> DEFINE aw == a * wd
             bw == b * wd
             cw == c * wd
             ed == e * d
  <2>11. /\ aw = bw + cw /\ bw \in Nat /\ cw \in Nat /\ ed = bw
         /\ PanelIndex(w, d, j, q) = aw + y /\ PanelIndex(w, d, i, q) = cw + y
    BY <1>9, <1>10, <1>11, <2>8, <2>9, <2>10
  <2> HIDE DEF aw, bw, cw, ed
  <2>12. PanelIndex(w, d, j, q) = ed + PanelIndex(w, d, i, q)
    BY <1>8, <2>11
  <2>. QED
    BY <2>12 DEF ed
<1>14. PanelIndex(w, d, j, q) \in Nat
  BY <1>8, <1>9, <1>10
<1>. QED
  BY <1>12, <1>13, <1>14

(* What a packing task writes: the columns of its own, each element at its  *)
(* place, and nothing of the others.                                        *)
InPacked(t, j) == PackedCol(t) <= j /\ j < PackedCol(t) + t.cols

LEMMA PackedWhole ==
  ASSUME CallOK(call), DepthOK, NEW t, PackOK(t)
  PROVE  LET w  == WidthOf(call.routine)
             cw == (t.cols \div w) * w
         IN  /\ cw \in Nat /\ cw % w = 0 /\ cw <= t.cols
             /\ \A j \in 0..((n \div w) * w - 1) :
                  InPacked(t, j) <=> PackedCol(t) <= j /\ j < PackedCol(t) + cw
<1> DEFINE w  == WidthOf(call.routine)
           c  == t.cols \div w
           cw == c * w
           e  == PackedCol(t)
<1>1. w \in Nat \ {0} /\ t.cols \in Nat /\ e \in Nat /\ n \in Nat /\ t.cols <= n - e
  <2>1. call.routine \in {"sgemm", "dgemm"}
    BY DEF CallOK
  <2>2. w \in Nat \ {0}
    BY <2>1, SharedKernels
  <2>. QED
    BY <2>2, Strides DEF PackOK
<1>2. e % w = 0 /\ (e + t.cols = n \/ t.cols % w = 0)
  BY DEF PackOK
<1> HIDE DEF w, e
<1>3. c \in Nat /\ t.cols % w \in Nat /\ t.cols = w * c + (t.cols % w) /\ t.cols % w < w
  BY <1>1, DivMod
<1>4. e \div w \in Nat /\ e = w * (e \div w)
  BY <1>1, <1>2, DivMod
<1> DEFINE a == e \div w
           r == t.cols % w
<1>5. a \in Nat /\ c \in Nat /\ r \in Nat /\ r < w /\ e = w * a /\ t.cols = w * c + r
  BY <1>3, <1>4
<1>6. cw \in Nat /\ cw % w = 0 /\ cw = w * c /\ a * w = e /\ (a + c) * w = e + cw
  <2> HIDE DEF a, c
  <2>1. a * w = w * a /\ c * w = w * c /\ (a + c) * w = a * w + c * w
    BY <1>5, <1>1, MulFacts
  <2>2. (c * w) % w = 0 /\ c * w \in Nat
    BY <1>5, <1>1, Multiples
  <2>. QED
    BY <2>1, <2>2, <1>5
<1> HIDE DEF a, c, r
<1>7. cw <= t.cols
  <2> HIDE DEF cw
  <2>. QED
    BY <1>5, <1>6
<1>8. t.cols % w = 0 => cw = t.cols
  <2>1. t.cols % w = 0 => r = 0
    BY DEF r
  <2> HIDE DEF cw
  <2>. QED
    BY <2>1, <1>5, <1>6
<1>9. e + t.cols = n => (n \div w) * w = e + cw
  <2> SUFFICES ASSUME e + t.cols = n
               PROVE  (n \div w) * w = e + cw
    OBVIOUS
  <2>1. n = (a + c) * w + r
    <3> HIDE DEF cw
    <3>. QED
      BY <1>5, <1>6, <1>1
  <2>2. ((a + c) * w + r) \div w = a + c
    <3>1. a + c \in Nat
      BY <1>5
    <3>. QED
      BY <3>1, <1>5, <1>1, Quotient
  <2>. QED
    BY <2>1, <2>2, <1>6
<1>10. ASSUME NEW j \in 0..((n \div w) * w - 1)
       PROVE  e <= j /\ j < e + t.cols <=> e <= j /\ j < e + cw
  <2> DEFINE N == (n \div w) * w
  <2>1. j \in 0..(N - 1) /\ (e + t.cols = n => N = e + cw) /\ j \in Nat
    <3>1. n \div w \in Nat
      BY <1>1, DivMod
    <3>2. N \in Nat
      BY <3>1, <1>1, MulFacts
    <3> HIDE DEF cw
    <3>. QED
      BY <1>9, <3>2
  <2>2. N \in Nat
    BY <1>1, DivMod, MulFacts
  <2> HIDE DEF N, cw
  <2>. QED
    BY <2>1, <2>2, <1>1, <1>2, <1>6, <1>7, <1>8
<1>. QED
  BY <1>6, <1>7, <1>10 DEF InPacked, c, w, e

LEMMA PackWrites ==
  ASSUME CallOK(call), DepthOK, NEW t, PackOK(t),
         NEW j \in 0..((n \div WidthOf(call.routine)) * WidthOf(call.routine) - 1),
         NEW q \in 0..(pb(depth) - 1)
  PROVE  LET block == PackB(Shared.pack, t)
             x     == PanelAt(j, q)
         IN  /\ x \in 0..(cblas_gemm_kc * n - 1)
             /\ InPacked(t, j) => /\ x - t.to \in DOMAIN block
                                  /\ block[x - t.to] = (depth + q) * b_row_stride + j * b_col_stride
             /\ ~InPacked(t, j) => x - t.to \notin DOMAIN block
<1> DEFINE w  == WidthOf(call.routine)
           d  == pb(depth)
           e  == PackedCol(t)
           cw == (t.cols \div w) * w
           nw == (n \div w) * w
           block == PackB(Shared.pack, t)
           x  == PanelAt(j, q)
<1>1. /\ KernelOK(Neon3Shared[call.routine].macro, w) /\ PackersOK(Shared.pack, w)
      /\ w \in Nat \ {0}
  <2>1. call.routine \in {"sgemm", "dgemm"}
    BY DEF CallOK
  <2>. QED
    BY <2>1, SharedKernels DEF Shared
<1>2. d \in Nat \ {0} /\ d <= cblas_gemm_kc /\ depth \in Nat /\ cblas_gemm_kc \in Nat
  BY DepthBlocks DEF DepthOK
<1>3. n \in Nat /\ b_row_stride \in Nat /\ b_col_stride \in Nat
  BY Strides
<1>4. /\ e \in Nat /\ t.to = e * d /\ t.dep = d /\ t.cols \in Nat /\ Whole(e, w)
      /\ t.b = depth * b_row_stride + e * b_col_stride
  BY <1>3 DEF PackOK, Whole
<1>5. /\ cw \in Nat /\ Whole(cw, w) /\ cw <= t.cols
      /\ InPacked(t, j) <=> e <= j /\ j < e + cw
  BY PackedWhole DEF Whole
<1>6. n \div w \in Nat /\ nw \in Nat /\ nw <= n /\ j \in Nat /\ j < nw /\ q \in 0..(d - 1)
  <2>1. n \div w \in Nat /\ n % w \in Nat /\ n = w * (n \div w) + (n % w)
    BY <1>1, <1>3, DivMod
  <2> DEFINE y == n \div w
             z == n % w
  <2>2. y \in Nat /\ z \in Nat /\ n = w * y + z
    BY <2>1
  <2>3. j \in 0..(nw - 1) /\ nw = y * w
    OBVIOUS
  <2>4. y * w \in Nat /\ y * w = w * y
    <3> HIDE DEF y, w
    <3>. QED
      BY <2>2, <1>1, MulFacts
  <2>5. nw \in Nat /\ n = nw + z
    <3> DEFINE aw == w * y
    <3>1. nw = aw /\ aw \in Nat /\ n = aw + z
      BY <2>2, <2>3, <2>4
    <3> HIDE DEF aw, nw, y, z, w
    <3>. QED
      BY <3>1, <2>2
  <2> HIDE DEF nw, y, z, w
  <2>. QED
    BY <2>1, <2>2, <2>3, <2>5
<1>7. x = PanelIndex(w, d, j, q)
  BY DEF PanelAt, PanelIndex
<1>8. t.b \in Nat
  <2>1. depth * b_row_stride \in Nat /\ e * b_col_stride \in Nat
    <3> HIDE DEF e
    <3>. QED
      BY <1>2, <1>3, <1>4, MulFacts
  <2>. QED
    BY <2>1, <1>4
<1>9. /\ PanelHolds(block, w, t) /\ DOMAIN block = 0..(cw * d - 1)
  <2>1. t.cols \in Nat /\ t.dep \in Nat /\ t.b \in Nat
    BY <1>4, <1>8, <1>2
  <2>2. DOMAIN block = 0..(((t.cols \div w) * w) * t.dep - 1) /\ PanelHolds(block, w, t)
    <3> HIDE DEF w
    <3>. QED
      BY <2>1, <1>1, PacksPanels
  <2>. QED
    BY <2>2, <1>4
<1> HIDE DEF w, d, e, cw, nw, x, block
<1>10. x \in 0..(cblas_gemm_kc * n - 1)
  <2>1. j \in 0..(nw - 1)
    BY <1>6
  <2>2. x \in Nat /\ (j < nw => x < nw * d)
    <3>1. Whole(nw, w)
      BY <1>6, <1>1, Multiples DEF nw, Whole
    <3>. QED
      BY <3>1, <1>1, <1>2, <1>6, <1>7, PanelOrder
  <2>3. nw * d <= n * d /\ d * n <= cblas_gemm_kc * n /\ n * d = d * n
    <3>1. nw * d <= n * d
      BY <1>6, <1>3, <1>2, MulMonotone
    <3>2. d * n <= cblas_gemm_kc * n
      BY <1>3, <1>2, MulMonotone
    <3>3. n * d = d * n
      BY <1>3, <1>2, MulFacts
    <3>. QED
      BY <3>1, <3>2, <3>3
  <2>4. nw * d \in Nat /\ n * d \in Nat /\ cblas_gemm_kc * n \in Nat
    BY <1>6, <1>3, <1>2, MulFacts
  <2> DEFINE u == nw * d
             v == n * d
             y == cblas_gemm_kc * n
  <2>5. u \in Nat /\ v \in Nat /\ y \in Nat /\ u <= v /\ v <= y /\ x \in Nat /\ x < u
    BY <2>2, <2>3, <2>4, <1>6
  <2> HIDE DEF u, v, y
  <2>6. x < y
    BY <2>5
  <2>. QED
    BY <2>5, <2>6 DEF y
<1>11. ASSUME j < e
       PROVE  x - t.to \notin DOMAIN block
  <2>1. x \in Nat /\ x < e * d
    BY <1>11, <1>1, <1>2, <1>4, <1>6, <1>7, PanelOrder
  <2>2. e * d \in Nat /\ cw * d \in Nat
    BY <1>4, <1>2, <1>5, MulFacts
  <2> DEFINE ed == e * d
             y  == cw * d
  <2>3. ed \in Nat /\ y \in Nat /\ x \in Nat /\ x < ed /\ t.to = ed /\ DOMAIN block = 0..(y - 1)
    BY <2>1, <2>2, <1>4, <1>9
  <2> HIDE DEF ed, y
  <2>. QED
    BY <2>3
<1>12. ASSUME j >= e
       PROVE  x - t.to = PanelIndex(w, d, j - e, q)
  <2> DEFINE i == j - e
  <2>2. i \in Nat /\ j = e + i
    BY <1>12, <1>4, <1>6
  <2> HIDE DEF i
  <2>1. x = e * d + PanelIndex(w, d, i, q)
    BY <2>2, <1>1, <1>2, <1>4, <1>6, <1>7, PanelOrder
  <2>3. PanelIndex(w, d, i, q) \in Nat
    BY <2>2, <1>1, <1>2, <1>4, <1>6, PanelOrder
  <2>4. e * d \in Nat
    BY <1>4, <1>2, MulFacts
  <2> DEFINE ed == e * d
             y  == PanelIndex(w, d, i, q)
  <2>5. ed \in Nat /\ y \in Nat /\ x = ed + y /\ t.to = ed
    BY <2>1, <2>3, <2>4, <1>4
  <2> HIDE DEF ed, y
  <2>6. x - t.to = y
    BY <2>5
  <2>. QED
    BY <2>6 DEF y, i
<1>13. ASSUME j >= e, j < e + cw
       PROVE  /\ x - t.to \in DOMAIN block
              /\ block[x - t.to] = (depth + q) * b_row_stride + j * b_col_stride
  <2> DEFINE jj == j - e
             y  == PanelIndex(w, d, jj, q)
  <2>1. jj \in Nat /\ jj < cw /\ jj \in 0..(cw - 1) /\ e + jj = j
    BY <1>13, <1>4, <1>5, <1>6
  <2> HIDE DEF jj
  <2>2. y \in Nat /\ y < cw * d
    BY <2>1, <1>1, <1>2, <1>5, <1>6, PanelOrder
  <2>3. cw * d \in Nat
    BY <1>5, <1>2, MulFacts
  <2>4. x - t.to = y
    BY <1>12, <1>13 DEF jj
  <2>5. y \in DOMAIN block
    <3> DEFINE z == cw * d
    <3>1. z \in Nat /\ y \in Nat /\ y < z /\ DOMAIN block = 0..(z - 1)
      BY <2>2, <2>3, <1>9
    <3> HIDE DEF z, y
    <3>. QED
      BY <3>1
  <2>6. block[y] = t.b + q * b_row_stride + jj * b_col_stride
    <3>1. jj \in 0..((t.cols \div w) * w - 1) /\ q \in 0..(t.dep - 1)
      BY <2>1, <1>4, <1>6 DEF cw
    <3>2. block[PanelIndex(w, t.dep, jj, q)] = t.b + q * b_row_stride + jj * b_col_stride
      BY <3>1, <1>9, <1>1 DEF PanelHolds
    <3>. QED
      BY <3>2, <1>4
  <2>7. t.b + q * b_row_stride + jj * b_col_stride = (depth + q) * b_row_stride + j * b_col_stride
    <3>1. q \in Nat
      BY <1>6, <1>2
    <3>2. /\ (depth + q) * b_row_stride = depth * b_row_stride + q * b_row_stride
          /\ depth * b_row_stride \in Nat /\ q * b_row_stride \in Nat
      BY <3>1, <1>2, <1>3, MulFacts
    <3>3. /\ (e + jj) * b_col_stride = e * b_col_stride + jj * b_col_stride
          /\ e * b_col_stride \in Nat /\ jj * b_col_stride \in Nat
      BY <2>1, <1>4, <1>3, MulFacts
    <3> DEFINE dr == depth * b_row_stride
               qr == q * b_row_stride
               ec == e * b_col_stride
               jc == jj * b_col_stride
    <3>4. /\ dr \in Nat /\ qr \in Nat /\ ec \in Nat /\ jc \in Nat /\ t.b = dr + ec
          /\ (depth + q) * b_row_stride = dr + qr /\ j * b_col_stride = ec + jc
      BY <3>2, <3>3, <1>4, <2>1
    <3> HIDE DEF dr, qr, ec, jc
    <3>5. t.b + qr + jc = (depth + q) * b_row_stride + j * b_col_stride
      BY <3>4
    <3>. QED
      BY <3>5 DEF qr, jc
  <2>. QED
    BY <2>4, <2>5, <2>6, <2>7
<1>14. ASSUME j >= e, ~(j < e + cw)
       PROVE  x - t.to \notin DOMAIN block
  <2> DEFINE jj == j - e
             y  == PanelIndex(w, d, jj, q)
             z  == PanelIndex(w, d, jj - cw, q)
  <2>1. jj \in Nat /\ jj - cw \in Nat /\ cw + (jj - cw) = jj
    BY <1>14, <1>4, <1>5, <1>6
  <2>2. x - t.to = y
    BY <1>12, <1>14
  <2> DEFINE i == jj - cw
  <2> HIDE DEF jj, i
  <2>3. y = cw * d + z
    <3>1. cw \in Nat /\ Whole(cw, w) /\ w \in Nat \ {0} /\ d \in Nat \ {0} /\ q \in 0..(d - 1)
      BY <1>1, <1>2, <1>5, <1>6
    <3>2. i \in Nat /\ jj = cw + i /\ jj \in Nat
      BY <2>1 DEF i
    <3>3. y = PanelIndex(w, d, jj, q) /\ z = PanelIndex(w, d, i, q)
      BY DEF i
    <3>4. PanelIndex(w, d, jj, q) = cw * d + PanelIndex(w, d, i, q)
      BY <3>1, <3>2, PanelOrder
    <3>. QED
      BY <3>3, <3>4
  <2>4. z \in Nat
    BY <2>1, <1>1, <1>2, <1>5, <1>6, PanelOrder
  <2>5. cw * d \in Nat
    BY <1>5, <1>2, MulFacts
  <2> DEFINE u == cw * d
  <2>6. u \in Nat /\ z \in Nat /\ y = u + z /\ DOMAIN block = 0..(u - 1)
    BY <2>3, <2>4, <2>5, <1>9
  <2> HIDE DEF u, y, z
  <2>7. y \notin DOMAIN block
    BY <2>6
  <2>. QED
    BY <2>7, <2>2
<1>15. /\ InPacked(t, j) => j >= e /\ j < e + cw
       /\ ~InPacked(t, j) => j < e \/ (j >= e /\ ~(j < e + cw))
  BY <1>5, <1>4, <1>6
<1>16. ~InPacked(t, j) => x - t.to \notin DOMAIN block
  BY <1>15, <1>11, <1>14
<1>17. InPacked(t, j) => /\ x - t.to \in DOMAIN block
                         /\ block[x - t.to] = (depth + q) * b_row_stride + j * b_col_stride
  BY <1>15, <1>13
<1>. QED
  BY <1>10, <1>16, <1>17 DEF x, block

-----------------------------------------------------------------------------
(* What a kernel call adds. *)

(* The kernels that pack for themselves. *)
LEMMA OwnPanels ==
  ASSUME CallOK(call), NEW g, BlockOK(g)
  PROVE  /\ KernelTerms(call.kernel, g, PackB(call.kernel, g)) = BlockTerms(g)
         /\ KernelCount(call.kernel, g) = g.cols * g.dep * g.rows
<1> DEFINE w == call.kernel.packB.width
<1>1. KernelOK(call.kernel, w) /\ (w # 0 => PackersOK(call.kernel, w)) /\ w \in Nat
  BY DEF CallOK, OwnOK, KernelOK
<1> HIDE DEF w
<1>2. PanelHolds(PackB(call.kernel, g), w, g)
  <2>1. CASE w = 0
    BY <2>1 DEF PanelHolds
  <2>2. CASE w # 0
    <3>1. w \in Nat \ {0} /\ PackersOK(call.kernel, w)
      BY <1>1, <2>2
    <3>2. g.b \in Nat /\ g.cols \in Nat /\ g.dep \in Nat
      BY DEF BlockOK
    <3>. QED
      BY <3>1, <3>2, PacksPanels
  <2>. QED
    BY <2>1, <2>2
<1>. QED
  BY <1>1, <1>2, KernelAdds

(* The macro kernels, when the shared panel is packed. *)
LEMMA SharedPanels ==
  ASSUME CallOK(call), DepthOK, PlanOK, PanelOK, pc = "adding", plan = "shared",
         NEW t, AddOK(t)
  PROVE  /\ KernelTerms(Shared.macro, t, panel) = BlockTerms(t)
         /\ KernelCount(Shared.macro, t) = t.cols * t.dep * t.rows
<1> DEFINE w == WidthOf(call.routine)
<1>1. KernelOK(Shared.macro, w) /\ w \in Nat \ {0}
  <2>1. call.routine \in {"sgemm", "dgemm"}
    BY DEF CallOK
  <2>. QED
    BY <2>1, SharedKernels DEF Shared
<1>2. t.loop = "none" /\ ColOf(t) = 0 /\ t.cols = n /\ t.dep = pb(depth)
  BY DEF AddOK, KindOK, LoopOK
<1>3. BlockOK(t)
  <2>1. BlockAt(KernelArgs(t), NextRow(t), NextCol(t), NextDep(t)) /\ KernelArgs(t) = t
    BY <1>2, NextBlock
  <2>2. BlockAt(t, NextRow(t), NextCol(t), NextDep(t))
    BY <2>1
  <2>. QED
    BY <2>2, BlockPlaces
<1>4. t.b = depth * b_row_stride
  <2>1. t.b = depth * b_row_stride + 0 * b_col_stride
    BY <1>2 DEF AddOK
  <2>2. b_row_stride \in Nat /\ b_col_stride \in Nat /\ depth \in Nat
    BY Strides, DepthBlocks DEF DepthOK
  <2>3. depth * b_row_stride \in Nat /\ 0 * b_col_stride = 0
    <3>1. depth * b_row_stride \in Nat
      BY <2>2, MulFacts
    <3>. QED
      BY <3>1, <2>2
  <2> DEFINE dr == depth * b_row_stride
             z  == 0 * b_col_stride
  <2>4. t.b = dr + z /\ dr \in Nat /\ z = 0
    BY <2>1, <2>3
  <2> HIDE DEF dr, z
  <2>5. t.b = dr
    BY <2>4
  <2>. QED
    BY <2>5 DEF dr
<1>5. PanelHolds(panel, w, t)
  <2>1. ASSUME NEW j \in 0..((n \div w) * w - 1), NEW q \in 0..(pb(depth) - 1)
        PROVE  panel[PanelIndex(w, pb(depth), j, q)] = t.b + q * b_row_stride + j * b_col_stride
    <3>1. panel[PanelAt(j, q)] = (depth + q) * b_row_stride + j * b_col_stride
      BY DEF PanelOK
    <3>2. PanelAt(j, q) = PanelIndex(w, pb(depth), j, q)
      BY DEF PanelAt, PanelIndex
    <3>3. depth \in Nat /\ q \in Nat /\ b_row_stride \in Nat
      BY Strides, DepthBlocks DEF DepthOK
    <3>4. (depth + q) * b_row_stride = depth * b_row_stride + q * b_row_stride
      BY <3>3, MulFacts
    <3>5. panel[PanelAt(j, q)] = t.b + q * b_row_stride + j * b_col_stride
      BY <3>1, <3>4, <1>4, Zenon
    <3>. QED
      BY <3>2, <3>5, Zenon
  <2> HIDE DEF w
  <2>2. ASSUME NEW j \in 0..((t.cols \div w) * w - 1), NEW q \in 0..(t.dep - 1)
        PROVE  panel[PanelIndex(w, t.dep, j, q)] = t.b + q * b_row_stride + j * b_col_stride
    BY <2>1, <1>2, Zenon
  <2>. QED
    BY <2>2, Zenon DEF PanelHolds
<1> HIDE DEF w
<1>. QED
  BY <1>1, <1>3, <1>5, KernelAdds

(* The kernel call of any task. *)
LEMMA TaskAdds ==
  ASSUME CallOK(call), DepthOK, PlanOK, PanelOK, pc = "adding", NEW t, AddOK(t), KernelTask(t)
  PROVE  LET g == KernelArgs(t)
         IN  sum' = sum \cup BlockTerms(g) /\ count' = count + g.cols * g.dep * g.rows
<1> DEFINE g == KernelArgs(t)
<1>1. BlockAt(g, NextRow(t), NextCol(t), NextDep(t)) /\ (t.loop = "none" => g = t)
  BY NextBlock
<1> HIDE DEF g
<1>2. BlockOK(g)
  BY <1>1, BlockPlaces
<1>3. CASE t.kind = "kernel"
  <2>1. AddTerms(call.kernel, g, PackB(call.kernel, g))
    BY <1>3 DEF KernelTask, g
  <2>2. /\ sum' = sum \cup KernelTerms(call.kernel, g, PackB(call.kernel, g))
        /\ count' = count + KernelCount(call.kernel, g)
    BY <2>1 DEF AddTerms
  <2>. QED
    BY <2>2, <1>2, OwnPanels DEF g
<1>4. CASE t.kind # "kernel"
  <2>1. plan = "shared" /\ t.loop = "none"
    BY <1>4 DEF AddOK, KindOK, PlanOK
  <2>2. g = t
    BY <2>1, <1>1
  <2>3. AddTerms(Shared.macro, g, panel)
    BY <1>4 DEF KernelTask, g
  <2>4. /\ sum' = sum \cup KernelTerms(Shared.macro, t, panel)
        /\ count' = count + KernelCount(Shared.macro, t)
    BY <2>2, <2>3 DEF AddTerms
  <2>5. sum' = sum \cup BlockTerms(t) /\ count' = count + t.cols * t.dep * t.rows
    BY <2>1, <2>4, SharedPanels
  <2>. QED
    BY <2>2, <2>5 DEF g
<1>. QED
  BY <1>3, <1>4

-----------------------------------------------------------------------------
(* What stays the same while a call lasts. *)

LEMMA SameCall ==
  ASSUME call' = call
  PROVE  /\ m' = m /\ n' = n /\ k' = k
         /\ a_row_stride' = a_row_stride /\ a_col_stride' = a_col_stride
         /\ b_row_stride' = b_row_stride /\ b_col_stride' = b_col_stride
         /\ Wanted' = Wanted /\ Places' = Places
         /\ \A i, j, p : TermAt(i, j, p)' = TermAt(i, j, p)
         /\ \A d : pb(d)' = pb(d)
<1>1. m' = m /\ n' = n /\ k' = k
  BY DEF m, n, k
<1>2. /\ a_row_stride' = a_row_stride /\ a_col_stride' = a_col_stride
      /\ b_row_stride' = b_row_stride /\ b_col_stride' = b_col_stride
  BY DEF a_row_stride, a_col_stride, b_row_stride, b_col_stride
<1>3. Wanted' = Wanted
  BY DEF Wanted, Term, A_at, B_at, C_at
<1>4. Places' = Places
  BY <1>1 DEF Places
<1>5. ASSUME NEW i, NEW j, NEW p PROVE TermAt(i, j, p)' = TermAt(i, j, p)
  BY <1>2 DEF TermAt
<1>6. ASSUME NEW d PROVE pb(d)' = pb(d)
  BY <1>1 DEF pb
<1>. QED
  BY <1>1, <1>2, <1>3, <1>4, <1>5, <1>6

LEMMA SameDepth ==
  ASSUME call' = call, depth' = depth, plan' = plan
  PROVE  /\ \A t : AddOK(t)' <=> AddOK(t)
         /\ \A t : PackOK(t)' <=> PackOK(t)
         /\ \A t, u : AddedApart(t, u)' <=> AddedApart(t, u)
         /\ \A t, u : PackedApart(t, u)' <=> PackedApart(t, u)
         /\ \A t, i, j, p : Todo(t, i, j, p)' <=> Todo(t, i, j, p)
         /\ \A j, q : PanelAt(j, q)' = PanelAt(j, q)
         /\ \A t : PackedCol(t)' = PackedCol(t)
<1>1. /\ m' = m /\ n' = n /\ k' = k
      /\ a_row_stride' = a_row_stride /\ a_col_stride' = a_col_stride
      /\ b_row_stride' = b_row_stride /\ b_col_stride' = b_col_stride
      /\ \A d : pb(d)' = pb(d)
  BY SameCall
<1>2. pb(depth)' = pb(depth)
  BY DEF pb, k
<1>3. ASSUME NEW t PROVE RowOf(t)' = RowOf(t) /\ ColOf(t)' = ColOf(t)
  BY DEF RowOf, ColOf
<1>4. ASSUME NEW t PROVE PackedCol(t)' = PackedCol(t)
  BY <1>2 DEF PackedCol
<1>5. ASSUME NEW t PROVE KindOK(t)' <=> KindOK(t)
  BY <1>1, <1>3 DEF KindOK
<1>6. ASSUME NEW t PROVE LoopOK(t)' <=> LoopOK(t)
  BY <1>1, <1>2 DEF LoopOK
<1>7. ASSUME NEW t PROVE AddOK(t)' <=> AddOK(t)
  BY <1>1, <1>3, <1>5, <1>6 DEF AddOK
<1>8. ASSUME NEW t PROVE PackOK(t)' <=> PackOK(t)
  BY <1>1, <1>2, <1>4 DEF PackOK
<1>9. ASSUME NEW t, NEW u PROVE AddedApart(t, u)' <=> AddedApart(t, u)
  BY <1>3 DEF AddedApart
<1>10. ASSUME NEW t, NEW u PROVE PackedApart(t, u)' <=> PackedApart(t, u)
  BY <1>4 DEF PackedApart
<1>11. ASSUME NEW t, NEW i, NEW j, NEW p PROVE Todo(t, i, j, p)' <=> Todo(t, i, j, p)
  BY <1>3 DEF Todo
<1>12. ASSUME NEW j, NEW q PROVE PanelAt(j, q)' = PanelAt(j, q)
  BY <1>2 DEF PanelAt
<1>. QED
  BY <1>4, <1>7, <1>8, <1>9, <1>10, <1>11, <1>12

-----------------------------------------------------------------------------
(* The sum, step by step. *)

LEMMA BegunIs ==
  /\ pc = "adding" => Begun = IF plan \in {"tiles", "shared"} THEN depth + pb(depth) ELSE k
  /\ pc = "done" => Begun = k
  /\ pc \notin {"adding", "done"} => Begun = depth
BY DEF Begun

(* While nothing is added. *)
LEMMA SumEmpty ==
  ASSUME CallOK(call'), sum' = {}, count' = 0, pc' # "adding",
         short' \/ call'.alpha = "zero" \/ Begun' = 0
  PROVE  SumOK'
<1>1. SumCounted'
  <2>1. IsFiniteSet({}) /\ Cardinality({}) = 0
    BY FS_EmptySet
  <2>. QED
    BY <2>1 DEF SumCounted
<1>2. ASSUME NEW i, NEW j, NEW p PROVE ~Added(i, j, p)'
  BY DEF Added
<1>3. LaterClean'
  BY <1>2 DEF LaterClean
<1>4. TodoClean'
  BY DEF TodoClean
<1>5. NothingLost'
  <2>1. CASE short' \/ call'.alpha = "zero"
    BY <2>1 DEF NothingLost
  <2>2. CASE Begun' = 0
    <3>1. \A p \in 0..(k' - 1) : ~(p < Begun')
      <4>1. k' \in Nat
        BY DEF CallOK, k
      <4>. QED
        BY <4>1, <2>2
    <3>. QED
      BY <3>1 DEF NothingLost
  <2>. QED
    BY <2>1, <2>2
<1>6. WholeSoFar'
  BY <1>2 DEF WholeSoFar
<1>. QED
  BY <1>1, <1>3, <1>4, <1>5, <1>6 DEF SumOK

(* Steps that neither add nor start a batch of adding tasks. *)
LEMMA SumFramed ==
  ASSUME call' = call, sum' = sum, count' = count, short' = short, Begun' = Begun,
         pc # "adding" \/ tasks = {}, pc' # "adding", SumOK
  PROVE  SumOK'
<1>1. /\ m' = m /\ n' = n /\ k' = k /\ Wanted' = Wanted
      /\ \A i, j, p : TermAt(i, j, p)' = TermAt(i, j, p)
      /\ \A d : pb(d)' = pb(d)
  BY SameCall
<1>2. \A i, j, p : Added(i, j, p)' <=> Added(i, j, p)
  <2>1. ASSUME NEW i, NEW j, NEW p PROVE Added(i, j, p)' <=> Added(i, j, p)
    BY <1>1 DEF Added
  <2>. QED
    BY <2>1
<1>3. SumCounted'
  BY <1>1 DEF SumOK, SumCounted
<1>4. LaterClean'
  BY <1>1, <1>2 DEF SumOK, LaterClean
<1>5. TodoClean'
  BY DEF TodoClean
<1>6. NothingLost'
  <2>1. SUFFICES ASSUME ~short, call.alpha # "zero",
                        NEW i \in 0..(m - 1), NEW j \in 0..(n - 1), NEW p \in 0..(k - 1),
                        p < Begun
                 PROVE  Added(i, j, p)
    BY <1>1, <1>2 DEF NothingLost, Accounted
  <2>2. Accounted(i, j, p)
    BY <2>1 DEF SumOK, NothingLost
  <2>. QED
    BY <2>2 DEF Accounted
<1>7. WholeSoFar'
  BY <1>1, <1>2 DEF SumOK, WholeSoFar
<1>. QED
  BY <1>3, <1>4, <1>5, <1>6, <1>7 DEF SumOK

(* A batch of adding tasks. *)
LEMMA BatchStarts ==
  ASSUME CallOK(call), DepthOK, SumOK, pc \notin {"adding", "done"}, NEW batch, NEW dep \in Nat,
         BatchOK(batch, dep), tasks' = batch, pc' = "adding",
         UNCHANGED <<call, plan, depth, sum, count, short>>, Begun' = depth + dep
  PROVE  SumOK' /\ AddTasksOK'
<1>1. /\ m' = m /\ n' = n /\ k' = k /\ Wanted' = Wanted
      /\ \A i, j, p : TermAt(i, j, p)' = TermAt(i, j, p)
      /\ \A d : pb(d)' = pb(d)
  BY SameCall
<1>2. \A i, j, p : Added(i, j, p)' <=> Added(i, j, p)
  <2>1. ASSUME NEW i, NEW j, NEW p PROVE Added(i, j, p)' <=> Added(i, j, p)
    BY <1>1 DEF Added
  <2>. QED
    BY <2>1
<1>3. /\ \A t : AddOK(t)' <=> AddOK(t)
      /\ \A t, u : AddedApart(t, u)' <=> AddedApart(t, u)
      /\ \A t, i, j, p : Todo(t, i, j, p)' <=> Todo(t, i, j, p)
  BY SameDepth
<1>4. Begun = depth /\ depth \in Nat
  BY BegunIs, DepthBlocks DEF DepthOK
<1>5. AddTasksOK'
  BY <1>3 DEF BatchOK, AddTasksOK
<1>6. SumCounted'
  BY <1>1 DEF SumOK, SumCounted
<1>7. LaterClean'
  <2>1. SUFFICES ASSUME NEW i \in 0..(m - 1), NEW j \in 0..(n - 1), NEW p \in 0..(k - 1),
                        depth + dep <= p
                 PROVE  ~Added(i, j, p)
    BY <1>1, <1>2 DEF LaterClean
  <2>2. Begun <= p
    BY <1>4, <2>1
  <2>. QED
    BY <2>2 DEF SumOK, LaterClean
<1>8. TodoClean'
  <2>1. SUFFICES ASSUME NEW t \in batch,
                        NEW i \in 0..(m - 1), NEW j \in 0..(n - 1), NEW p \in 0..(k - 1),
                        Todo(t, i, j, p)
                 PROVE  ~Added(i, j, p)
    BY <1>1, <1>2, <1>3 DEF TodoClean
  <2>2. i \in Nat /\ j \in Nat /\ p \in Nat
    BY Strides
  <2>3. Begun <= p
    BY <1>4, <2>1, <2>2 DEF BatchOK
  <2>. QED
    BY <2>3 DEF SumOK, LaterClean
<1>9. NothingLost'
  <2>1. SUFFICES ASSUME ~short, call.alpha # "zero",
                        NEW i \in 0..(m - 1), NEW j \in 0..(n - 1), NEW p \in 0..(k - 1),
                        p < depth + dep
                 PROVE  Added(i, j, p) \/ \E t \in batch : Todo(t, i, j, p)
    BY <1>1, <1>2, <1>3 DEF NothingLost, Accounted
  <2>2. CASE p < depth
    <3>1. Accounted(i, j, p)
      BY <1>4, <2>1, <2>2 DEF SumOK, NothingLost
    <3>. QED
      BY <3>1 DEF Accounted
  <2>3. CASE ~(p < depth)
    <3>1. depth <= p
      BY <1>4, <2>3
    <3>. QED
      BY <2>1, <3>1 DEF BatchOK
  <2>. QED
    BY <2>2, <2>3
<1>10. WholeSoFar'
  BY <1>1, <1>2 DEF SumOK, WholeSoFar
<1>. QED
  BY <1>5, <1>6, <1>7, <1>8, <1>9, <1>10 DEF SumOK

-----------------------------------------------------------------------------
(* The tasks of a batch. *)

(* Tasks that are apart have no term in common. *)
LEMMA ApartTodo ==
  ASSUME NEW t, NEW u, AddedApart(t, u), NEW i \in Nat, NEW j \in Nat, NEW p \in Nat,
         RowOf(t) \in Nat, ColOf(t) \in Nat, t.rows \in Nat, t.cols \in Nat,
         RowOf(u) \in Nat, ColOf(u) \in Nat, u.rows \in Nat, u.cols \in Nat,
         Todo(t, i, j, p)
  PROVE  ~Todo(u, i, j, p)
BY TodoParts DEF AddedApart

(* A task is replaced by what is left of it. *)
LEMMA Replaced ==
  ASSUME CallOK(call), DepthOK, PlanOK, AddTasksOK, NEW t \in tasks,
         tasks' = (tasks \ {t}) \cup After(t), UNCHANGED <<call, plan, depth>>
  PROVE  /\ AddTasksOK'
         /\ \A u \in tasks' : \A i, j, p \in Nat : Todo(u, i, j, p) =>
              /\ \E v \in tasks : Todo(v, i, j, p)
              /\ ~InNext(t, i, j, p)
         /\ \A i, j, p \in Nat : \A v \in tasks : Todo(v, i, j, p) =>
              InNext(t, i, j, p) \/ \E u \in tasks' : Todo(u, i, j, p)
<1>1. AddOK(t)
  BY DEF AddTasksOK
<1>2. Splits(t)
  BY <1>1, AfterSplits
<1>3. /\ \A u : AddOK(u)' <=> AddOK(u)
      /\ \A u, v : AddedApart(u, v)' <=> AddedApart(u, v)
  BY SameDepth
<1>4. \A u \in tasks' : AddOK(u)
  BY <1>2 DEF Splits, AddTasksOK
<1>5. \A u, v \in After(t) : u = v
  BY DEF After
<1>6. \A u \in tasks : u # t => AddedApart(t, u) /\ AddedApart(u, t)
  BY DEF AddTasksOK
<1>7. \A u \in tasks : \A v \in After(t) : u # t => AddedApart(v, u) /\ AddedApart(u, v)
  BY <1>2, <1>6 DEF Splits, AddedApart
<1>8. ASSUME NEW u \in tasks', NEW v \in tasks', u # v PROVE AddedApart(u, v)
  <2>1. CASE u \in After(t) /\ v \in After(t)
    BY <1>5, <1>8, <2>1
  <2>2. CASE u \in After(t) /\ v \notin After(t)
    BY <1>7, <2>2
  <2>3. CASE u \notin After(t) /\ v \in After(t)
    BY <1>7, <2>3
  <2>4. CASE u \notin After(t) /\ v \notin After(t)
    BY <1>8, <2>4 DEF AddTasksOK
  <2>. QED
    BY <2>1, <2>2, <2>3, <2>4
<1>9. AddTasksOK'
  BY <1>3, <1>4, <1>8 DEF AddTasksOK
<1>10. ASSUME NEW u \in tasks', NEW i \in Nat, NEW j \in Nat, NEW p \in Nat, Todo(u, i, j, p)
       PROVE  (\E v \in tasks : Todo(v, i, j, p)) /\ ~InNext(t, i, j, p)
  <2>1. CASE u \in After(t)
    BY <1>2, <1>10, <2>1 DEF Splits
  <2>2. CASE u \notin After(t)
    <3>1. u \in tasks /\ u # t
      BY <2>2
    <3>2. AddOK(u) /\ AddedApart(u, t)
      BY <1>6, <3>1 DEF AddTasksOK
    <3>3. /\ RowOf(t) \in Nat /\ ColOf(t) \in Nat /\ t.rows \in Nat /\ t.cols \in Nat
          /\ RowOf(u) \in Nat /\ ColOf(u) \in Nat /\ u.rows \in Nat /\ u.cols \in Nat
      BY <1>1, <3>2, TaskNumbers
    <3>4. ~Todo(t, i, j, p)
      BY <1>10, <3>2, <3>3, ApartTodo
    <3>5. ~InNext(t, i, j, p)
      BY <1>2, <3>4 DEF Splits
    <3>. QED
      BY <1>10, <3>1, <3>5
  <2>. QED
    BY <2>1, <2>2
<1>11. ASSUME NEW i \in Nat, NEW j \in Nat, NEW p \in Nat, NEW v \in tasks, Todo(v, i, j, p)
       PROVE  InNext(t, i, j, p) \/ \E u \in tasks' : Todo(u, i, j, p)
  <2>1. CASE v = t
    BY <1>2, <1>11, <2>1 DEF Splits
  <2>2. CASE v # t
    BY <1>11, <2>2
  <2>. QED
    BY <2>1, <2>2
<1>. QED
  BY <1>9, <1>10, <1>11

(* No task reaches beyond the depth that batches were started for. *)
LEMMA TaskDepth ==
  ASSUME CallOK(call), DepthOK, PlanOK, pc = "adding", NEW t, AddOK(t)
  PROVE  depth + t.dep = Begun
<1>1. Begun = IF plan \in {"tiles", "shared"} THEN depth + pb(depth) ELSE k
  BY BegunIs
<1>2. /\ t.loop = "none" => t.dep = pb(depth)
      /\ t.loop # "none" => depth = 0 /\ t.dep = k
  BY TaskNumbers
<1>3. CASE plan \in {"tiles", "shared"}
  <2>1. t.loop = "none"
    BY <1>3 DEF AddOK, KindOK
  <2>. QED
    BY <1>1, <1>2, <1>3, <2>1
<1>4. CASE plan \in {"single", "bands"}
  <2>1. t.loop # "none"
    BY <1>4 DEF AddOK, KindOK
  <2>2. k \in Nat
    BY Strides
  <2>. QED
    BY <1>1, <1>2, <1>4, <2>1, <2>2
<1>. QED
  BY <1>3, <1>4 DEF PlanOK

(* The terms of the next kernel call, among all. *)
LEMMA NextTerms ==
  ASSUME CallOK(call), DepthOK, PlanOK, NEW t, AddOK(t)
  PROVE  LET g == KernelArgs(t)
         IN  /\ \A x \in BlockTerms(g) :
                  \E i \in 0..(m - 1), j \in 0..(n - 1), p \in 0..(k - 1) :
                    x = TermAt(i, j, p) /\ InNext(t, i, j, p)
             /\ \A i \in 0..(m - 1), j \in 0..(n - 1), p \in 0..(k - 1) :
                  TermAt(i, j, p) \in BlockTerms(g) <=> InNext(t, i, j, p)
             /\ IsFiniteSet(BlockTerms(g))
             /\ Cardinality(BlockTerms(g)) = g.cols * g.dep * g.rows
<1> DEFINE g == KernelArgs(t)
           B == BlockTerms(g)
<1>1. BlockAt(g, NextRow(t), NextCol(t), NextDep(t))
  BY NextBlock
<1>3. \A i, j, p : InNext(t, i, j, p) <=> InBox(i, j, p, g, NextRow(t), NextCol(t), NextDep(t))
  BY DEF InNext
<1>4. m \in Nat /\ n \in Nat /\ k \in Nat
  BY Strides
<1> HIDE DEF g
<1>5. IsFiniteSet(B) /\ Cardinality(B) = g.cols * g.dep * g.rows
  BY <1>1, BlockCount
<1>6. /\ \A x \in B : \E i \in 0..(m - 1), j \in 0..(n - 1), p \in 0..(k - 1) :
           x = TermAt(i, j, p) /\ InBox(i, j, p, g, NextRow(t), NextCol(t), NextDep(t))
      /\ \A i, j, p \in Nat :
           InBox(i, j, p, g, NextRow(t), NextCol(t), NextDep(t)) => TermAt(i, j, p) \in B
  BY <1>1, BlockBox
<1> HIDE DEF B
<1>7. \A x \in B : \E i \in 0..(m - 1), j \in 0..(n - 1), p \in 0..(k - 1) :
        x = TermAt(i, j, p) /\ InNext(t, i, j, p)
  BY <1>3, <1>6
<1>8. ASSUME NEW i \in 0..(m - 1), NEW j \in 0..(n - 1), NEW p \in 0..(k - 1)
      PROVE  TermAt(i, j, p) \in B <=> InNext(t, i, j, p)
  <2>1. i \in Nat /\ j \in Nat /\ p \in Nat
    BY <1>4
  <2>2. ASSUME TermAt(i, j, p) \in B PROVE InNext(t, i, j, p)
    <3>1. PICK u \in 0..(m - 1), v \in 0..(n - 1), q \in 0..(k - 1) :
            TermAt(i, j, p) = TermAt(u, v, q) /\ InNext(t, u, v, q)
      BY <1>7, <2>2
    <3>2. u \in Nat /\ q \in Nat
      BY <1>4
    <3>3. i = u /\ j = v /\ p = q
      BY <2>1, <3>1, <3>2, OneTerm
    <3>. QED
      BY <3>1, <3>3
  <2>. QED
    BY <1>3, <1>6, <2>1, <2>2
<1>. QED
  BY <1>5, <1>7, <1>8 DEF g, B

(* A block that meets a block of the depth is that block.                   *)
LEMMA OneBlock ==
  ASSUME CallOK(call), NEW b \in Starts(k, cblas_gemm_kc), NEW d \in Starts(k, cblas_gemm_kc),
         NEW p, p \in b..(b + pb(b) - 1), d <= p, p < d + pb(d)
  PROVE  b = d
<1>1. /\ b \in Nat /\ d \in Nat /\ pb(b) \in Nat /\ pb(d) \in Nat
      /\ pb(b) <= cblas_gemm_kc /\ pb(d) <= cblas_gemm_kc /\ cblas_gemm_kc \in Nat \ {0}
  BY DepthBlocks
<1>2. k \in Nat
  BY Strides
<1>3. /\ b < d => b + cblas_gemm_kc <= d
      /\ d < b => d + cblas_gemm_kc <= b
  BY <1>1, <1>2, StartsFacts
<1>. QED
  BY <1>1, <1>3

(* A kernel call adds its block. *)
LEMMA KernelSum ==
  ASSUME CallOK(call), DepthOK, PlanOK, PanelOK, SumOK, AddTasksOK, pc = "adding",
         NEW t \in tasks, KernelTask(t)
  PROVE  SumOK' /\ AddTasksOK'
<1> DEFINE g == KernelArgs(t)
           B == BlockTerms(g)
<1>1. AddOK(t)
  BY DEF AddTasksOK
<1>2. sum' = sum \cup B /\ count' = count + g.cols * g.dep * g.rows
  BY <1>1, TaskAdds
<1>3. /\ tasks' = (tasks \ {t}) \cup After(t)
      /\ pc' = pc /\ call' = call /\ plan' = plan /\ depth' = depth /\ short' = short
  BY DEF KernelTask
<1>4. /\ \A x \in B :
           \E i \in 0..(m - 1), j \in 0..(n - 1), p \in 0..(k - 1) :
             x = TermAt(i, j, p) /\ InNext(t, i, j, p)
      /\ \A i \in 0..(m - 1), j \in 0..(n - 1), p \in 0..(k - 1) :
           TermAt(i, j, p) \in B <=> InNext(t, i, j, p)
      /\ IsFiniteSet(B) /\ Cardinality(B) = g.cols * g.dep * g.rows
  BY <1>1, NextTerms
<1>5. NextDep(t) \in Starts(k, cblas_gemm_kc) /\ g.dep = pb(NextDep(t))
  BY <1>1, TaskNumbers, NextBlock
<1>6. /\ AddTasksOK'
      /\ \A u \in tasks' : \A i, j, p \in Nat : Todo(u, i, j, p) =>
           (\E v \in tasks : Todo(v, i, j, p)) /\ ~InNext(t, i, j, p)
      /\ \A i, j, p \in Nat : \A v \in tasks : Todo(v, i, j, p) =>
           InNext(t, i, j, p) \/ \E u \in tasks' : Todo(u, i, j, p)
  BY <1>3, Replaced
<1>7. \A i, j, p \in Nat : InNext(t, i, j, p) => Todo(t, i, j, p)
  BY <1>1, AfterSplits DEF Splits
<1>8. /\ m' = m /\ n' = n /\ k' = k /\ Wanted' = Wanted
      /\ \A i, j, p : TermAt(i, j, p)' = TermAt(i, j, p)
      /\ \A d : pb(d)' = pb(d)
  BY <1>3, SameCall
<1>9. \A u, i, j, p : Todo(u, i, j, p)' <=> Todo(u, i, j, p)
  BY <1>3, SameDepth
<1>10. m \in Nat /\ n \in Nat /\ k \in Nat
  BY Strides
<1>11. \A i, j, p : InNext(t, i, j, p) =>
         NextDep(t) <= p /\ p < NextDep(t) + pb(NextDep(t))
  BY <1>5 DEF InNext, InBox
<1>12. \A i, j, p, q : InNext(t, i, j, p) /\ NextDep(t) <= q /\ q < NextDep(t) + pb(NextDep(t))
         => InNext(t, i, j, q)
  BY <1>5 DEF InNext, InBox
<1>13. Begun' = Begun
  <2>1. pb(depth)' = pb(depth)
    BY <1>3 DEF pb, k
  <2>. QED
    BY <1>3, <1>8, <2>1 DEF Begun
<1> HIDE DEF g, B
<1>14. \A i \in 0..(m - 1), j \in 0..(n - 1), p \in 0..(k - 1) :
         Added(i, j, p)' <=> Added(i, j, p) \/ InNext(t, i, j, p)
  <2>1. ASSUME NEW i \in 0..(m - 1), NEW j \in 0..(n - 1), NEW p \in 0..(k - 1)
        PROVE  Added(i, j, p)' <=> Added(i, j, p) \/ InNext(t, i, j, p)
    <3>1. Added(i, j, p)' <=> TermAt(i, j, p) \in sum'
      BY <1>8 DEF Added
    <3>2. TermAt(i, j, p) \in sum' <=> Added(i, j, p) \/ TermAt(i, j, p) \in B
      BY <1>2 DEF Added
    <3>. QED
      BY <3>1, <3>2, <1>4
  <2>. QED
    BY <2>1
<1>15. \A i \in 0..(m - 1), j \in 0..(n - 1), p \in 0..(k - 1) :
         InNext(t, i, j, p) => ~Added(i, j, p)
  <2>1. ASSUME NEW i \in 0..(m - 1), NEW j \in 0..(n - 1), NEW p \in 0..(k - 1),
               InNext(t, i, j, p)
        PROVE  ~Added(i, j, p)
    <3>1. Todo(t, i, j, p)
      BY <1>7, <1>10, <2>1
    <3>. QED
      BY <3>1 DEF SumOK, TodoClean
  <2>. QED
    BY <2>1
<1>16. SumCounted'
  <2>1. sum \subseteq Wanted /\ IsFiniteSet(sum) /\ count = Cardinality(sum)
    BY DEF SumOK, SumCounted
  <2>2. B \subseteq Wanted
    BY <1>4, WantedTerms
  <2>3. sum \cap B = {}
    <3>1. ASSUME NEW x \in B PROVE x \notin sum
      BY <1>4, <1>15 DEF Added
    <3>. QED
      BY <3>1
  <2>4. /\ IsFiniteSet(sum \cup B)
        /\ Cardinality(sum \cup B) = Cardinality(sum) + Cardinality(B) - Cardinality(sum \cap B)
    BY <1>4, <2>1, FS_Union
  <2>5. Cardinality(sum \cap B) = 0 /\ Cardinality(sum) \in Nat /\ Cardinality(B) \in Nat
    BY <1>4, <2>1, <2>3, FS_EmptySet, FS_CardinalityType
  <2>6. count' = count + Cardinality(B)
    BY <1>2, <1>4
  <2>7. count' = Cardinality(sum')
    BY <1>2, <2>1, <2>4, <2>5, <2>6
  <2>. QED
    BY <1>2, <1>8, <2>1, <2>2, <2>4, <2>7 DEF SumCounted
<1>17. LaterClean'
  <2>1. SUFFICES ASSUME NEW i \in 0..(m - 1), NEW j \in 0..(n - 1), NEW p \in 0..(k - 1),
                        Begun <= p
                 PROVE  ~Added(i, j, p) /\ ~InNext(t, i, j, p)
    BY <1>8, <1>13, <1>14 DEF LaterClean
  <2>2. ~Added(i, j, p)
    BY <2>1 DEF SumOK, LaterClean
  <2>3. ASSUME InNext(t, i, j, p) PROVE FALSE
    <3>1. Todo(t, i, j, p)
      BY <1>7, <1>10, <2>3
    <3>2. p < depth + t.dep
      BY <3>1, TodoParts
    <3>3. depth + t.dep = Begun
      BY <1>1, TaskDepth
    <3>4. depth \in Nat /\ t.dep \in Nat
      <4>1. /\ t.loop = "none" => t.dep = pb(depth)
            /\ t.loop # "none" => t.dep = k
        BY <1>1, TaskNumbers
      <4>. QED
        BY <4>1, <1>10, DepthBlocks DEF DepthOK
    <3>. QED
      BY <2>1, <3>2, <3>3, <3>4
  <2>. QED
    BY <2>2, <2>3
<1>18. TodoClean'
  <2>1. SUFFICES ASSUME NEW u \in tasks',
                        NEW i \in 0..(m - 1), NEW j \in 0..(n - 1), NEW p \in 0..(k - 1),
                        Todo(u, i, j, p)
                 PROVE  ~Added(i, j, p) /\ ~InNext(t, i, j, p)
    BY <1>8, <1>9, <1>14 DEF TodoClean
  <2>2. PICK v \in tasks : Todo(v, i, j, p)
    BY <1>6, <1>10, <2>1
  <2>3. ~Added(i, j, p)
    BY <2>2 DEF SumOK, TodoClean
  <2>. QED
    BY <1>6, <1>10, <2>1, <2>3
<1>19. NothingLost'
  <2>1. SUFFICES ASSUME ~short, call.alpha # "zero",
                        NEW i \in 0..(m - 1), NEW j \in 0..(n - 1), NEW p \in 0..(k - 1),
                        p < Begun
                 PROVE  Added(i, j, p) \/ InNext(t, i, j, p) \/ \E u \in tasks' : Todo(u, i, j, p)
    BY <1>3, <1>8, <1>9, <1>13, <1>14 DEF NothingLost, Accounted
  <2>2. Added(i, j, p) \/ \E v \in tasks : Todo(v, i, j, p)
    BY <2>1 DEF SumOK, NothingLost, Accounted
  <2>. QED
    BY <1>6, <1>10, <2>2
<1>20. WholeSoFar'
  <2>1. SUFFICES ASSUME NEW i \in 0..(m - 1), NEW j \in 0..(n - 1),
                        NEW b \in Starts(k, cblas_gemm_kc),
                        NEW p \in b..(b + pb(b) - 1), NEW q \in b..(b + pb(b) - 1),
                        Added(i, j, p)'
                 PROVE  Added(i, j, q)'
    BY <1>8 DEF WholeSoFar
  <2>2. p \in 0..(k - 1) /\ q \in 0..(k - 1) /\ b \in Nat /\ pb(b) \in Nat
    BY <1>10, DepthBlocks
  <2>3. CASE Added(i, j, p)
    <3>1. Added(i, j, q)
      BY <2>3 DEF SumOK, WholeSoFar
    <3>. QED
      BY <3>1, <2>2, <1>14
  <2>4. CASE InNext(t, i, j, p)
    <3>1. NextDep(t) <= p /\ p < NextDep(t) + pb(NextDep(t))
      BY <1>11, <2>4
    <3>2. b = NextDep(t)
      BY <1>5, <3>1, OneBlock
    <3>3. NextDep(t) <= q /\ q < NextDep(t) + pb(NextDep(t))
      BY <2>2, <3>2
    <3>4. InNext(t, i, j, q)
      BY <1>12, <2>4, <3>3
    <3>. QED
      BY <3>4, <2>2, <1>14
  <2>. QED
    BY <1>14, <2>1, <2>2, <2>3, <2>4
<1>. QED
  BY <1>6, <1>16, <1>17, <1>18, <1>19, <1>20 DEF SumOK

(* A kernel that gives up leaves its block out. *)
LEMMA GivesUpSum ==
  ASSUME CallOK(call), DepthOK, PlanOK, SumOK, AddTasksOK, pc = "adding",
         NEW t \in tasks, KernelGivesUp(t)
  PROVE  SumOK' /\ AddTasksOK'
<1>1. /\ tasks' = (tasks \ {t}) \cup After(t) /\ short' = TRUE
      /\ pc' = pc /\ call' = call /\ plan' = plan /\ depth' = depth
      /\ sum' = sum /\ count' = count
  BY DEF KernelGivesUp
<1>2. /\ AddTasksOK'
      /\ \A u \in tasks' : \A i, j, p \in Nat : Todo(u, i, j, p) =>
           (\E v \in tasks : Todo(v, i, j, p)) /\ ~InNext(t, i, j, p)
  BY <1>1, Replaced
<1>3. /\ m' = m /\ n' = n /\ k' = k /\ Wanted' = Wanted
      /\ \A i, j, p : TermAt(i, j, p)' = TermAt(i, j, p)
      /\ \A d : pb(d)' = pb(d)
  BY <1>1, SameCall
<1>4. \A u, i, j, p : Todo(u, i, j, p)' <=> Todo(u, i, j, p)
  BY <1>1, SameDepth
<1>5. m \in Nat /\ n \in Nat /\ k \in Nat
  BY Strides
<1>6. Begun' = Begun
  <2>1. pb(depth)' = pb(depth)
    BY <1>1 DEF pb, k
  <2>. QED
    BY <1>1, <1>3, <2>1 DEF Begun
<1>7. \A i, j, p : Added(i, j, p)' <=> Added(i, j, p)
  <2>1. ASSUME NEW i, NEW j, NEW p PROVE Added(i, j, p)' <=> Added(i, j, p)
    BY <1>1, <1>3 DEF Added
  <2>. QED
    BY <2>1
<1>8. SumCounted'
  BY <1>1, <1>3 DEF SumOK, SumCounted
<1>9. LaterClean'
  BY <1>3, <1>6, <1>7 DEF SumOK, LaterClean
<1>10. TodoClean'
  <2>1. SUFFICES ASSUME NEW u \in tasks',
                        NEW i \in 0..(m - 1), NEW j \in 0..(n - 1), NEW p \in 0..(k - 1),
                        Todo(u, i, j, p)
                 PROVE  ~Added(i, j, p)
    BY <1>3, <1>4, <1>7 DEF TodoClean
  <2>2. PICK v \in tasks : Todo(v, i, j, p)
    BY <1>2, <1>5, <2>1
  <2>. QED
    BY <2>2 DEF SumOK, TodoClean
<1>11. NothingLost'
  BY <1>1 DEF NothingLost
<1>12. WholeSoFar'
  BY <1>3, <1>7 DEF SumOK, WholeSoFar
<1>. QED
  BY <1>2, <1>8, <1>9, <1>10, <1>11, <1>12 DEF SumOK

-----------------------------------------------------------------------------
(* The steps. *)

LEMMA InitInv == Init => IInv
<1> SUFFICES ASSUME Init PROVE IInv
  OBVIOUS
<1>1. pc = "idle" /\ plan = "single" /\ depth = 0 /\ tasks = {} /\ sum = {} /\ count = 0
      /\ scaled = {} /\ short = FALSE
  BY DEF Init
<1>. QED
  BY <1>1 DEF IInv, CallInv, StageInv, StageOK, TasksInv, SumInv, PanelInv

(* What the invariant says during a call. *)
LEMMA DuringCall ==
  ASSUME IInv, pc # "idle"
  PROVE  /\ CallOK(call) /\ DepthOK /\ PlanOK /\ StageOK /\ SumOK /\ PanelOK
         /\ pc = "packing" => PackTasksOK
         /\ pc = "adding" => AddTasksOK
<1>1. CallOK(call) /\ StageOK /\ SumOK /\ PanelOK /\ TasksInv
  BY DEF IInv, CallInv, StageInv, SumInv, PanelInv
<1>2. DepthOK /\ PlanOK
  BY <1>1 DEF StageOK, DepthOK, PlanOK
<1>. QED
  BY <1>1, <1>2 DEF TasksInv

LEMMA CallStep ==
  ASSUME IInv, cblas_gemm
  PROVE  IInv'
<1>1. PICK r \in Routines : \E host \in Hosts, c \in Arguments(r), t \in Threads :
        call' = GemmCall(host.features, c, t)
  BY DEF cblas_gemm
<1>2. PICK host \in Hosts, c \in Arguments(r), t \in Threads :
        call' = GemmCall(host.features, c, t)
  BY <1>1
<1>3. CallOK(call')
  BY <1>2, CallsAreOK
<1>4. /\ pc = "idle" /\ pc' = "scale" /\ plan' = plan /\ depth' = depth /\ tasks' = tasks
      /\ panel' = panel /\ sum' = sum /\ count' = count /\ scaled' = scaled /\ short' = short
  BY DEF cblas_gemm
<1>5. /\ depth = 0 /\ sum = {} /\ count = 0 /\ short = FALSE /\ tasks = {}
      /\ plan = "single" /\ scaled = {}
  BY <1>4 DEF IInv, StageInv, StageOK
<1>6. 0 \in Starts(k', cblas_gemm_kc)
  <2>1. k' \in Nat /\ k' > 0
    BY <1>3 DEF CallOK, k
  <2>. QED
    BY <2>1, StartsFacts, GemmAssumption
<1>7. StageOK'
  BY <1>4, <1>5, <1>6 DEF StageOK
<1>8. SumOK'
  <2>1. Begun' = 0
    BY <1>4, <1>5 DEF Begun
  <2>. QED
    BY <1>3, <1>4, <1>5, <2>1, SumEmpty
<1>9. PanelOK'
  BY <1>4 DEF PanelOK
<1>. QED
  BY <1>3, <1>4, <1>7, <1>8, <1>9 DEF IInv, CallInv, StageInv, TasksInv, SumInv, PanelInv

LEMMA ScaleStep ==
  ASSUME IInv, ScaleC
  PROVE  IInv'
<1>1. /\ pc = "scale" /\ call' = call /\ depth' = depth /\ tasks' = tasks
      /\ panel' = panel /\ sum' = sum /\ count' = count /\ short' = short
      /\ scaled' = (IF call.beta = "one" THEN {} ELSE Places)
      /\ pc' = (IF call.alpha = "zero" THEN "done" ELSE "plan")
      /\ plan' \in {"single", "bands", "tiles", "shared"}
  BY DEF ScaleC
<1>2. CallOK(call) /\ StageOK
  BY <1>1, DuringCall
<1>3. m' = m /\ n' = n /\ k' = k /\ Places' = Places
  BY <1>1, SameCall
<1>4. depth = 0 /\ sum = {} /\ count = 0 /\ short = FALSE /\ tasks = {}
  BY <1>1, <1>2 DEF StageOK
<1>5. depth \in Starts(k, cblas_gemm_kc)
  BY <1>1, <1>2 DEF StageOK
<1>6. StageOK'
  BY <1>1, <1>3, <1>4, <1>5 DEF StageOK
<1>7. SumOK'
  <2>1. call'.alpha = "zero" \/ Begun' = 0
    BY <1>1, <1>4 DEF Begun
  <2>. QED
    BY <1>1, <1>2, <1>4, <2>1, SumEmpty
<1>8. PanelOK'
  BY <1>1 DEF PanelOK
<1>. QED
  BY <1>1, <1>2, <1>6, <1>7, <1>8 DEF IInv, CallInv, StageInv, TasksInv, SumInv, PanelInv

(* The shared panel is allocated, or not, or nothing is.                    *)
LEMMA AllocationStep ==
  ASSUME IInv, AllocateShared \/ NoSharedBuffer \/ NoQueue
  PROVE  IInv'
<1>1. /\ pc = "plan" /\ call' = call /\ depth' = depth /\ tasks' = tasks
      /\ sum' = sum /\ count' = count /\ scaled' = scaled
      /\ pc' \in {"pack", "plan", "done"}
  BY DEF AllocateShared, NoSharedBuffer, NoQueue
<1>2. CallOK(call) /\ StageOK
  BY <1>1, DuringCall
<1>3. m' = m /\ n' = n /\ k' = k /\ Places' = Places
  BY <1>1, SameCall
<1>4. /\ depth = 0 /\ sum = {} /\ count = 0 /\ short = FALSE /\ tasks = {}
      /\ depth \in Starts(k, cblas_gemm_kc) /\ call.alpha # "zero"
      /\ scaled = (IF call.beta = "one" THEN {} ELSE Places)
      /\ plan \in {"single", "bands", "tiles", "shared"}
  BY <1>1, <1>2 DEF StageOK
<1>5. StageOK'
  <2>1. CASE AllocateShared
    <3>1. /\ pc' = "pack" /\ plan' = plan /\ plan = "shared" /\ short' = short
          /\ DOMAIN panel' = 0..(cblas_gemm_kc * n - 1)
      BY <2>1 DEF AllocateShared
    <3>. QED
      BY <1>1, <1>3, <1>4, <3>1 DEF StageOK
  <2>2. CASE NoSharedBuffer
    <3>1. pc' = "plan" /\ plan' \in {"bands", "tiles"} /\ short' = short
      BY <1>1, <2>2 DEF NoSharedBuffer
    <3>. QED
      BY <1>1, <1>3, <1>4, <3>1 DEF StageOK
  <2>3. CASE NoQueue
    <3>1. pc' = "done" /\ plan' = plan /\ plan \in {"bands", "tiles"}
      BY <2>3 DEF NoQueue
    <3>. QED
      BY <1>1, <1>3, <1>4, <3>1 DEF StageOK
  <2>. QED
    BY <2>1, <2>2, <2>3
<1>6. SumOK'
  <2>1. short' \/ Begun' = 0
    BY <1>1, <1>4 DEF NoQueue, AllocateShared, NoSharedBuffer, Begun
  <2>. QED
    BY <1>1, <1>2, <1>4, <2>1, SumEmpty
<1>7. PanelOK'
  BY <1>1 DEF PanelOK
<1>. QED
  BY <1>1, <1>2, <1>5, <1>6, <1>7 DEF IInv, CallInv, StageInv, TasksInv, SumInv, PanelInv

(* A batch of adding tasks begins. *)
LEMMA AddingStep ==
  ASSUME IInv, SingleThreaded \/ Bands \/ Tiles \/ MacroBatch
  PROVE  IInv'
<1>1. /\ pc \in {"plan", "tiles", "packing"} /\ pc' = "adding"
      /\ call' = call /\ plan' = plan /\ depth' = depth /\ panel' = panel
      /\ sum' = sum /\ count' = count /\ scaled' = scaled /\ short' = short
  BY DEF SingleThreaded, Bands, Tiles, MacroBatch
<1>2. CallOK(call) /\ DepthOK /\ PlanOK /\ StageOK /\ SumOK /\ PanelOK
  BY <1>1, DuringCall
<1>3. m' = m /\ n' = n /\ k' = k /\ Places' = Places /\ \A d : pb(d)' = pb(d)
  BY <1>1, SameCall
<1>4. k \in Nat /\ pb(depth) \in Nat /\ depth \in Nat
  BY <1>2, Strides, DepthBlocks DEF DepthOK
<1>5. /\ depth \in Starts(k, cblas_gemm_kc) /\ call.alpha # "zero"
      /\ scaled = (IF call.beta = "one" THEN {} ELSE Places)
      /\ plan \in {"single", "bands", "tiles", "shared"}
      /\ plan \in {"single", "bands"} => depth = 0
      /\ pc = "packing" => plan = "shared" /\ DOMAIN panel = 0..(cblas_gemm_kc * n - 1)
  BY <1>1, <1>2 DEF StageOK
<1>6. plan = "shared" => pc = "packing" /\ tasks = {}
  BY <1>1 DEF SingleThreaded, Bands, Tiles, MacroBatch
<1>7. StageOK'
  BY <1>1, <1>3, <1>5, <1>6 DEF StageOK
<1>8. Begun' = IF plan \in {"tiles", "shared"} THEN depth + pb(depth) ELSE k
  <2>1. pb(depth)' = pb(depth)
    BY <1>1 DEF pb, k
  <2>. QED
    BY <1>1, <1>3, <2>1 DEF Begun
<1>9. SumOK' /\ AddTasksOK'
  <2>1. CASE SingleThreaded
    <3>1. plan = "single" /\ depth = 0 /\ tasks' = {SingleTask}
      BY <1>5, <2>1 DEF SingleThreaded
    <3>2. BatchOK({SingleTask}, k) /\ Begun' = depth + k
      BY <1>2, <1>4, <1>8, <3>1, SingleBatch
    <3>. QED
      BY <1>1, <1>2, <1>4, <3>1, <3>2, BatchStarts
  <2>2. CASE Bands
    <3>1. plan = "bands" /\ depth = 0 /\ tasks' = BandTasks
      BY <1>5, <2>2 DEF Bands
    <3>2. BatchOK(BandTasks, k) /\ Begun' = depth + k
      BY <1>2, <1>4, <1>8, <3>1, BandBatch
    <3>. QED
      BY <1>1, <1>2, <1>4, <3>1, <3>2, BatchStarts
  <2>3. CASE Tiles
    <3>1. plan = "tiles" /\ tasks' = TileTasks(depth)
      BY <2>3 DEF Tiles
    <3>2. BatchOK(TileTasks(depth), pb(depth)) /\ Begun' = depth + pb(depth)
      BY <1>2, <1>8, <3>1, TileBatch
    <3>. QED
      BY <1>1, <1>2, <1>4, <3>1, <3>2, BatchStarts
  <2>4. CASE MacroBatch
    <3>1. plan = "shared" /\ tasks' = MacroTasks(depth)
      BY <1>5, <2>4 DEF MacroBatch
    <3>2. BatchOK(MacroTasks(depth), pb(depth)) /\ Begun' = depth + pb(depth)
      BY <1>2, <1>8, <3>1, MacroBatchOK
    <3>. QED
      BY <1>1, <1>2, <1>4, <3>1, <3>2, BatchStarts
  <2>. QED
    BY <2>1, <2>2, <2>3, <2>4
<1>10. PanelOK'
  <2>1. CASE plan = "shared"
    <3>1. /\ \A j, q : PanelAt(j, q)' = PanelAt(j, q)
          /\ pb(depth)' = pb(depth) /\ b_row_stride' = b_row_stride /\ b_col_stride' = b_col_stride
      BY <1>1, SameDepth, SameCall DEF pb, k
    <3>2. \A j \in 0..((n \div WidthOf(call.routine)) * WidthOf(call.routine) - 1),
             q \in 0..(pb(depth) - 1) :
            panel[PanelAt(j, q)] = (depth + q) * b_row_stride + j * b_col_stride
      BY <1>2, <1>6, <2>1 DEF PanelOK
    <3>. QED
      BY <1>1, <1>3, <3>1, <3>2 DEF PanelOK
  <2>2. CASE plan # "shared"
    BY <1>1, <2>2 DEF PanelOK
  <2>. QED
    BY <2>1, <2>2
<1>. QED
  BY <1>1, <1>2, <1>7, <1>9, <1>10 DEF IInv, CallInv, StageInv, TasksInv, SumInv, PanelInv

(* A batch of packing tasks begins. *)
LEMMA PackingStep ==
  ASSUME IInv, PackBatch
  PROVE  IInv'
<1>1. /\ pc = "pack" /\ pc' = "packing" /\ tasks' = PackTasks(depth)
      /\ call' = call /\ plan' = plan /\ depth' = depth /\ panel' = panel
      /\ sum' = sum /\ count' = count /\ scaled' = scaled /\ short' = short
  BY DEF PackBatch
<1>2. CallOK(call) /\ DepthOK /\ PlanOK /\ StageOK /\ SumOK
  BY <1>1, DuringCall
<1>3. m' = m /\ n' = n /\ k' = k /\ Places' = Places /\ \A d : pb(d)' = pb(d)
  BY <1>1, SameCall
<1>4. StageOK'
  BY <1>1, <1>2, <1>3 DEF StageOK
<1>5. SumOK'
  <2>1. Begun' = Begun
    BY <1>1 DEF Begun
  <2>. QED
    BY <1>1, <1>2, <2>1, SumFramed
<1>6. /\ \A t \in PackTasks(depth) : PackOK(t)
      /\ \A t, u \in PackTasks(depth) : t # u => PackedApart(t, u)
      /\ \A j \in 0..(n - 1) : \E t \in PackTasks(depth) :
           PackedCol(t) <= j /\ j < PackedCol(t) + t.cols
  BY <1>2, PackBatchOK
<1>7. /\ \A t : PackOK(t)' <=> PackOK(t)
      /\ \A t, u : PackedApart(t, u)' <=> PackedApart(t, u)
      /\ \A t : PackedCol(t)' = PackedCol(t)
  BY <1>1, SameDepth
<1>8. PackTasksOK'
  BY <1>1, <1>6, <1>7 DEF PackTasksOK
<1>9. PanelOK'
  <2> DEFINE w  == WidthOf(call.routine)
             nw == (n \div w) * w
  <2>1. \A j \in 0..(nw - 1) : j \in 0..(n - 1)
    <3>1. w \in Nat \ {0} /\ n \in Nat
      <4>1. call.routine \in {"sgemm", "dgemm"}
        BY <1>2 DEF CallOK
      <4>. QED
        BY <1>2, <4>1, SharedKernels, Strides
    <3> HIDE DEF w
    <3>2. n \div w \in Nat /\ n % w \in Nat /\ n = w * (n \div w) + (n % w)
      BY <3>1, DivMod
    <3> DEFINE y == n \div w
               z == n % w
    <3>3. y \in Nat /\ z \in Nat /\ n = w * y + z /\ nw = y * w
      BY <3>2
    <3> HIDE DEF y, z
    <3>4. y * w = w * y /\ w * y \in Nat
      BY <3>1, <3>3, MulFacts
    <3> DEFINE aw == w * y
    <3>5. aw \in Nat /\ n = aw + z /\ nw = aw
      BY <3>3, <3>4
    <3> HIDE DEF aw, nw
    <3>. QED
      BY <3>3, <3>5
  <2>2. \A j \in 0..(nw - 1) : \E t \in tasks' : PackedCol(t)' <= j /\ j < PackedCol(t)' + t.cols
    BY <1>1, <1>6, <1>7, <2>1
  <2>3. n' = n /\ call' = call /\ pc' = "packing"
    BY <1>1, <1>3
  <2>. QED
    BY <2>2, <2>3 DEF PanelOK
<1>. QED
  BY <1>1, <1>2, <1>4, <1>5, <1>8, <1>9 DEF IInv, CallInv, StageInv, TasksInv, SumInv, PanelInv

(* Packing tasks run in a packing batch, the others in an adding one. *)
LEMMA TaskStages ==
  ASSUME IInv, NEW t \in tasks
  PROVE  /\ pc \in {"packing", "adding"}
         /\ t.kind = "pack" => pc = "packing"
         /\ t.kind \in {"kernel", "macro"} => pc = "adding"
<1>1. pc \in {"packing", "adding"}
  BY DEF IInv, StageInv, StageOK
<1>2. pc = "packing" => t.kind = "pack"
  BY DuringCall DEF PackTasksOK, PackOK
<1>3. pc = "adding" => t.kind \in {"kernel", "macro"}
  <2> SUFFICES ASSUME pc = "adding" PROVE t.kind \in {"kernel", "macro"}
    OBVIOUS
  <2>1. AddOK(t) /\ PlanOK
    BY DuringCall DEF AddTasksOK
  <2>. QED
    BY <2>1 DEF AddOK, KindOK, PlanOK
<1>. QED
  BY <1>1, <1>2, <1>3

LEMMA PackStep ==
  ASSUME IInv, NEW t \in tasks, PackTask(t)
  PROVE  IInv'
<1>1. /\ tasks' = tasks \ {t} /\ pc' = pc /\ t.kind = "pack"
      /\ call' = call /\ plan' = plan /\ depth' = depth
      /\ sum' = sum /\ count' = count /\ scaled' = scaled /\ short' = short
      /\ panel' = [x \in DOMAIN panel |->
                     IF x - t.to \in DOMAIN PackB(Shared.pack, t)
                     THEN PackB(Shared.pack, t)[x - t.to] ELSE panel[x]]
  BY DEF PackTask
<1>2. pc = "packing"
  BY <1>1, TaskStages
<1>3. /\ CallOK(call) /\ DepthOK /\ PlanOK /\ StageOK /\ SumOK /\ PanelOK /\ PackTasksOK
  BY <1>2, DuringCall
<1>4. m' = m /\ n' = n /\ k' = k /\ Places' = Places /\ \A d : pb(d)' = pb(d)
      /\ b_row_stride' = b_row_stride /\ b_col_stride' = b_col_stride
  BY <1>1, SameCall
<1>5. plan = "shared" /\ DOMAIN panel = 0..(cblas_gemm_kc * n - 1)
  BY <1>2, <1>3 DEF StageOK
<1>6. DOMAIN panel' = DOMAIN panel
  BY <1>1
<1>7. StageOK'
  BY <1>1, <1>2, <1>3, <1>4, <1>6 DEF StageOK
<1>8. SumOK'
  <2>1. Begun' = Begun
    BY <1>1, <1>2 DEF Begun
  <2>. QED
    BY <1>1, <1>2, <1>3, <2>1, SumFramed
<1>9. /\ \A u : PackOK(u)' <=> PackOK(u)
      /\ \A u, v : PackedApart(u, v)' <=> PackedApart(u, v)
      /\ \A u : PackedCol(u)' = PackedCol(u)
      /\ \A j, q : PanelAt(j, q)' = PanelAt(j, q)
  BY <1>1, SameDepth
<1>10. PackTasksOK'
  BY <1>1, <1>3, <1>9 DEF PackTasksOK
<1>11. PackOK(t)
  BY <1>3 DEF PackTasksOK
<1>12. PanelOK'
  <2> DEFINE w  == WidthOf(call.routine)
             nw == (n \div w) * w
  <2>1. ASSUME NEW j \in 0..(nw - 1), NEW q \in 0..(pb(depth) - 1)
        PROVE  \/ panel'[PanelAt(j, q)] = (depth + q) * b_row_stride + j * b_col_stride
               \/ \E u \in tasks' : PackedCol(u) <= j /\ j < PackedCol(u) + u.cols
    <3> DEFINE x == PanelAt(j, q)
               block == PackB(Shared.pack, t)
               value == (depth + q) * b_row_stride + j * b_col_stride
    <3>1. /\ x \in 0..(cblas_gemm_kc * n - 1)
          /\ InPacked(t, j) => x - t.to \in DOMAIN block /\ block[x - t.to] = value
          /\ ~InPacked(t, j) => x - t.to \notin DOMAIN block
      BY <1>3, <1>11, PackWrites
    <3>2. panel'[x] = IF x - t.to \in DOMAIN block THEN block[x - t.to] ELSE panel[x]
      BY <1>1, <1>5, <3>1
    <3>3. panel[x] = value \/ \E u \in tasks : InPacked(u, j)
      BY <1>2, <1>3, <1>5 DEF PanelOK, InPacked
    <3> HIDE DEF x, block, value
    <3>4. CASE InPacked(t, j)
      <4>1. panel'[x] = value
        BY <3>1, <3>2, <3>4
      <4>. QED
        BY <4>1 DEF x, value
    <3>5. CASE ~InPacked(t, j)
      <4>1. panel'[x] = panel[x]
        BY <3>1, <3>2, <3>5
      <4>2. CASE panel[x] = value
        BY <4>1, <4>2 DEF x, value
      <4>3. CASE \E u \in tasks : InPacked(u, j)
        <5>1. PICK u \in tasks : InPacked(u, j)
          BY <4>3
        <5>2. u \in tasks'
          BY <1>1, <3>5, <5>1
        <5>. QED
          BY <5>1, <5>2 DEF InPacked
      <4>. QED
        BY <3>3, <4>2, <4>3
    <3>. QED
      BY <3>4, <3>5
  <2>2. pb(depth)' = pb(depth)
    BY <1>1 DEF pb, k
  <2>. QED
    BY <1>1, <1>2, <1>4, <1>9, <2>1, <2>2 DEF PanelOK
<1>. QED
  BY <1>1, <1>2, <1>3, <1>7, <1>8, <1>10, <1>12
     DEF IInv, CallInv, StageInv, TasksInv, SumInv, PanelInv

LEMMA KernelStep ==
  ASSUME IInv, NEW t \in tasks, KernelTask(t) \/ KernelGivesUp(t)
  PROVE  IInv'
<1>1. /\ t.kind \in {"kernel", "macro"} /\ tasks' = (tasks \ {t}) \cup After(t)
      /\ pc' = pc /\ call' = call /\ plan' = plan /\ depth' = depth /\ panel' = panel
      /\ scaled' = scaled
  BY DEF KernelTask, KernelGivesUp
<1>2. pc = "adding"
  BY <1>1, TaskStages
<1>3. /\ CallOK(call) /\ DepthOK /\ PlanOK /\ StageOK /\ SumOK /\ PanelOK /\ AddTasksOK
  BY <1>2, DuringCall
<1>4. m' = m /\ n' = n /\ k' = k /\ Places' = Places /\ \A d : pb(d)' = pb(d)
      /\ b_row_stride' = b_row_stride /\ b_col_stride' = b_col_stride
  BY <1>1, SameCall
<1>5. StageOK'
  BY <1>1, <1>2, <1>3, <1>4 DEF StageOK
<1>6. SumOK' /\ AddTasksOK'
  BY <1>2, <1>3, KernelSum, GivesUpSum
<1>7. PanelOK'
  <2>1. \A j, q : PanelAt(j, q)' = PanelAt(j, q)
    BY <1>1, SameDepth
  <2>2. pb(depth)' = pb(depth)
    BY <1>1 DEF pb, k
  <2>3. plan = "shared" =>
          \A j \in 0..((n \div WidthOf(call.routine)) * WidthOf(call.routine) - 1),
             q \in 0..(pb(depth) - 1) :
            panel[PanelAt(j, q)] = (depth + q) * b_row_stride + j * b_col_stride
    BY <1>2, <1>3 DEF PanelOK
  <2>. QED
    BY <1>1, <1>2, <1>4, <2>1, <2>2, <2>3 DEF PanelOK
<1>. QED
  BY <1>1, <1>2, <1>3, <1>5, <1>6, <1>7
     DEF IInv, CallInv, StageInv, TasksInv, SumInv, PanelInv

LEMMA DepthStep ==
  ASSUME IInv, NextDepth
  PROVE  IInv'
<1>1. /\ pc = "adding" /\ tasks = {} /\ pc' \in {"pack", "tiles", "done"}
      /\ tasks' = tasks /\ call' = call /\ plan' = plan /\ panel' = panel
      /\ sum' = sum /\ count' = count /\ scaled' = scaled /\ short' = short
  BY DEF NextDepth
<1>2. CallOK(call) /\ DepthOK /\ PlanOK /\ StageOK /\ SumOK
  BY <1>1, DuringCall
<1>3. m' = m /\ n' = n /\ k' = k /\ Places' = Places /\ \A d : pb(d)' = pb(d)
  BY <1>1, SameCall
<1>4. /\ depth \in Nat /\ pb(depth) \in Nat
      /\ depth + cblas_gemm_kc < k =>
           pb(depth) = cblas_gemm_kc /\ depth + cblas_gemm_kc \in Starts(k, cblas_gemm_kc)
      /\ ~(depth + cblas_gemm_kc < k) => depth + pb(depth) = k
  BY <1>2, DepthBlocks DEF DepthOK
<1>5. CASE plan \in {"shared", "tiles"} /\ depth + cblas_gemm_kc < k
  <2>1. depth' = depth + cblas_gemm_kc /\ pc' = IF plan = "shared" THEN "pack" ELSE "tiles"
    BY <1>5 DEF NextDepth
  <2>2. StageOK'
    BY <1>1, <1>2, <1>3, <1>4, <1>5, <2>1 DEF StageOK
  <2>3. Begun' = Begun
    BY <1>1, <1>4, <1>5, <2>1 DEF Begun
  <2>4. SumOK'
    BY <1>1, <1>2, <2>1, <2>3, SumFramed
  <2>5. PanelOK'
    BY <2>1 DEF PanelOK
  <2>. QED
    BY <1>1, <1>2, <2>1, <2>2, <2>4, <2>5
       DEF IInv, CallInv, StageInv, TasksInv, SumInv, PanelInv
<1>6. CASE ~(plan \in {"shared", "tiles"} /\ depth + cblas_gemm_kc < k)
  <2>1. depth' = depth /\ pc' = "done"
    BY <1>6 DEF NextDepth
  <2>2. StageOK'
    BY <1>1, <1>2, <1>3, <2>1 DEF StageOK
  <2>3. Begun' = Begun
    BY <1>1, <1>2, <1>3, <1>4, <1>6, <2>1 DEF Begun, PlanOK
  <2>4. SumOK'
    BY <1>1, <1>2, <2>1, <2>3, SumFramed
  <2>5. PanelOK'
    BY <2>1 DEF PanelOK
  <2>. QED
    BY <1>1, <1>2, <2>1, <2>2, <2>4, <2>5
       DEF IInv, CallInv, StageInv, TasksInv, SumInv, PanelInv
<1>. QED
  BY <1>5, <1>6

LEMMA ReturnStep ==
  ASSUME Return
  PROVE  IInv'
<1>1. /\ pc' = "idle" /\ plan' = "single" /\ depth' = 0 /\ tasks' = {} /\ sum' = {}
      /\ count' = 0 /\ scaled' = {} /\ short' = FALSE
  BY DEF Return
<1>. QED
  BY <1>1 DEF IInv, CallInv, StageInv, StageOK, TasksInv, SumInv, PanelInv

LEMMA IdleStep ==
  ASSUME IInv, UNCHANGED vars
  PROVE  IInv'
<1>1. /\ pc' = pc /\ call' = call /\ plan' = plan /\ depth' = depth /\ tasks' = tasks
      /\ panel' = panel /\ sum' = sum /\ count' = count /\ scaled' = scaled /\ short' = short
  BY DEF vars
<1>2. /\ m' = m /\ n' = n /\ k' = k /\ Places' = Places /\ Wanted' = Wanted
      /\ b_row_stride' = b_row_stride /\ b_col_stride' = b_col_stride
      /\ \A i, j, p : TermAt(i, j, p)' = TermAt(i, j, p)
      /\ \A d : pb(d)' = pb(d)
  BY <1>1, SameCall
<1>3. /\ \A t : AddOK(t)' <=> AddOK(t)
      /\ \A t : PackOK(t)' <=> PackOK(t)
      /\ \A t, u : AddedApart(t, u)' <=> AddedApart(t, u)
      /\ \A t, u : PackedApart(t, u)' <=> PackedApart(t, u)
      /\ \A t, i, j, p : Todo(t, i, j, p)' <=> Todo(t, i, j, p)
      /\ \A j, q : PanelAt(j, q)' = PanelAt(j, q)
      /\ \A t : PackedCol(t)' = PackedCol(t)
  BY <1>1, SameDepth
<1>4. \A i, j, p : Added(i, j, p)' <=> Added(i, j, p)
  <2>1. ASSUME NEW i, NEW j, NEW p PROVE Added(i, j, p)' <=> Added(i, j, p)
    BY <1>1, <1>2 DEF Added
  <2>. QED
    BY <2>1
<1>5. pb(depth)' = pb(depth) /\ Begun' = Begun
  <2>1. pb(depth)' = pb(depth)
    BY <1>1 DEF pb, k
  <2>. QED
    BY <1>1, <1>2, <2>1 DEF Begun
<1>6. CallInv'
  BY <1>1 DEF IInv, CallInv
<1>7. StageInv'
  BY <1>1, <1>2 DEF IInv, StageInv, StageOK
<1>8. TasksInv'
  BY <1>1, <1>3 DEF IInv, TasksInv, PackTasksOK, AddTasksOK
<1>9. SumInv'
  <2> SUFFICES ASSUME pc # "idle" PROVE SumOK'
    BY <1>1 DEF SumInv
  <2>1. SumOK
    BY DEF IInv, SumInv
  <2>2. SumCounted'
    BY <1>1, <1>2, <2>1 DEF SumOK, SumCounted
  <2>3. LaterClean'
    BY <1>2, <1>4, <1>5, <2>1 DEF SumOK, LaterClean
  <2>4. TodoClean'
    BY <1>1, <1>2, <1>3, <1>4, <2>1 DEF SumOK, TodoClean
  <2>5. NothingLost'
    <3>1. \A i, j, p : Accounted(i, j, p)' <=> Accounted(i, j, p)
      <4>1. ASSUME NEW i, NEW j, NEW p PROVE Accounted(i, j, p)' <=> Accounted(i, j, p)
        BY <1>1, <1>3, <1>4 DEF Accounted
      <4>. QED
        BY <4>1
    <3>. QED
      BY <1>1, <1>2, <1>5, <2>1, <3>1 DEF SumOK, NothingLost
  <2>6. WholeSoFar'
    BY <1>2, <1>4, <2>1 DEF SumOK, WholeSoFar
  <2>. QED
    BY <2>2, <2>3, <2>4, <2>5, <2>6 DEF SumOK
<1>10. PanelInv'
  <2> SUFFICES ASSUME pc # "idle" PROVE PanelOK'
    BY <1>1 DEF PanelInv
  <2>1. PanelOK
    BY DEF IInv, PanelInv
  <2>. QED
    BY <1>1, <1>2, <1>3, <1>5, <2>1 DEF PanelOK
<1>. QED
  BY <1>6, <1>7, <1>8, <1>9, <1>10 DEF IInv

LEMMA NextInv ==
  ASSUME IInv, [Next]_vars
  PROVE  IInv'
<1>1. CASE cblas_gemm
  BY <1>1, CallStep
<1>2. CASE ScaleC
  BY <1>2, ScaleStep
<1>3. CASE SingleThreaded \/ Bands \/ Tiles \/ MacroBatch
  BY <1>3, AddingStep
<1>4. CASE AllocateShared \/ NoSharedBuffer \/ NoQueue
  BY <1>4, AllocationStep
<1>5. CASE PackBatch
  BY <1>5, PackingStep
<1>6. CASE \E t \in tasks : PackTask(t) \/ KernelTask(t) \/ KernelGivesUp(t)
  BY <1>6, PackStep, KernelStep
<1>7. CASE NextDepth
  BY <1>7, DepthStep
<1>8. CASE Return
  BY <1>8, ReturnStep
<1>9. CASE UNCHANGED vars
  BY <1>9, IdleStep
<1>. QED
  BY <1>1, <1>2, <1>3, <1>4, <1>5, <1>6, <1>7, <1>8, <1>9 DEF Next

(* The invariant holds in every state the driver reaches. *)
THEOREM GemmInvariant == Spec => []IInv
<1>1. Init => IInv
  BY InitInv
<1>2. IInv /\ [Next]_vars => IInv'
  BY NextInv
<1>. QED
  BY <1>1, <1>2, PTL DEF Spec

-----------------------------------------------------------------------------
(* The properties. *)

(* Where a packing task writes, and where an adding one.                    *)
LEMMA PackWritten ==
  ASSUME CallOK(call), DepthOK, NEW t, PackOK(t), NEW y \in Written(t)
  PROVE  LET d == pb(depth)
         IN  /\ PackedCol(t) * d <= y /\ y < (PackedCol(t) + t.cols) * d
             /\ PackedCol(t) * d \in Nat /\ (PackedCol(t) + t.cols) * d \in Nat /\ y \in Nat
<1> DEFINE w  == WidthOf(call.routine)
           d  == pb(depth)
           e  == PackedCol(t)
           cw == (t.cols \div w) * w
           ed == e * d
           cd == cw * d
           td == t.cols * d
<1>1. PackersOK(Shared.pack, w) /\ w \in Nat \ {0}
  <2>1. call.routine \in {"sgemm", "dgemm"}
    BY DEF CallOK
  <2>. QED
    BY <2>1, SharedKernels DEF Shared
<1>2. d \in Nat \ {0} /\ depth \in Nat
  BY DepthBlocks DEF DepthOK
<1>3. n \in Nat /\ b_row_stride \in Nat /\ b_col_stride \in Nat
  BY Strides
<1>4. /\ e \in Nat /\ t.to = ed /\ t.dep = d /\ t.cols \in Nat /\ t.kind = "pack"
      /\ t.b = depth * b_row_stride + e * b_col_stride
  BY <1>3 DEF PackOK
<1>5. cw \in Nat /\ cw <= t.cols
  BY PackedWhole
<1>6. t.b \in Nat
  <2>1. depth * b_row_stride \in Nat /\ e * b_col_stride \in Nat
    <3> HIDE DEF e
    <3>. QED
      BY <1>2, <1>3, <1>4, MulFacts
  <2>. QED
    BY <2>1, <1>4
<1>7. DOMAIN PackB(Shared.pack, t) = 0..(cd - 1)
  <2>1. DOMAIN PackB(Shared.pack, t) = 0..(((t.cols \div w) * w) * t.dep - 1)
    <3>1. t.cols \in Nat /\ t.dep \in Nat /\ t.b \in Nat
      BY <1>2, <1>4, <1>6
    <3> HIDE DEF w, d, e
    <3>. QED
      BY <1>1, <3>1, PacksPanels
  <2>. QED
    BY <2>1, <1>4
<1> HIDE DEF w, d, e, cw
<1>8. /\ ed \in Nat /\ cd \in Nat /\ td \in Nat /\ cd <= td /\ (e + t.cols) * d = ed + td
  BY <1>2, <1>4, <1>5, MulFacts, MulMonotone
<1> HIDE DEF ed, cd, td
<1>9. PICK x \in 0..(cd - 1) : y = ed + x
  BY <1>4, <1>7 DEF Written
<1> DEFINE z == (e + t.cols) * d
<1>10. z = ed + td
  BY <1>8
<1> HIDE DEF z
<1>11. ed <= y /\ y < z /\ ed \in Nat /\ z \in Nat /\ y \in Nat
  BY <1>8, <1>9, <1>10
<1>. QED
  BY <1>11 DEF ed, z, d, e

LEMMA AddWritten ==
  ASSUME CallOK(call), DepthOK, PlanOK, NEW t, AddOK(t), NEW y \in Written(t)
  PROVE  \E i \in 0..(m - 1), j \in 0..(n - 1) :
           /\ y = i * call.ldc + j
           /\ RowOf(t) <= i /\ i < RowOf(t) + t.rows /\ ColOf(t) <= j /\ j < ColOf(t) + t.cols
<1>1. t.kind # "pack"
  BY DEF AddOK, KindOK, PlanOK
<1>2. PICK r \in 0..(t.rows - 1), c \in 0..(t.cols - 1) : y = t.c + r * call.ldc + c
  BY <1>1 DEF Written
<1>3. /\ RowOf(t) \in Nat /\ ColOf(t) \in Nat /\ t.c = RowOf(t) * call.ldc + ColOf(t)
      /\ t.rows \in Nat /\ t.cols \in Nat
      /\ RowOf(t) + t.rows <= m /\ ColOf(t) + t.cols <= n
  BY TaskNumbers
<1>4. call.ldc \in Nat /\ m \in Nat /\ n \in Nat
  BY Strides
<1> DEFINE i == RowOf(t) + r
           j == ColOf(t) + c
<1>5. i \in 0..(m - 1) /\ j \in 0..(n - 1)
      /\ RowOf(t) <= i /\ i < RowOf(t) + t.rows /\ ColOf(t) <= j /\ j < ColOf(t) + t.cols
  BY <1>2, <1>3, <1>4
<1>6. y = i * call.ldc + j
  <2> DEFINE rl == r * call.ldc
             Rl == RowOf(t) * call.ldc
  <2>1. r \in Nat /\ c \in Nat
    BY <1>2, <1>3
  <2>2. i * call.ldc = Rl + rl /\ Rl \in Nat /\ rl \in Nat
    BY <1>3, <1>4, <2>1, MulFacts
  <2>3. y = t.c + rl + c /\ t.c = Rl + ColOf(t)
    BY <1>2, <1>3
  <2> DEFINE il == i * call.ldc
  <2>4. il = Rl + rl
    BY <2>2
  <2> HIDE DEF rl, Rl, il
  <2>5. y = il + j
    BY <1>3, <2>1, <2>2, <2>3, <2>4
  <2>. QED
    BY <2>5 DEF il
<1>. QED
  BY <1>5, <1>6

LEMMA DisjointTasks == IInv => TasksDisjoint
<1> SUFFICES ASSUME IInv PROVE TasksDisjoint
  OBVIOUS
<1>1. CASE tasks = {}
  BY <1>1 DEF TasksDisjoint
<1>2. CASE pc = "packing"
  <2>1. CallOK(call) /\ DepthOK /\ StageOK /\ PackTasksOK
    BY <1>2, DuringCall
  <2>2. plan = "shared" /\ DOMAIN panel = 0..(cblas_gemm_kc * n - 1)
    BY <1>2, <2>1 DEF StageOK
  <2>3. pb(depth) \in Nat /\ pb(depth) <= cblas_gemm_kc /\ cblas_gemm_kc \in Nat
    BY <2>1, DepthBlocks DEF DepthOK
  <2>4. n \in Nat
    BY <2>1, Strides
  <2>5. \A t \in tasks : PackOK(t) /\ t.kind = "pack" /\ PackedCol(t) \in Nat
          /\ t.cols \in Nat /\ PackedCol(t) + t.cols <= n
    BY <2>1, <2>4 DEF PackTasksOK, PackOK
  <2>6. ASSUME NEW t \in tasks, NEW u \in tasks, NEW y \in Written(t), y \in Written(u),
               PackedCol(t) + t.cols <= PackedCol(u)
        PROVE  FALSE
    <3> DEFINE x == (PackedCol(t) + t.cols) * pb(depth)
               z == PackedCol(u) * pb(depth)
    <3>1. y < x /\ y \in Nat /\ x \in Nat
      BY <2>1, <2>5, PackWritten
    <3>2. z <= y /\ z \in Nat
      BY <2>1, <2>5, <2>6, PackWritten
    <3>3. x <= z
      <4>1. PackedCol(t) + t.cols \in Nat /\ PackedCol(u) \in Nat
        BY <2>5
      <4>. QED
        BY <2>3, <2>6, <4>1, MulMonotone
    <3> HIDE DEF x, z
    <3>. QED
      BY <3>1, <3>2, <3>3
  <2>7. ASSUME NEW t \in tasks, NEW u \in tasks, t # u
        PROVE  Written(t) \cap Written(u) = {}
    <3>1. PackedApart(t, u)
      BY <2>1, <2>7 DEF PackTasksOK
    <3>. QED
      BY <2>6, <3>1 DEF PackedApart
  <2>8. ASSUME NEW t \in tasks, NEW y \in Written(t)
        PROVE  y \in DOMAIN panel
    <3> DEFINE x == (PackedCol(t) + t.cols) * pb(depth)
               v == pb(depth) * n
               z == cblas_gemm_kc * n
    <3>1. y < x /\ y \in Nat /\ x \in Nat
      BY <2>1, <2>5, PackWritten
    <3>2. x <= n * pb(depth) /\ n * pb(depth) = v
      <4>1. PackedCol(t) + t.cols \in Nat /\ PackedCol(t) + t.cols <= n
        BY <2>5
      <4>. QED
        BY <2>3, <2>4, <4>1, MulMonotone, MulFacts
    <3>3. v <= z /\ v \in Nat /\ z \in Nat
      BY <2>3, <2>4, MulMonotone, MulFacts
    <3>4. x <= v /\ DOMAIN panel = 0..(z - 1)
      BY <2>2, <3>2
    <3> HIDE DEF x, v, z
    <3>. QED
      BY <3>1, <3>3, <3>4
  <2>. QED
    BY <2>5, <2>7, <2>8 DEF TasksDisjoint
<1>3. CASE pc = "adding"
  <2>1. CallOK(call) /\ DepthOK /\ PlanOK /\ AddTasksOK
    BY <1>3, DuringCall
  <2>2. \A t \in tasks : AddOK(t) /\ t.kind # "pack"
    BY <2>1 DEF AddTasksOK, AddOK, KindOK, PlanOK
  <2>3. m \in Nat /\ n \in Nat
    BY <2>1, Strides
  <2>4. ASSUME NEW t \in tasks, NEW u \in tasks, t # u
        PROVE  Written(t) \cap Written(u) = {}
    <3>1. SUFFICES ASSUME NEW y \in Written(t), y \in Written(u) PROVE FALSE
      OBVIOUS
    <3>2. PICK i \in 0..(m - 1), j \in 0..(n - 1) :
            /\ y = i * call.ldc + j
            /\ RowOf(t) <= i /\ i < RowOf(t) + t.rows /\ ColOf(t) <= j /\ j < ColOf(t) + t.cols
      BY <2>1, <2>2, AddWritten
    <3>3. PICK r \in 0..(m - 1), c \in 0..(n - 1) :
            /\ y = r * call.ldc + c
            /\ RowOf(u) <= r /\ r < RowOf(u) + u.rows /\ ColOf(u) <= c /\ c < ColOf(u) + u.cols
      BY <2>1, <2>2, <3>1, AddWritten
    <3>4. i = r /\ j = c
      <4>1. i \in Nat /\ r \in Nat
        BY <2>3
      <4>. QED
        BY <2>1, <3>2, <3>3, <4>1, OnePlace
    <3>5. AddedApart(t, u)
      BY <2>1, <2>4 DEF AddTasksOK
    <3>6. /\ RowOf(t) \in Nat /\ ColOf(t) \in Nat /\ t.rows \in Nat /\ t.cols \in Nat
          /\ RowOf(u) \in Nat /\ ColOf(u) \in Nat /\ u.rows \in Nat /\ u.cols \in Nat
      BY <2>1, <2>2, TaskNumbers
    <3>7. i \in Nat /\ j \in Nat
      BY <2>3
    <3>. QED
      BY <3>2, <3>3, <3>4, <3>5, <3>6, <3>7 DEF AddedApart
  <2>5. ASSUME NEW t \in tasks PROVE Written(t) \subseteq Places
    <3>1. SUFFICES ASSUME NEW y \in Written(t) PROVE y \in Places
      OBVIOUS
    <3>2. PICK i \in 0..(m - 1), j \in 0..(n - 1) : y = i * call.ldc + j
      BY <2>1, <2>2, AddWritten
    <3>. QED
      BY <3>2 DEF Places
  <2>. QED
    BY <2>2, <2>4, <2>5 DEF TasksDisjoint
<1>4. pc \notin {"packing", "adding"} => tasks = {}
  BY DEF IInv, StageInv, StageOK
<1>. QED
  BY <1>1, <1>2, <1>3, <1>4

(* The terms of the product are as many as the caller asks for.             *)
LEMMA WantedCount ==
  ASSUME CallOK(call)
  PROVE  Cardinality(Wanted) = call.m * call.n * call.k
<1> DEFINE g == [a |-> 0, b |-> 0, c |-> 0, rows |-> m, cols |-> n, dep |-> k]
<1>1. /\ a_row_stride \in Nat /\ a_col_stride \in Nat
      /\ b_row_stride \in Nat /\ b_col_stride \in Nat
      /\ call.ldc \in Nat /\ m \in Nat /\ n \in Nat /\ k \in Nat
  BY Strides
<1>2. /\ 0 * call.ldc = 0 /\ 0 * a_row_stride = 0 /\ 0 * a_col_stride = 0
      /\ 0 * b_row_stride = 0 /\ 0 * b_col_stride = 0
  BY <1>1
<1>3. /\ g.a = 0 /\ g.b = 0 /\ g.c = 0 /\ g.rows = m /\ g.cols = n /\ g.dep = k
  OBVIOUS
<1> HIDE DEF g
<1>4. BlockAt(g, 0, 0, 0)
  <2>1. /\ g.c = 0 * call.ldc + 0
        /\ g.a = 0 * a_row_stride + 0 * a_col_stride
        /\ g.b = 0 * b_row_stride + 0 * b_col_stride
    BY <1>2, <1>3
  <2>2. /\ 0 \in Nat /\ g.rows \in Nat /\ g.cols \in Nat /\ g.dep \in Nat
        /\ 0 + g.rows <= m /\ 0 + g.cols <= n /\ 0 + g.dep <= k
    BY <1>1, <1>3
  <2>. QED
    BY <2>1, <2>2 DEF BlockAt
<1>5. /\ \A x \in BlockTerms(g) :
           \E i \in 0..(m - 1), j \in 0..(n - 1), p \in 0..(k - 1) :
             x = TermAt(i, j, p) /\ InBox(i, j, p, g, 0, 0, 0)
      /\ \A i, j, p \in Nat : InBox(i, j, p, g, 0, 0, 0) => TermAt(i, j, p) \in BlockTerms(g)
  BY <1>4, BlockBox
<1>6. Wanted = {TermAt(i, j, p) : i \in 0..(m - 1), j \in 0..(n - 1), p \in 0..(k - 1)}
  BY WantedTerms
<1>7. BlockTerms(g) = Wanted
  <2>1. ASSUME NEW x \in BlockTerms(g) PROVE x \in Wanted
    BY <1>5, <1>6
  <2>2. ASSUME NEW x \in Wanted PROVE x \in BlockTerms(g)
    <3>1. PICK i \in 0..(m - 1), j \in 0..(n - 1), p \in 0..(k - 1) : x = TermAt(i, j, p)
      BY <1>6
    <3>2. i \in Nat /\ j \in Nat /\ p \in Nat /\ i < m /\ j < n /\ p < k
      BY <1>1
    <3>3. InBox(i, j, p, g, 0, 0, 0)
      BY <1>1, <1>3, <3>2 DEF InBox
    <3>. QED
      BY <1>5, <3>1, <3>2, <3>3
  <2>. QED
    BY <2>1, <2>2
<1>8. Cardinality(Wanted) = n * k * m
  BY <1>3, <1>4, <1>7, BlockCount
<1>9. n * k * m = m * n * k /\ n * k * m = n * m * k
  <2>1. /\ n * k * m = n * (k * m) /\ n * m * k = n * (m * k) /\ k * m = m * k
        /\ n * m = m * n
    BY <1>1, MulFacts
  <2>2. n * k * m = n * m * k
    BY <2>1
  <2>3. n * m * k = m * n * k
    BY <2>1
  <2>. QED
    BY <2>2, <2>3
<1>10. CASE call.layout = "row"
  <2>1. call.m = m /\ call.n = n /\ call.k = k
    BY <1>10, CallersTerms
  <2>. QED
    BY <1>8, <1>9, <2>1
<1>11. CASE call.layout = "col"
  <2>1. call.m = n /\ call.n = m /\ call.k = k
    BY <1>11, CallersTerms
  <2>. QED
    BY <1>8, <1>9, <2>1
<1>. QED
  BY <1>10, <1>11 DEF CallOK

LEMMA ExactProduct == IInv => ProductExact
<1> SUFFICES ASSUME IInv, pc = "done" PROVE ProductExact
  BY DEF ProductExact
<1>1. CallOK(call) /\ StageOK /\ SumOK
  BY DuringCall
<1>2. call.beta # "one" => scaled = Elements
  <2>1. call.beta # "one" => scaled = Places
    BY <1>1 DEF StageOK
  <2>. QED
    BY <1>1, <2>1, WantedTerms
<1>3. ASSUME call.alpha # "zero", ~short
      PROVE  sum = Wanted /\ count = call.m * call.n * call.k
  <2>1. sum \subseteq Wanted /\ count = Cardinality(sum)
    BY <1>1 DEF SumOK, SumCounted
  <2>2. Wanted \subseteq sum
    <3>1. SUFFICES ASSUME NEW x \in Wanted PROVE x \in sum
      OBVIOUS
    <3>2. PICK i \in 0..(m - 1), j \in 0..(n - 1), p \in 0..(k - 1) : x = TermAt(i, j, p)
      BY <1>1, WantedTerms
    <3>3. p < Begun
      <4>1. Begun = k /\ k \in Nat
        BY <1>1, BegunIs, Strides
      <4>. QED
        BY <4>1
    <3>4. Accounted(i, j, p)
      BY <1>1, <1>3, <3>3 DEF SumOK, NothingLost
    <3>. QED
      BY <3>2, <3>4 DEF Accounted, Added
  <2>3. sum = Wanted
    BY <2>1, <2>2
  <2>. QED
    BY <1>1, <2>1, <2>3, WantedCount
<1>. QED
  BY <1>2, <1>3 DEF ProductExact

LEMMA WholeBlocks == IInv => BlocksWhole
<1> SUFFICES ASSUME IInv, pc = "done",
                    NEW i \in 0..(call.m - 1), NEW j \in 0..(call.n - 1),
                    NEW b \in Starts(call.k, cblas_gemm_kc)
             PROVE  LET block == {Term(i, j, p) : p \in b..(b + pb(b) - 1)}
                    IN  block \subseteq sum \/ block \cap sum = {}
  BY DEF BlocksWhole
<1>1. CallOK(call) /\ SumOK
  BY DuringCall
<1>2. /\ call.m \in Nat /\ call.n \in Nat /\ call.layout \in {"row", "col"}
      /\ b \in Starts(k, cblas_gemm_kc)
  BY <1>1 DEF CallOK, k
<1>3. b \in Nat /\ pb(b) \in Nat
  BY <1>1, <1>2, DepthBlocks
<1>4. i \in Nat /\ j \in Nat
  BY <1>2
<1>5. PICK r \in 0..(m - 1) : \E c \in 0..(n - 1) :
        \A p \in Nat : Term(i, j, p) = TermAt(r, c, p)
  <2>1. CASE call.layout = "row"
    <3>1. i \in 0..(m - 1) /\ j \in 0..(n - 1)
      BY <1>1, <1>4, <2>1, CallersTerms
    <3>2. \A p \in Nat : Term(i, j, p) = TermAt(i, j, p)
      BY <1>1, <1>4, <2>1, CallersTerms
    <3>. QED
      BY <3>1, <3>2
  <2>2. CASE call.layout = "col"
    <3>1. j \in 0..(m - 1) /\ i \in 0..(n - 1)
      BY <1>1, <1>4, <2>2, CallersTerms
    <3>2. \A p \in Nat : Term(i, j, p) = TermAt(j, i, p)
      BY <1>1, <1>4, <2>2, CallersTerms
    <3>. QED
      BY <3>1, <3>2
  <2>. QED
    BY <1>2, <2>1, <2>2
<1>6. PICK c \in 0..(n - 1) : \A p \in Nat : Term(i, j, p) = TermAt(r, c, p)
  BY <1>5
<1>7. \A p \in b..(b + pb(b) - 1) : Term(i, j, p) \in sum <=> Added(r, c, p)
  BY <1>3, <1>6 DEF Added
<1>8. \A p, q \in b..(b + pb(b) - 1) : Added(r, c, p) => Added(r, c, q)
  BY <1>1, <1>2 DEF SumOK, WholeSoFar
<1>. QED
  BY <1>7, <1>8

(* Tasks of a batch write disjoint parts of the shared panel, within its    *)
(* allocation, or disjoint elements of C: no two threads of sgemm, dgemm    *)
(* ever write to the same place (gemm.c:341, gemm.c:381).                   *)
THEOREM NoTwoTasksWriteOnePlace == Spec => []TasksDisjoint
BY GemmInvariant, DisjointTasks, PTL

(* Whatever the order of the tasks, what has been added to C belongs to the *)
(* product and was added once: no kernel reads a panel that is not packed   *)
(* or left over from another block (gemm.c:399).                            *)
THEOREM NothingWrongIsAdded == Spec => []NoStalePanel
<1>1. IInv => NoStalePanel
  BY DuringCall DEF NoStalePanel, SumOK, SumCounted
<1>. QED
  BY <1>1, GemmInvariant, PTL

(* cblas_sgemm and cblas_dgemm compute alpha op(A) op(B) + beta C, each     *)
(* term once, for all sizes, leading dimensions, block sizes and threads,   *)
(* on every processor.                                                      *)
THEOREM EveryTermOnce == Spec => []ProductExact
BY GemmInvariant, ExactProduct, PTL

(* An allocation that fails loses whole depth blocks of an element of C.    *)
THEOREM FailuresLoseWholeBlocks == Spec => []BlocksWhole
BY GemmInvariant, WholeBlocks, PTL
=============================================================================
