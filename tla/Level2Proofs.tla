----------------------------- MODULE Level2Proofs -----------------------------
(****************************************************************************)
(* GEMV and GER for every size, stride, padding, split among threads,       *)
(* block size, processor and operating system: every product of the         *)
(* operation reaches the right element of the result exactly once, and y is *)
(* multiplied by beta once and before anything is added to it.              *)
(*                                                                          *)
(* The argument has two halves.  The first looks at the kernels as data:    *)
(* each pass ends on a loop over single columns, the last pass takes single *)
(* rows, and an iteration starts where the one before ended (PassesOK).     *)
(* The second is the invariant of walking any such kernel: the products     *)
(* recorded so far tile the part of the matrix that is behind the walk.     *)
(****************************************************************************)
EXTENDS Level2, SequenceTheorems, TLAPS

-----------------------------------------------------------------------------
(* Kernels. *)

(* A loop may round its bound down only if it starts at a multiple of its   *)
(* step: it is the first or follows a rounded loop whose step is a multiple.*)
LoopsOK(ls) ==
  /\ Len(ls) \in Nat \ {0} /\ DOMAIN ls = 1..Len(ls)
  /\ \A j \in 1..Len(ls) :
       /\ ls[j].step \in Nat \ {0} /\ ls[j].until \in {"rounded", "fits", "once"}
       /\ ls[j].row \in {"inc", "unit"} /\ ls[j].col \in {"inc", "unit"}
       /\ ls[j].until = "rounded" /\ j > 1 =>
            /\ ls[j - 1].until = "rounded"
            /\ \E q \in Nat : ls[j - 1].step = q * ls[j].step
  /\ ls[Len(ls)].step = 1 /\ ls[Len(ls)].until = "fits"

(* Single rows come last, and every pass covers the columns. *)
PassesOK(ps) ==
  /\ Len(ps) \in Nat \ {0} /\ DOMAIN ps = 1..Len(ps)
  /\ \A j \in 1..Len(ps) : ps[j].rows \in Nat \ {0} /\ LoopsOK(ps[j].loops)
  /\ ps[Len(ps)].rows = 1

(* The vectors are addressed as if a stride were 1 only where rows, or      *)
(* cols, says that it is.                                                   *)
Addressed(ps, rows, cols) ==
  \A j \in 1..Len(ps) : \A h \in 1..Len(ps[j].loops) :
    /\ ps[j].loops[h].row = "inc" \/ rows
    /\ ps[j].loops[h].col = "inc" \/ cols

(* The kernel asks for the strides it takes for granted. *)
Asks(k) == Addressed(k.passes, "row" \in k.fast, "col" \in k.fast)

(* A kernel of GEMV that covers its share and asks for its strides. *)
GemvOK(k, form) ==
  /\ k.form = form /\ PassesOK(k.passes) /\ Asks(k)
  /\ k.rblock = FALSE /\ k.cblock \in BOOLEAN /\ (form = "dot" => k.cblock = FALSE)
  /\ form = "dot" /\ k.isa # "base" => k.scale = "tested"

(* A kernel of GER: the 128-bit ones take neighbouring elements for         *)
(* alpha = 1 without asking for the strides.                                *)
GerOK(k) ==
  /\ k.form = "ger" /\ PassesOK(k.passes)
  /\ k.cblock = FALSE /\ k.rblock \in BOOLEAN
  /\ IF k.isa \in {"base", "avx2", "avx512"} THEN Asks(k) ELSE "alpha" \in k.fast

(* The entry of the table has a kernel of the kind its name says. *)
EntryOK(name, k) ==
  /\ name \in {"sgemv", "dgemv"} => GemvOK(k, "dot")
  /\ name \in {"sgemv_t", "dgemv_t"} => GemvOK(k, "axpy")
  /\ name \in {"sger", "dger"} => GerOK(k)

TableOK(table) == \A name \in DOMAIN table : EntryOK(name, table[name])

(* Loops that step along the rows with the stride, as those of GEMV do. *)
IncLoops(ls) == LoopsOK(ls) /\ \A h \in 1..Len(ls) : ls[h].row = "inc"

(* One loop over single columns covers any number of them. *)
LEMMA OneLoop ==
  ASSUME NEW a \in {"inc", "unit"}, NEW b \in {"inc", "unit"}
  PROVE  LET ls == <<Cols(1, "fits", a, b)>>
         IN  /\ LoopsOK(ls) /\ Len(ls) = 1
             /\ ls[1].row = a /\ ls[1].col = b
BY DEF LoopsOK, Cols

(* The plain loops cover everything and use both strides. *)
LEMMA PlainOK == PassesOK(Plain) /\ \A rows, cols : Addressed(Plain, rows, cols)
BY OneLoop DEF PassesOK, Plain, Pass, Addressed

(* GEMV: loops of halving widths, rounded down, then single columns. *)
LEMMA WideLoops ==
  ASSUME NEW s \in Nat \ {0}, NEW t, t = 2 * s
  PROVE  /\ IncLoops(<<Wide(s), Rest>>)
         /\ IncLoops(<<Wide(t), Wide(s), Rest>>)
<1>1. /\ Wide(s) = [step |-> s, until |-> "rounded", row |-> "inc", col |-> "unit"]
      /\ Wide(t) = [step |-> 2 * s, until |-> "rounded", row |-> "inc", col |-> "unit"]
      /\ Rest = [step |-> 1, until |-> "fits", row |-> "inc", col |-> "unit"]
  BY DEF Wide, Rest, Cols
<1>. QED
  BY <1>1 DEF LoopsOK, IncLoops

(* GER: one or two blocked loops, then single columns. *)
LEMMA BlockLoops ==
  ASSUME NEW s \in Nat \ {0}, NEW t \in Nat \ {0}, NEW x \in {Block(t), Half(t)},
         NEW y \in {Block(1), StepX, Strided}
  PROVE  /\ LoopsOK(<<Block(s), x, Block(1)>>)
         /\ LoopsOK(<<Block(s), y>>)
         /\ LoopsOK(<<y>>)
<1>1. /\ Block(s) = [step |-> s, until |-> "fits", row |-> "unit", col |-> "unit"]
      /\ x.step = t /\ x.until \in {"fits", "once"}
      /\ x.row = "unit" /\ x.col = "unit"
      /\ y.step = 1 /\ y.until = "fits"
      /\ y.row \in {"inc", "unit"} /\ y.col \in {"inc", "unit"}
      /\ Block(1).step = 1 /\ Block(1).until = "fits"
      /\ Block(1).row = "unit" /\ Block(1).col = "unit"
  BY DEF Block, Half, StepX, Strided, Cols
<1>. QED
  BY <1>1 DEF LoopsOK

(* Up to three passes, the last one over single rows. *)
LEMMA PassLists ==
  ASSUME NEW a \in Nat \ {0}, NEW b \in Nat \ {0}, NEW ls, NEW ms, NEW ns,
         LoopsOK(ls), LoopsOK(ms), LoopsOK(ns)
  PROVE  /\ PassesOK(<<Pass(1, ns)>>)
         /\ PassesOK(<<Pass(a, ls), Pass(1, ns)>>)
         /\ PassesOK(<<Pass(a, ls), Pass(b, ms), Pass(1, ns)>>)
BY DEF PassesOK, Pass

(* The same of GEMV: along the rows the stride is used. *)
LEMMA IncLists ==
  ASSUME NEW a \in Nat \ {0}, NEW b \in Nat \ {0}, NEW ls, NEW ms, NEW ns,
         IncLoops(ls), IncLoops(ms), IncLoops(ns)
  PROVE  /\ PassesOK(<<Pass(a, ls), Pass(1, ns)>>)
         /\ Addressed(<<Pass(a, ls), Pass(1, ns)>>, FALSE, TRUE)
         /\ PassesOK(<<Pass(a, ls), Pass(b, ms), Pass(1, ns)>>)
         /\ Addressed(<<Pass(a, ls), Pass(b, ms), Pass(1, ns)>>, FALSE, TRUE)
<1>1. LoopsOK(ls) /\ LoopsOK(ms) /\ LoopsOK(ns)
  BY DEF IncLoops
<1>2. /\ Pass(a, ls) = [rows |-> a, loops |-> ls]
      /\ Pass(b, ms) = [rows |-> b, loops |-> ms]
      /\ Pass(1, ns) = [rows |-> 1, loops |-> ns]
  BY DEF Pass
<1>3. /\ \A h \in 1..Len(ls) : ls[h].row = "inc"
      /\ \A h \in 1..Len(ms) : ms[h].row = "inc"
      /\ \A h \in 1..Len(ns) : ns[h].row = "inc"
  BY DEF IncLoops
<1>4. Addressed(<<Pass(a, ls), Pass(1, ns)>>, FALSE, TRUE)
  BY <1>2, <1>3 DEF Addressed
<1>5. Addressed(<<Pass(a, ls), Pass(b, ms), Pass(1, ns)>>, FALSE, TRUE)
  BY <1>2, <1>3 DEF Addressed
<1>. QED
  BY <1>1, <1>4, <1>5, PassLists

(* What makes a GEMV kernel sound, whatever its name and instruction set. *)
LEMMA GemvKernels ==
  ASSUME NEW routine, NEW isa, NEW ps, PassesOK(ps), Addressed(ps, FALSE, TRUE)
  PROVE  /\ GemvOK(Dot(routine, isa, ps), "dot")
         /\ GemvOK(Axpy(routine, isa, ps), "axpy")
         /\ GemvOK([Dot(routine, isa, ps) EXCEPT !.isa = "fma"], "dot")
         /\ GemvOK([Axpy(routine, isa, ps) EXCEPT !.isa = "fma"], "axpy")
<1>1. Addressed(ps, "row" \in {"col"}, "col" \in {"col"})
  BY DEF Addressed
<1>. QED
  BY <1>1 DEF GemvOK, Asks, Dot, Axpy, Kernel

(* ... and of the two and three passes they have. *)
LEMMA GemvOfLists ==
  ASSUME NEW routine, NEW isa, NEW a \in Nat \ {0}, NEW b \in Nat \ {0}, NEW ls, NEW ms, NEW ns,
         IncLoops(ls), IncLoops(ms), IncLoops(ns)
  PROVE  LET two   == <<Pass(a, ls), Pass(1, ns)>>
             three == <<Pass(a, ls), Pass(b, ms), Pass(1, ns)>>
         IN  /\ GemvOK(Dot(routine, isa, two), "dot")
             /\ GemvOK(Axpy(routine, isa, two), "axpy")
             /\ GemvOK(Dot(routine, isa, three), "dot")
             /\ GemvOK(Axpy(routine, isa, three), "axpy")
             /\ GemvOK([Dot(routine, isa, three) EXCEPT !.isa = "fma"], "dot")
             /\ GemvOK([Axpy(routine, isa, three) EXCEPT !.isa = "fma"], "axpy")
<1> DEFINE two   == <<Pass(a, ls), Pass(1, ns)>>
           three == <<Pass(a, ls), Pass(b, ms), Pass(1, ns)>>
<1>1. /\ PassesOK(two) /\ Addressed(two, FALSE, TRUE)
      /\ PassesOK(three) /\ Addressed(three, FALSE, TRUE)
  BY IncLists
<1>. HIDE DEF two, three
<1>2. /\ GemvOK(Dot(routine, isa, two), "dot") /\ GemvOK(Axpy(routine, isa, two), "axpy")
      /\ GemvOK(Dot(routine, isa, three), "dot") /\ GemvOK(Axpy(routine, isa, three), "axpy")
      /\ GemvOK([Dot(routine, isa, three) EXCEPT !.isa = "fma"], "dot")
      /\ GemvOK([Axpy(routine, isa, three) EXCEPT !.isa = "fma"], "axpy")
  BY <1>1, GemvKernels
<1>. QED
  BY <1>2 DEF two, three

(* The widths of blocks and loops. *)
LEMMA Sizes ==
  2 \in Nat \ {0} /\ 4 \in Nat \ {0} /\ 8 \in Nat \ {0} /\ 16 \in Nat \ {0}
OBVIOUS

(* The tables of kernels, one instruction set at a time. *)
LEMMA BaseTable == TableOK(Base2)
<1>1. /\ GemvOK(sgemv_k_base, "dot") /\ GemvOK(dgemv_k_base, "dot")
      /\ GemvOK(sgemv_t_k_base, "axpy") /\ GemvOK(dgemv_t_k_base, "axpy")
  BY PlainOK DEF GemvOK, Asks, Kernel, sgemv_k_base, dgemv_k_base, sgemv_t_k_base,
                 dgemv_t_k_base
<1>2. GerOK(sger_k_base) /\ GerOK(dger_k_base)
  BY PlainOK DEF GerOK, Asks, Kernel, sger_k_base, dger_k_base
<1>. QED
  BY <1>1, <1>2 DEF TableOK, EntryOK, Base2

(* The GER kernels of 128-bit vectors: guarded by alpha alone. *)
LEMMA NeighbourKernels ==
  ASSUME NEW routine, NEW isa \in {"sse", "fma", "neon"}, NEW a \in Nat \ {0}, NEW s \in Nat \ {0},
         NEW y \in {StepX, Strided}
  PROVE  GerOK(Kernel(routine, isa, "ger", {"alpha"},
                      <<Pass(a, <<Block(s), y>>), Pass(1, <<Strided>>)>>))
<1>1. LoopsOK(<<Block(s), y>>) /\ LoopsOK(<<Strided>>)
  BY BlockLoops
<1>2. PassesOK(<<Pass(a, <<Block(s), y>>), Pass(1, <<Strided>>)>>)
  BY <1>1, PassLists
<1>. QED
  BY <1>2 DEF GerOK, Kernel

(* Those of wider vectors: guarded by both strides. *)
LEMMA GuardedKernels ==
  ASSUME NEW routine, NEW isa \in {"avx2", "avx512"}, NEW a \in Nat \ {0}, NEW s \in Nat \ {0},
         NEW t \in Nat \ {0}, NEW x \in {Block(t), Half(t)}
  PROVE  GerOK(Kernel(routine, isa, "ger", {"alpha", "row", "col"},
                      <<Pass(a, <<Block(s), x, Block(1)>>), Pass(1, <<Block(1)>>)>>))
<1> DEFINE ps == <<Pass(a, <<Block(s), x, Block(1)>>), Pass(1, <<Block(1)>>)>>
<1>1. LoopsOK(<<Block(s), x, Block(1)>>) /\ LoopsOK(<<Block(1)>>)
  BY BlockLoops
<1>2. PassesOK(ps)
  BY <1>1, PassLists
<1>3. Addressed(ps, "row" \in {"alpha", "row", "col"}, "col" \in {"alpha", "row", "col"})
  BY DEF Addressed
<1>. QED
  BY <1>2, <1>3 DEF GerOK, Asks, Kernel

LEMMA SseTable == TableOK(Sse2)
<1>1. /\ IncLoops(<<Wide(2), Rest>>) /\ IncLoops(<<Wide(4), Wide(2), Rest>>)
      /\ IncLoops(<<Wide(4), Rest>>) /\ IncLoops(<<Wide(8), Wide(4), Rest>>)
  BY WideLoops
<1>2. GerOK(sger_k_sse)
  BY Sizes, NeighbourKernels, Zenon DEF sger_k_sse, AddProd4x4_SSE
<1>3. GerOK(dger_k_sse)
  BY Sizes, NeighbourKernels, Zenon DEF dger_k_sse, AddProd2x2_SSE_d
<1>4. GemvOK(sgemv_k_sse, "dot")
  BY <1>1, Sizes, GemvOfLists, Zenon DEF sgemv_k_sse
<1>5. GemvOK(dgemv_k_sse, "dot")
  BY <1>1, Sizes, GemvOfLists, Zenon DEF dgemv_k_sse
<1>6. GemvOK(sgemv_t_k_sse, "axpy")
  BY <1>1, Sizes, GemvOfLists, Zenon DEF sgemv_t_k_sse
<1>7. GemvOK(dgemv_t_k_sse, "axpy")
  BY <1>1, Sizes, GemvOfLists, Zenon DEF dgemv_t_k_sse
<1>. QED
  BY <1>2, <1>3, <1>4, <1>5, <1>6, <1>7 DEF TableOK, EntryOK, Sse2

LEMMA NeonTable == TableOK(Neon2)
<1>1. /\ IncLoops(<<Wide(2), Rest>>) /\ IncLoops(<<Wide(4), Wide(2), Rest>>)
      /\ IncLoops(<<Wide(4), Rest>>) /\ IncLoops(<<Wide(8), Wide(4), Rest>>)
  BY WideLoops
<1>2. GerOK(sger_k_neon)
  BY Sizes, NeighbourKernels, Zenon DEF sger_k_neon, AddProd4x4_NEON
<1>3. GerOK(dger_k_neon)
  BY Sizes, NeighbourKernels, Zenon DEF dger_k_neon, AddProd2x2_NEON_d
<1>4. GemvOK(sgemv_k_neon, "dot")
  BY <1>1, Sizes, GemvOfLists, Zenon DEF sgemv_k_neon
<1>5. GemvOK(dgemv_k_neon, "dot")
  BY <1>1, Sizes, GemvOfLists, Zenon DEF dgemv_k_neon
<1>6. GemvOK(sgemv_t_k_neon, "axpy")
  BY <1>1, Sizes, GemvOfLists, Zenon DEF sgemv_t_k_neon
<1>7. GemvOK(dgemv_t_k_neon, "axpy")
  BY <1>1, Sizes, GemvOfLists, Zenon DEF dgemv_t_k_neon
<1>. QED
  BY <1>2, <1>3, <1>4, <1>5, <1>6, <1>7 DEF TableOK, EntryOK, Neon2

LEMMA AvxTable == TableOK(Avx2)
<1>1. /\ IncLoops(<<Wide(4), Rest>>) /\ IncLoops(<<Wide(8), Wide(4), Rest>>)
      /\ IncLoops(<<Wide(8), Rest>>) /\ IncLoops(<<Wide(16), Wide(8), Rest>>)
  BY WideLoops
<1>2. GemvOK(sgemv_k_avx, "dot")
  BY <1>1, Sizes, GemvOfLists, Zenon DEF sgemv_k_avx
<1>3. GemvOK(dgemv_k_avx, "dot")
  BY <1>1, Sizes, GemvOfLists, Zenon DEF dgemv_k_avx
<1>4. GemvOK(sgemv_t_k_avx, "axpy")
  BY <1>1, Sizes, GemvOfLists, Zenon DEF sgemv_t_k_avx
<1>5. GemvOK(dgemv_t_k_avx, "axpy")
  BY <1>1, Sizes, GemvOfLists, Zenon DEF dgemv_t_k_avx
<1>. QED
  BY <1>2, <1>3, <1>4, <1>5 DEF TableOK, EntryOK, Avx2

LEMMA FmaTable == TableOK(Fma2)
<1>1. /\ IncLoops(<<Wide(4), Rest>>) /\ IncLoops(<<Wide(8), Wide(4), Rest>>)
      /\ IncLoops(<<Wide(8), Rest>>) /\ IncLoops(<<Wide(16), Wide(8), Rest>>)
  BY WideLoops
<1>2. GerOK(sger_k_fma)
  BY Sizes, NeighbourKernels, Zenon DEF sger_k_fma, AddProd4x4_FMA
<1>3. GerOK(dger_k_fma)
  BY Sizes, NeighbourKernels, Zenon DEF dger_k_fma, AddProd2x2_FMA_d
<1>4. GemvOK(sgemv_k_fma, "dot")
  BY <1>1, Sizes, GemvOfLists, Zenon DEF sgemv_k_fma, sgemv_k_avx
<1>5. GemvOK(dgemv_k_fma, "dot")
  BY <1>1, Sizes, GemvOfLists, Zenon DEF dgemv_k_fma, dgemv_k_avx
<1>6. GemvOK(sgemv_t_k_fma, "axpy")
  BY <1>1, Sizes, GemvOfLists, Zenon DEF sgemv_t_k_fma, sgemv_t_k_avx
<1>7. GemvOK(dgemv_t_k_fma, "axpy")
  BY <1>1, Sizes, GemvOfLists, Zenon DEF dgemv_t_k_fma, dgemv_t_k_avx
<1>. QED
  BY <1>2, <1>3, <1>4, <1>5, <1>6, <1>7 DEF TableOK, EntryOK, Fma2

LEMMA WideGerTables == TableOK(AvxGer2) /\ TableOK(Avx512Ger2)
<1>1. GerOK(sger_k_avx)
  BY Sizes, GuardedKernels, Zenon DEF sger_k_avx, AddProd4x8_AVX, AddProd4x4_SSE
<1>2. GerOK(dger_k_avx)
  BY Sizes, GuardedKernels, Zenon DEF dger_k_avx, AddProd2x4_AVX_d, AddProd2x2_SSE_d
<1>3. GerOK(sger_k_avx512)
  BY Sizes, GuardedKernels, Zenon DEF sger_k_avx512, AddProd16x4_AVX512
<1>4. GerOK(dger_k_avx512)
  BY Sizes, GuardedKernels, Zenon DEF dger_k_avx512, AddProd8x4_AVX512_d
<1>. QED
  BY <1>1, <1>2, <1>3, <1>4 DEF TableOK, EntryOK, AvxGer2, Avx512Ger2

(* Entries that replace others leave a table sound. *)
LEMMA OverTable ==
  ASSUME NEW over, NEW present, NEW below, TableOK(over), TableOK(below)
  PROVE  TableOK(Over(over, present, below)) /\ DOMAIN Over(over, present, below) = DOMAIN below
BY DEF Over, TableOK

(* Whatever the feature word, every entry of the table is a kernel of its   *)
(* kind.                                                                    *)
LEMMA TableOfKernels ==
  ASSUME NEW f, NEW name \in {"sgemv", "dgemv", "sgemv_t", "dgemv_t", "sger", "dger"}
  PROVE  EntryOK(name, MatrixKernelsOf(f)[name])
<1> DEFINE T1 == Over(Sse2, "sse" \in f, Base2)
           T2 == Over(Avx2, {"sse", "avx"} \subseteq f, T1)
           T3 == Over(AvxGer2, {"sse", "avx2"} \subseteq f, T2)
           T4 == Over(Fma2, {"sse", "fma3"} \subseteq f, T3)
           T5 == Over(Avx512Ger2, {"sse", "avx512"} \subseteq f, T4)
           N1 == Over(Neon2, TRUE, Base2)
<1>1. DOMAIN Base2 = {"sgemv", "dgemv", "sgemv_t", "dgemv_t", "sger", "dger"}
  BY DEF Base2
<1>2. TableOK(T1) /\ DOMAIN T1 = DOMAIN Base2
  BY OverTable, SseTable, BaseTable
<1>3. TableOK(T2) /\ DOMAIN T2 = DOMAIN Base2
  BY <1>2, OverTable, AvxTable
<1>4. TableOK(T3) /\ DOMAIN T3 = DOMAIN Base2
  BY <1>3, OverTable, WideGerTables
<1>5. TableOK(T4) /\ DOMAIN T4 = DOMAIN Base2
  BY <1>4, OverTable, FmaTable
<1>6. TableOK(T5) /\ DOMAIN T5 = DOMAIN Base2
  BY <1>5, OverTable, WideGerTables
<1>7. TableOK(N1) /\ DOMAIN N1 = DOMAIN Base2
  BY OverTable, NeonTable, BaseTable
<1>8. MatrixKernelsOf(f) = IF "neon" \in f THEN N1 ELSE T5
  BY DEF MatrixKernelsOf
<1>. HIDE DEF T1, T2, T3, T4, T5, N1
<1>. QED
  BY <1>1, <1>6, <1>7, <1>8 DEF TableOK

-----------------------------------------------------------------------------
(* Part 2: the walk.  What the proof knows of a call once the driver has    *)
(* chosen its form, its kernel and its split.                               *)

(* What the driver made of the caller's arguments. *)
FormOK(c) ==
  \/ /\ c.routine \in Gemv /\ c.kernel.form = "dot" /\ c.along = "y" /\ c.split # "cols"
     /\ c.kernel.cblock = FALSE /\ c.kernel.rblock = FALSE
     /\ c.kernel.isa # "base" => c.kernel.scale = "tested"
     /\ Asks(c.kernel)
  \/ /\ c.routine \in Gemv /\ c.kernel.form = "axpy" /\ c.along = "x" /\ c.split # "rows"
     /\ c.kernel.cblock \in BOOLEAN /\ c.kernel.rblock = FALSE
     /\ Asks(c.kernel)
  \/ /\ c.routine \in {"sger", "dger"} /\ c.kernel.form = "ger" /\ c.split # "cols"
     /\ c.kernel.cblock = FALSE /\ c.kernel.rblock \in BOOLEAN
     /\ c.layout = "row" => GerOK(c.kernel)

(* The stored matrix and its operands, by layout and transposition. *)
OperandsOK(c) ==
  /\ c.layout \in {"row", "col"} /\ c.trans \in {"no", "yes"}
  /\ c.layout = "row" => c.rows = c.m /\ c.cols = c.n /\ c.ld = c.lda
  /\ c.layout = "col" => c.rows = c.n /\ c.cols = c.m
                         /\ c.ld = IF c.routine \in Gemv THEN c.lda ELSE c.m
  /\ c.along = IF \/ c.layout = "row" /\ c.routine \in Gemv /\ c.trans = "no"
                  \/ c.layout = "col" /\ (c.routine \in Gemv => c.trans = "yes")
               THEN "y" ELSE "x"

(* A call that the walk can execute. *)
CallOK(c) ==
  /\ c.m \in Nat \ {0} /\ c.n \in Nat \ {0} /\ c.lda \in Nat
  /\ c.rows \in Nat \ {0} /\ c.cols \in Nat \ {0} /\ c.ld \in Nat
  /\ c.incx \in Nat \ {0} /\ c.incy \in Nat \ {0} /\ c.threads \in Nat \ {0}
  /\ c.split \in {"none", "rows", "cols"} /\ (c.split = "none" => c.threads = 1)
  /\ PassesOK(c.kernel.passes)
  /\ FormOK(c) /\ OperandsOK(c)

(* Some work is in progress or was done. *)
Working == pc # "idle" /\ ~Nothing(call)

(* The share p is where the shares before it end. *)
ShareOK(c, p, a) ==
  /\ p \in 1..Shares(c)
  /\ a.row \in Nat /\ a.m \in Nat /\ a.col \in Nat /\ a.n \in Nat \ {0}
  /\ IF c.split = "cols"
     THEN /\ a.row = 0 /\ a.m = c.rows
          /\ a.col = (p - 1) * ColumnWidth(c)
          /\ a.n = Min2(ColumnWidth(c), c.cols - a.col)
     ELSE /\ a.row <= c.rows /\ a.m = CeilDiv(c.rows - a.row, c.threads - p + 1)
          /\ a.col = 0 /\ a.n = c.cols /\ (p = 1 => a.row = 0)

(* The cache block lies in the share; it is cut only along what the kernel  *)
(* cuts.                                                                    *)
BlockOK ==
  /\ block.r0 \in 0..block.r1 /\ block.r1 \in 0..args.m
  /\ block.c0 \in 0..block.c1 /\ block.c1 \in 0..args.n
  /\ ~K.rblock => block.r0 = 0 /\ block.r1 = args.m
  /\ ~K.cblock => block.c0 = 0 /\ block.c1 = args.n

(* A pass goes on until too few rows are left for it, a loop until too few  *)
(* columns are, and rounds the bound only where it may.                     *)
WalkOK ==
  /\ row \in block.r0..block.r1 /\ col \in 0..(block.c1 - block.c0)
  /\ pass \in 1..(Len(Passes) + 1) /\ (pass = Len(Passes) + 1 => row = block.r1)
  /\ IF InPass
     THEN LET ls == Passes[pass].loops
          IN  /\ loop \in 1..(Len(ls) + 1)
              /\ loop = Len(ls) + 1 => col = block.c1 - block.c0
              /\ loop <= Len(ls) /\ ls[loop].until = "rounded" =>
                   \E q \in Nat : col = q * ls[loop].step
     ELSE loop = 1 /\ col = 0

(* The cells of the stored matrix in rows a..b-1 and columns c..d-1. *)
Area(a, b, c, d) == (a..(b - 1)) \X (c..(d - 1))

Cells(p) ==
  Area(p.row0 + p.row, p.row0 + p.row + p.rows, p.col0 + p.col, p.col0 + p.col + p.cols)

Entries ==
  [row0 : Nat, row : Nat, rows : Nat \ {0}, rowAs : {"inc", "unit"},
   col0 : Nat, col : Nat, cols : Nat \ {0}, colAs : {"inc", "unit"}]

(* The entries of s are the cells of S, each once. *)
Tiles(s, S) ==
  /\ s \in Seq(Entries)
  /\ UNION {Cells(s[j]) : j \in DOMAIN s} = S
  /\ \A i, j \in DOMAIN s : i < j => Cells(s[i]) \cap Cells(s[j]) = {}

(* The rows of the pass in the columns it has swept. *)
Hot ==
  Area(args.row + row,
       args.row + row + (IF pass <= Len(Passes) THEN Passes[pass].rows ELSE 0),
       args.col + block.c0, args.col + block.c0 + col)

(* The shares before, the blocks before and the passes before. *)
Shared == Area(0, args.row, 0, call.cols) \cup Area(0, call.rows, 0, args.col)
Settled ==
  Shared \cup Area(args.row, args.row + args.m, args.col, args.col + block.c0)
         \cup Area(args.row, args.row + row, args.col, args.col + block.c1)

Behind ==
  CASE pc = "enter" -> Shared
    [] pc = "sweep" -> Settled \cup (IF K.form = "dot" THEN {} ELSE Hot)
    [] OTHER -> Area(0, args.row + args.m, 0, args.col + args.n)

(* The dot form writes at the end of a pass. *)
InRegisters == IF pc = "sweep" /\ K.form = "dot" THEN Hot ELSE {}

(* Kernels of the axpy form that return after scaling. *)
Stops == K.form = "axpy" /\ K.stopsAtZero /\ call.alpha = "zero"

(* What was recorded so far is what is behind the walk, each cell once. *)
TilesOK ==
  IF Stops THEN added = <<>> /\ held = <<>>
  ELSE Tiles(added, Behind) /\ Tiles(held, InRegisters)

(* Every address that an entry takes is the stride's. *)
UsesStrides(p) ==
  /\ p.rowAs = "inc" \/ RowStride = 1
  /\ p.colAs = "inc" \/ ColStride = 1

StridesOK ==
  Addressed(Passes, RowStride = 1, ColStride = 1) =>
    /\ \A j \in DOMAIN added : UsesStrides(added[j])
    /\ \A j \in DOMAIN held : UsesStrides(held[j])

(* The elements of y that beta has reached. *)
BetaRows ==
  CASE pc = "enter" -> args.row [] pc = "sweep" -> args.row + row [] OTHER -> args.row + args.m
BetaCols == IF pc = "enter" THEN args.col ELSE args.col + args.n
Elements(n, stride) == {i * stride : i \in 0..(n - 1)}
BehindBeta ==
  IF K.form = "dot" THEN Elements(BetaRows, RowStride)
  ELSE IF call.beta = "one" THEN {} ELSE Elements(BetaCols, ColStride)

(* beta reached what is behind the walk, once; y was not read unset. *)
BetaOK ==
  call.routine \in Gemv =>
    /\ scaled = BehindBeta
    /\ again = FALSE
    /\ ~(K.form = "dot" /\ K.isa = "base") => unset = FALSE

CallInv  == pc # "idle" => CallOK(call)
ShareInv == Working => ShareOK(call, part, args) /\ (pc = "done" => part = Shares(call))
WalkInv  == pc = "sweep" => ~Stops /\ BlockOK /\ WalkOK
IdleInv  ==
  /\ pc \in {"idle", "enter", "sweep", "return", "done"}
  /\ pc \in {"enter", "sweep", "return"} => Working
  /\ ~Working => added = <<>> /\ held = <<>> /\ scaled = {} /\ again = FALSE /\ unset = FALSE
TilesInv == Working => TilesOK
StrideInv == Working => StridesOK
BetaInv  == Working => BetaOK

IInv == CallInv /\ ShareInv /\ WalkInv /\ IdleInv /\ TilesInv /\ StrideInv /\ BetaInv

-----------------------------------------------------------------------------
(* Arithmetic. *)

(* Arithmetic of blocks: quotients, multiples and rounding up. *)
LEMMA DivMod ==
  ASSUME NEW a \in Nat, NEW b \in Nat \ {0}
  PROVE  /\ a \div b \in Nat /\ a % b \in Nat
         /\ a = b * (a \div b) + (a % b) /\ a % b < b
BY SMT

LEMMA MulMonotone ==
  ASSUME NEW a \in Nat, NEW b \in Nat, NEW s \in Nat, a <= b
  PROVE  a * s <= b * s
BY SMT

(* Multiples of s of different numbers differ by s at least. *)
LEMMA MulApart ==
  ASSUME NEW a \in Nat, NEW b \in Nat, NEW s \in Nat, a < b
  PROVE  a * s + s <= b * s
<1>1. (a + 1) * s <= b * s
  BY MulMonotone
<1>2. (a + 1) * s = a * s + s
  BY SMT
<1>3. a * s \in Nat /\ b * s \in Nat
  BY SMT
<1>. QED
  BY <1>1, <1>2, <1>3

LEMMA MulInjective ==
  ASSUME NEW a \in Nat, NEW b \in Nat, NEW s \in Nat \ {0}, a * s = b * s
  PROVE  a = b
<1>0. a * s \in Nat /\ b * s \in Nat
  BY SMT
<1>1. ~(a < b)
  BY <1>0, MulApart
<1>2. ~(b < a)
  BY <1>0, MulApart
<1>. QED
  BY <1>1, <1>2

LEMMA CeilDivBounds ==
  ASSUME NEW a \in Nat, NEW b \in Nat \ {0}
  PROVE  /\ CeilDiv(a, b) \in Nat
         /\ CeilDiv(a, b) * b >= a
         /\ CeilDiv(a, b) * b < a + b
<1> DEFINE q == (a + b - 1) \div b
           r == (a + b - 1) % b
<1>1. a + b - 1 \in Nat
  BY SMT
<1>2. q \in Nat /\ r \in Nat /\ a + b - 1 = b * q + r /\ r < b
  BY <1>1, DivMod
<1> HIDE DEF q, r
<1>3. q * b = b * q
  BY <1>2, SMT
<1>4. q * b >= a /\ q * b < a + b
  BY <1>2, <1>3, SMT
<1> QED
  BY <1>2, <1>4 DEF CeilDiv, q

(* A share of the rows is at most all of them, the last one is all. *)
LEMMA CeilDivShare ==
  ASSUME NEW a \in Nat, NEW b \in Nat \ {0}
  PROVE  CeilDiv(a, b) \in 0..a /\ (b = 1 => CeilDiv(a, b) = a)
<1> DEFINE c == CeilDiv(a, b)
<1>1. c \in Nat /\ c * b >= a /\ c * b < a + b
  BY CeilDivBounds
<1> HIDE DEF c
<1>2. c <= a
  <2> SUFFICES ASSUME a + 1 <= c PROVE FALSE
    BY <1>1
  <2>1. (a + 1) * b <= c * b
    BY <1>1, MulMonotone
  <2>2. (a + 1) * b = a * b + b
    BY SMT
  <2>3. a * 1 <= a * b
    BY SMT
  <2>4. a * b \in Nat /\ c * b \in Nat
    BY <1>1, SMT
  <2>. QED
    BY <1>1, <2>1, <2>2, <2>3, <2>4
<1>3. b = 1 => c = a
  BY <1>1
<1>. QED
  BY <1>1, <1>2, <1>3 DEF c

(* The multiples of s up to n. *)
LEMMA Floor ==
  ASSUME NEW n \in Nat, NEW s \in Nat \ {0}
  PROVE  /\ n \div s \in Nat /\ (n \div s) * s \in 0..n
         /\ n < (n \div s) * s + s /\ (s = 1 => (n \div s) * s = n)
<1> DEFINE q == n \div s
           r == n % s
<1>1. q \in Nat /\ r \in Nat /\ n = s * q + r /\ r < s
  BY DivMod
<1> HIDE DEF q, r
<1>2. s * q = q * s /\ q * s \in Nat
  BY <1>1, SMT
<1>3. q * s \in 0..n /\ n < q * s + s
  BY <1>1, <1>2
<1>4. s = 1 => q * s = n
  BY <1>1, <1>2
<1>. QED
  BY <1>1, <1>3, <1>4 DEF q

(* A rounded loop from a multiple of its step ends on its bound. *)
LEMMA Rounded ==
  ASSUME NEW p \in Nat, NEW q \in Nat, NEW s \in Nat \ {0}, p * s < q * s
  PROVE  p * s + CeilDiv(q * s - p * s, s) * s = q * s
<1>0. p * s \in Nat /\ q * s \in Nat
  BY SMT
<1>1. p < q
  <2> SUFFICES ASSUME q <= p PROVE FALSE
    OBVIOUS
  <2>1. q * s <= p * s
    BY MulMonotone
  <2>. QED
    BY <1>0, <2>1
<1>2. q - p \in Nat /\ (q - p) * s = q * s - p * s
  BY <1>1, SMT
<1> DEFINE a == (q - p) * s
           c == CeilDiv(a, s)
<1>3. a \in Nat
  BY <1>0, <1>1, <1>2, SMT
<1>4. c \in Nat /\ c * s >= a /\ c * s < a + s
  BY <1>3, CeilDivBounds
<1> HIDE DEF a, c
<1>5. c = q - p
  <2> DEFINE d == q - p
  <2>0. d \in Nat /\ a = d * s
    BY <1>2 DEF a
  <2> HIDE DEF d
  <2>1. ~(c < d)
    <3> SUFFICES ASSUME c < d PROVE FALSE
      OBVIOUS
    <3>1. c * s + s <= d * s
      BY <1>4, <2>0, MulApart
    <3>2. c * s \in Nat
      BY <1>4, SMT
    <3>. QED
      BY <1>3, <1>4, <2>0, <3>1, <3>2
  <2>2. ~(d < c)
    <3> SUFFICES ASSUME d < c PROVE FALSE
      OBVIOUS
    <3>1. d * s + s <= c * s
      BY <1>4, <2>0, MulApart
    <3>2. c * s \in Nat
      BY <1>4, SMT
    <3>. QED
      BY <1>3, <1>4, <2>0, <3>1, <3>2
  <2>. QED
    BY <1>4, <2>0, <2>1, <2>2 DEF d
<1>6. CeilDiv(q * s - p * s, s) = q - p
  BY <1>2, <1>5 DEF a, c
<1>. QED
  BY <1>0, <1>2, <1>6

(* Where a loop leaves the column, from what the walk knows of it. *)
LEMMA SweptColumns ==
  ASSUME NEW l, NEW n \in Nat, col \in 0..n,
         l.step \in Nat \ {0}, l.until \in {"rounded", "fits", "once"},
         l.until = "rounded" => \E q \in Nat : col = q * l.step
  PROVE  /\ Swept(l, n) \in col..n
         /\ l.step = 1 /\ l.until = "fits" => Swept(l, n) = n
         /\ l.until = "rounded" => \E q \in Nat : Swept(l, n) = q * l.step
<1> DEFINE s == l.step
<1>1. CASE l.until = "rounded"
  <2>1. PICK p \in Nat : col = p * s
    BY <1>1
  <2> DEFINE e == n \div s
  <2>2. e \in Nat /\ e * s \in 0..n
    BY Floor
  <2>3. Swept(l, n) = IF col < e * s THEN col + CeilDiv(e * s - col, s) * s ELSE col
    BY <1>1 DEF Swept
  <2> HIDE DEF e
  <2>4. CASE col < e * s
    <3>1. col + CeilDiv(e * s - col, s) * s = e * s
      BY <2>1, <2>2, <2>4, Rounded
    <3>. QED
      BY <1>1, <2>2, <2>3, <2>4, <3>1
  <2>5. CASE ~(col < e * s)
    BY <1>1, <2>1, <2>3, <2>5
  <2>. QED
    BY <2>4, <2>5
<1>2. CASE l.until = "fits"
  <2>1. Swept(l, n) = IF col + s <= n THEN col + ((n - col) \div s) * s ELSE col
    BY <1>2 DEF Swept
  <2>2. n - col \in Nat
    OBVIOUS
  <2>3. /\ ((n - col) \div s) * s \in 0..(n - col)
        /\ s = 1 => ((n - col) \div s) * s = n - col
    BY <2>2, Floor
  <2>. QED
    BY <1>2, <2>1, <2>2, <2>3
<1>3. CASE l.until = "once"
  BY <1>3 DEF Swept
<1>. QED
  BY <1>1, <1>2, <1>3

-----------------------------------------------------------------------------
(* Tilings. *)

(* The cells of a recorded entry, one by one. *)
LEMMA CellsOfEntry ==
  ASSUME NEW p \in Entries
  PROVE  /\ Cells(p) \subseteq Nat \X Nat
         /\ \A i, j \in Nat : <<i, j>> \in Cells(p) <=>
              \E q \in 0..(p.rows - 1), l \in 0..(p.cols - 1) :
                i = p.row0 + p.row + q /\ j = p.col0 + p.col + l
<1>1. /\ p.row0 \in Nat /\ p.row \in Nat /\ p.rows \in Nat
      /\ p.col0 \in Nat /\ p.col \in Nat /\ p.cols \in Nat
  BY DEF Entries
<1>2. Cells(p) \subseteq Nat \X Nat
  BY <1>1 DEF Cells, Area
<1>3. ASSUME NEW i \in Nat, NEW j \in Nat
      PROVE  <<i, j>> \in Cells(p) <=>
               /\ p.row0 + p.row <= i /\ i < p.row0 + p.row + p.rows
               /\ p.col0 + p.col <= j /\ j < p.col0 + p.col + p.cols
  BY <1>1 DEF Cells, Area
<1>4. ASSUME NEW i \in Nat, NEW j \in Nat, <<i, j>> \in Cells(p)
      PROVE  \E q \in 0..(p.rows - 1), l \in 0..(p.cols - 1) :
               i = p.row0 + p.row + q /\ j = p.col0 + p.col + l
  <2>1. /\ i - (p.row0 + p.row) \in 0..(p.rows - 1)
        /\ j - (p.col0 + p.col) \in 0..(p.cols - 1)
        /\ i = p.row0 + p.row + (i - (p.row0 + p.row))
        /\ j = p.col0 + p.col + (j - (p.col0 + p.col))
    BY <1>1, <1>3, <1>4
  <2>. QED
    BY <2>1
<1>5. ASSUME NEW q \in 0..(p.rows - 1), NEW l \in 0..(p.cols - 1)
      PROVE  <<p.row0 + p.row + q, p.col0 + p.col + l>> \in Cells(p)
  BY <1>1, <1>3
<1>. QED
  BY <1>2, <1>4, <1>5

(* Tilings start empty, and grow by entries and by one another. *)
LEMMA TilesEmpty == Tiles(<<>>, {})
BY DEF Tiles

LEMMA TilesAppend ==
  ASSUME NEW s, NEW S, NEW p \in Entries, NEW T, Tiles(s, S), Cells(p) \cap S = {},
         T = S \cup Cells(p)
  PROVE  /\ Tiles(Append(s, p), T)
         /\ \A j \in DOMAIN Append(s, p) :
              (j \in DOMAIN s /\ Append(s, p)[j] = s[j]) \/ Append(s, p)[j] = p
<1> DEFINE u == Append(s, p)
<1>1. s \in Seq(Entries) /\ Len(s) \in Nat /\ DOMAIN s = 1..Len(s)
  BY DEF Tiles
<1>2. /\ u \in Seq(Entries) /\ DOMAIN u = 1..(Len(s) + 1)
      /\ \A j \in 1..Len(s) : u[j] = s[j]
      /\ u[Len(s) + 1] = p
  BY <1>1
<1> HIDE DEF u
<1>3. \A j \in 1..Len(s) : Cells(s[j]) \subseteq S
  BY <1>1 DEF Tiles
<1>4. UNION {Cells(u[j]) : j \in DOMAIN u} = S \cup Cells(p)
  <2>1. ASSUME NEW c, c \in UNION {Cells(u[j]) : j \in DOMAIN u}
        PROVE  c \in S \cup Cells(p)
    <3>1. PICK j \in DOMAIN u : c \in Cells(u[j])
      BY <2>1
    <3>2. CASE j \in 1..Len(s)
      BY <1>2, <1>3, <3>1, <3>2
    <3>3. CASE j = Len(s) + 1
      BY <1>2, <3>1, <3>3
    <3>. QED
      BY <1>1, <1>2, <3>1, <3>2, <3>3
  <2>2. ASSUME NEW c \in S
        PROVE  c \in UNION {Cells(u[j]) : j \in DOMAIN u}
    <3>1. PICK j \in DOMAIN s : c \in Cells(s[j])
      BY DEF Tiles
    <3>2. j \in DOMAIN u /\ u[j] = s[j]
      BY <1>1, <1>2
    <3>. QED
      BY <3>1, <3>2
  <2>3. ASSUME NEW c \in Cells(p)
        PROVE  c \in UNION {Cells(u[j]) : j \in DOMAIN u}
    <3>1. Len(s) + 1 \in DOMAIN u
      BY <1>1, <1>2
    <3>. QED
      BY <1>2, <3>1
  <2>. QED
    BY <2>1, <2>2, <2>3
<1>5. ASSUME NEW i \in DOMAIN u, NEW j \in DOMAIN u, i < j
      PROVE  Cells(u[i]) \cap Cells(u[j]) = {}
  <2>1. i \in 1..Len(s) /\ u[i] = s[i]
    BY <1>1, <1>2, <1>5
  <2>2. CASE j \in 1..Len(s)
    <3>1. u[j] = s[j] /\ i \in DOMAIN s /\ j \in DOMAIN s
      BY <1>1, <1>2, <2>1, <2>2
    <3>. QED
      BY <1>5, <2>1, <3>1 DEF Tiles
  <2>3. CASE j = Len(s) + 1
    BY <1>2, <1>3, <2>1, <2>3
  <2>. QED
    BY <1>1, <1>2, <2>2, <2>3
<1>6. ASSUME NEW j \in DOMAIN u
      PROVE  (j \in DOMAIN s /\ u[j] = s[j]) \/ u[j] = p
  BY <1>1, <1>2
<1>. QED
  BY <1>2, <1>4, <1>5, <1>6 DEF Tiles, u

LEMMA TilesConcat ==
  ASSUME NEW s, NEW S, NEW t, NEW T, Tiles(s, S), Tiles(t, T), S \cap T = {}
  PROVE  /\ Tiles(s \o t, S \cup T)
         /\ \A j \in DOMAIN (s \o t) :
              \/ j \in DOMAIN s /\ (s \o t)[j] = s[j]
              \/ \E i \in DOMAIN t : (s \o t)[j] = t[i]
<1> DEFINE u == s \o t
           n == Len(s)
           m == Len(t)
<1>1. /\ s \in Seq(Entries) /\ n \in Nat /\ DOMAIN s = 1..n
      /\ t \in Seq(Entries) /\ m \in Nat /\ DOMAIN t = 1..m
  BY DEF Tiles
<1>2. /\ u \in Seq(Entries) /\ DOMAIN u = 1..(n + m)
      /\ \A j \in 1..(n + m) : u[j] = IF j <= n THEN s[j] ELSE t[j - n]
  BY <1>1, ConcatProperties, LenProperties
<1> HIDE DEF u, n, m
<1>3. /\ \A j \in 1..n : Cells(s[j]) \subseteq S
      /\ \A j \in 1..m : Cells(t[j]) \subseteq T
  BY <1>1 DEF Tiles
<1>4. UNION {Cells(u[j]) : j \in DOMAIN u} = S \cup T
  <2>1. ASSUME NEW c, c \in UNION {Cells(u[j]) : j \in DOMAIN u}
        PROVE  c \in S \cup T
    <3>1. PICK j \in 1..(n + m) : c \in Cells(u[j])
      BY <1>2, <2>1
    <3>2. CASE j <= n
      <4>1. j \in 1..n /\ u[j] = s[j]
        BY <1>1, <1>2, <3>2
      <4>. QED
        BY <1>3, <3>1, <4>1
    <3>3. CASE ~(j <= n)
      <4>1. j - n \in 1..m /\ u[j] = t[j - n]
        BY <1>1, <1>2, <3>3
      <4>. QED
        BY <1>3, <3>1, <4>1
    <3>. QED
      BY <3>2, <3>3
  <2>2. ASSUME NEW c \in S
        PROVE  c \in UNION {Cells(u[j]) : j \in DOMAIN u}
    <3>1. PICK j \in DOMAIN s : c \in Cells(s[j])
      BY DEF Tiles
    <3>2. j \in DOMAIN u /\ u[j] = s[j]
      BY <1>1, <1>2
    <3>. QED
      BY <3>1, <3>2
  <2>3. ASSUME NEW c \in T
        PROVE  c \in UNION {Cells(u[j]) : j \in DOMAIN u}
    <3>1. PICK j \in DOMAIN t : c \in Cells(t[j])
      BY DEF Tiles
    <3>2. j + n \in DOMAIN u /\ u[j + n] = t[j]
      <4>1. j \in 1..m /\ j + n \in 1..(n + m) /\ ~(j + n <= n) /\ (j + n) - n = j
        BY <1>1
      <4>. QED
        BY <1>2, <4>1
    <3>. QED
      BY <3>1, <3>2
  <2>. QED
    BY <2>1, <2>2, <2>3
<1>5. ASSUME NEW i \in DOMAIN u, NEW j \in DOMAIN u, i < j
      PROVE  Cells(u[i]) \cap Cells(u[j]) = {}
  <2>1. CASE j <= n
    <3>1. i \in DOMAIN s /\ j \in DOMAIN s /\ u[i] = s[i] /\ u[j] = s[j]
      BY <1>1, <1>2, <1>5, <2>1
    <3>. QED
      BY <1>5, <3>1 DEF Tiles
  <2>2. CASE i <= n /\ ~(j <= n)
    <3>1. i \in 1..n /\ j - n \in 1..m /\ u[i] = s[i] /\ u[j] = t[j - n]
      BY <1>1, <1>2, <1>5, <2>2
    <3>. QED
      BY <1>3, <3>1
  <2>3. CASE ~(i <= n)
    <3>1. /\ i - n \in DOMAIN t /\ j - n \in DOMAIN t /\ i - n < j - n
          /\ u[i] = t[i - n] /\ u[j] = t[j - n]
      BY <1>1, <1>2, <1>5, <2>3
    <3>. QED
      BY <3>1 DEF Tiles
  <2>. QED
    BY <1>1, <1>2, <1>5, <2>1, <2>2, <2>3
<1>6. ASSUME NEW j \in DOMAIN u
      PROVE  (j \in DOMAIN s /\ u[j] = s[j]) \/ \E i \in DOMAIN t : u[j] = t[i]
  <2>1. CASE j <= n
    BY <1>1, <1>2, <2>1
  <2>2. CASE ~(j <= n)
    <3>1. j - n \in DOMAIN t /\ u[j] = t[j - n]
      BY <1>1, <1>2, <2>2
    <3>. QED
      BY <3>1
  <2>. QED
    BY <2>1, <2>2
<1>. QED
  BY <1>2, <1>4, <1>5, <1>6 DEF Tiles, u

-----------------------------------------------------------------------------
(* What stays the same during a call, and its shares. *)

(* Nothing that the call determines changes while the call stays. *)
LEMMA Static ==
  ASSUME call' = call
  PROVE  /\ K' = K /\ Passes' = Passes /\ RowStride' = RowStride /\ ColStride' = ColStride
         /\ Stops' = Stops /\ CallOK(call)' = CallOK(call) /\ Nothing(call)' = Nothing(call)
BY DEF K, Passes, Fast, Contiguous, RowStride, ColStride, Stops, CallOK, Nothing, FormOK,
       OperandsOK, Asks, GerOK

(* The passes that run are sound, fast or plain. *)
LEMMA CallFacts ==
  ASSUME CallOK(call)
  PROVE  /\ PassesOK(Passes)
         /\ RowStride \in Nat \ {0} /\ ColStride \in Nat \ {0}
BY PlainOK DEF CallOK, Passes, K, RowStride, ColStride

(* ... and so is each of them. *)
LEMMA PassFacts ==
  ASSUME CallOK(call), pass \in 1..Len(Passes)
  PROVE  /\ Passes[pass].rows \in Nat \ {0}
         /\ LoopsOK(Passes[pass].loops)
         /\ pass = Len(Passes) => Passes[pass].rows = 1
BY CallFacts DEF PassesOK

(* The kernels of GEMV use the strides wherever they may differ from 1. *)
LEMMA GemvAddressed ==
  ASSUME CallOK(call), call.routine \in Gemv
  PROVE  Addressed(Passes, RowStride = 1, ColStride = 1)
<1>1. Asks(K)
  BY DEF CallOK, FormOK, K, Gemv
<1>2. CASE Fast
  <2>1. Passes = K.passes
    BY <1>2 DEF Passes
  <2>2. /\ "row" \in K.fast => RowStride = 1
        /\ "col" \in K.fast => ColStride = 1
    BY <1>2 DEF Fast
  <2>. QED
    BY <1>1, <2>1, <2>2 DEF Asks, Addressed
<1>3. CASE ~Fast
  BY <1>3, PlainOK DEF Passes
<1>. QED
  BY <1>2, <1>3

(* A thread of the axpy form gets at least one cache line of columns. *)
LEMMA Width ==
  ASSUME NEW c, CallOK(c)
  PROVE  ColumnWidth(c) \in Nat \ {0}
<1> DEFINE share == CeilDiv(c.cols, c.threads)
           align == Align(c.routine)
           lines == CeilDiv(share, align)
<1>1. c.cols \in Nat \ {0} /\ c.threads \in Nat \ {0} /\ align \in Nat \ {0}
  BY DEF CallOK, Align
<1> HIDE DEF align
<1>2. share \in Nat /\ share * c.threads >= c.cols
  BY <1>1, CeilDivBounds
<1> HIDE DEF share
<1>3. share # 0
  BY <1>1, <1>2
<1>4. lines \in Nat /\ lines * align >= share
  BY <1>1, <1>2, CeilDivBounds
<1> HIDE DEF lines
<1>5. lines * align \in Nat /\ lines * align # 0
  <2>1. lines * align \in Nat
    BY <1>1, <1>4, SMT
  <2>. QED
    BY <1>2, <1>3, <1>4, <2>1
<1>. QED
  BY <1>5 DEF ColumnWidth, share, align, lines

(* Fewer than Shares widths do not reach the end. *)
LEMMA Widths ==
  ASSUME NEW c, CallOK(c), c.split = "cols", NEW p \in 1..Shares(c)
  PROVE  /\ Shares(c) \in Nat
         /\ (p - 1) * ColumnWidth(c) \in 0..(c.cols - 1)
         /\ p < Shares(c) => /\ p * ColumnWidth(c) < c.cols
                             /\ p * ColumnWidth(c) = (p - 1) * ColumnWidth(c) + ColumnWidth(c)
         /\ p = Shares(c) => c.cols - (p - 1) * ColumnWidth(c) <= ColumnWidth(c)
<1> DEFINE w == ColumnWidth(c)
           n == Shares(c)
<1>1. w \in Nat \ {0} /\ c.cols \in Nat \ {0}
  BY Width DEF CallOK
<1>2. n \in Nat /\ n * w >= c.cols /\ n * w < c.cols + w
  BY <1>1, CeilDivBounds DEF Shares
<1> HIDE DEF w, n
<1>3. p \in Nat /\ p - 1 \in Nat /\ p <= n
  BY <1>2 DEF n
<1>4. p * w = (p - 1) * w + w
  BY <1>1, <1>3, SMT
<1>5. p * w <= n * w
  BY <1>1, <1>2, <1>3, MulMonotone
<1>6. (p - 1) * w \in Nat /\ p * w \in Nat /\ n * w \in Nat
  BY <1>1, <1>2, <1>3, SMT
<1>7. (p - 1) * w \in 0..(c.cols - 1)
  BY <1>1, <1>2, <1>4, <1>5, <1>6
<1>8. p < n => p * w < c.cols
  <2> SUFFICES ASSUME p < n PROVE p * w < c.cols
    OBVIOUS
  <2>1. p * w + w <= n * w
    BY <1>1, <1>2, <1>3, MulApart
  <2>. QED
    BY <1>1, <1>2, <1>6, <2>1
<1>9. p = n => c.cols - (p - 1) * w <= w
  BY <1>1, <1>2, <1>4, <1>6
<1>. QED
  BY <1>2, <1>4, <1>7, <1>8, <1>9 DEF w, n

(* A share lies in the matrix, takes all of one dimension, and the last one *)
(* ends where the matrix does.                                              *)
LEMMA ShareFacts ==
  ASSUME NEW c, NEW p, NEW a, CallOK(c), ShareOK(c, p, a)
  PROVE  /\ a.row \in Nat /\ a.m \in Nat /\ a.col \in Nat /\ a.n \in Nat \ {0}
         /\ c.rows \in Nat /\ c.cols \in Nat
         /\ a.row + a.m <= c.rows /\ a.col + a.n <= c.cols
         /\ c.split = "cols" => a.row = 0 /\ a.m = c.rows
         /\ c.split # "cols" => a.col = 0 /\ a.n = c.cols
         /\ c.split = "none" => a.row = 0 /\ a.m = c.rows
         /\ p = Shares(c) => a.row + a.m = c.rows /\ a.col + a.n = c.cols
<1>1. /\ a.row \in Nat /\ a.m \in Nat /\ a.col \in Nat /\ a.n \in Nat \ {0}
      /\ c.rows \in Nat /\ c.cols \in Nat /\ c.threads \in Nat \ {0}
  BY DEF ShareOK, CallOK
<1>2. CASE c.split = "cols"
  <2>1. /\ a.row = 0 /\ a.m = c.rows /\ a.col = (p - 1) * ColumnWidth(c)
        /\ a.n = Min2(ColumnWidth(c), c.cols - a.col)
    BY <1>2 DEF ShareOK
  <2>2. p \in 1..Shares(c)
    BY DEF ShareOK
  <2>3. /\ (p - 1) * ColumnWidth(c) \in 0..(c.cols - 1)
        /\ p = Shares(c) => c.cols - (p - 1) * ColumnWidth(c) <= ColumnWidth(c)
    BY <1>2, <2>2, Widths
  <2>4. ColumnWidth(c) \in Nat \ {0}
    BY Width
  <2>. QED
    BY <1>1, <1>2, <2>1, <2>3, <2>4 DEF Min2
<1>3. CASE c.split # "cols"
  <2>1. /\ a.row <= c.rows /\ a.m = CeilDiv(c.rows - a.row, c.threads - p + 1)
        /\ a.col = 0 /\ a.n = c.cols
    BY <1>3 DEF ShareOK
  <2>2. p \in 1..c.threads /\ Shares(c) = c.threads
    BY <1>3 DEF ShareOK, Shares
  <2>3. c.rows - a.row \in Nat /\ c.threads - p + 1 \in Nat \ {0}
    BY <1>1, <2>1, <2>2
  <2>4. a.m \in 0..(c.rows - a.row) /\ (c.threads - p + 1 = 1 => a.m = c.rows - a.row)
    BY <2>1, <2>3, CeilDivShare
  <2>5. c.split = "none" => p = 1 /\ a.row = 0 /\ p = Shares(c)
    BY <1>1, <1>3, <2>2 DEF CallOK, ShareOK
  <2>. QED
    BY <1>1, <1>3, <2>1, <2>2, <2>4, <2>5
<1>. QED
  BY <1>2, <1>3

(* The dispatcher's formulas make such a share, the first one *)
LEMMA ShareStarts ==
  ASSUME NEW c, CallOK(c), NEW p \in 1..Shares(c), NEW r, NEW k,
         IF c.split = "cols" THEN k = (p - 1) * ColumnWidth(c)
         ELSE r \in 0..c.rows /\ (p = 1 => r = 0)
  PROVE  /\ ShareOK(c, p, ShareFrom(c, p, r, k))
         /\ ShareFrom(c, p, r, k).row = IF c.split = "cols" THEN 0 ELSE r
         /\ ShareFrom(c, p, r, k).col = IF c.split = "cols" THEN k ELSE 0
<1>1. c.rows \in Nat \ {0} /\ c.cols \in Nat \ {0} /\ c.threads \in Nat \ {0}
  BY DEF CallOK
<1>2. CASE c.split = "cols"
  <2>1. (p - 1) * ColumnWidth(c) \in 0..(c.cols - 1) /\ ColumnWidth(c) \in Nat \ {0}
    BY <1>2, Width, Widths
  <2>2. ShareFrom(c, p, r, k) = [row |-> 0, m |-> c.rows, col |-> k,
                                 n |-> Min2(ColumnWidth(c), c.cols - k)]
    BY <1>2 DEF ShareFrom, ColumnShare
  <2>3. Min2(ColumnWidth(c), c.cols - k) \in Nat \ {0}
    BY <1>1, <1>2, <2>1 DEF Min2
  <2>. QED
    BY <1>1, <1>2, <2>1, <2>2, <2>3 DEF ShareOK
<1>3. CASE c.split # "cols"
  <2>1. ShareFrom(c, p, r, k) = [row |-> r, m |-> CeilDiv(c.rows - r, c.threads - p + 1),
                                 col |-> 0, n |-> c.cols]
    BY <1>3 DEF ShareFrom, RowShare
  <2>2. p \in 1..c.threads
    BY <1>3 DEF Shares
  <2>3. c.rows - r \in Nat /\ c.threads - p + 1 \in Nat \ {0}
    BY <1>1, <1>3, <2>2
  <2>4. CeilDiv(c.rows - r, c.threads - p + 1) \in Nat
    BY <2>3, CeilDivShare
  <2>. QED
    BY <1>1, <1>3, <2>1, <2>4 DEF ShareOK
<1>. QED
  BY <1>2, <1>3

(* that starts at the origin *)
LEMMA FirstShare ==
  ASSUME NEW c, CallOK(c)
  PROVE  /\ ShareOK(c, 1, ShareFrom(c, 1, 0, 0))
         /\ ShareFrom(c, 1, 0, 0).row = 0 /\ ShareFrom(c, 1, 0, 0).col = 0
<1>1. 1 \in 1..Shares(c)
  <2>1. CASE c.split = "cols"
    <3>1. c.cols \in Nat \ {0} /\ ColumnWidth(c) \in Nat \ {0}
      BY Width DEF CallOK
    <3>2. /\ CeilDiv(c.cols, ColumnWidth(c)) \in Nat
          /\ CeilDiv(c.cols, ColumnWidth(c)) * ColumnWidth(c) >= c.cols
      BY <3>1, CeilDivBounds
    <3> DEFINE q == CeilDiv(c.cols, ColumnWidth(c))
    <3>3. q # 0
      BY <3>1, <3>2
    <3>. QED
      BY <2>1, <3>2, <3>3 DEF Shares
  <2>2. CASE c.split # "cols"
    BY <2>2 DEF Shares, CallOK
  <2>. QED
    BY <2>1, <2>2
<1>2. c.split = "cols" => 0 = (1 - 1) * ColumnWidth(c)
  BY Width
<1>3. c.split # "cols" => 0 \in 0..c.rows /\ (1 = 1 => 0 = 0)
  BY DEF CallOK
<1>. QED
  BY <1>1, <1>2, <1>3, ShareStarts

(* and the following ones, each where the one before ended. *)
LEMMA FollowingShare ==
  ASSUME NEW c, CallOK(c), NEW p, NEW a, ShareOK(c, p, a), p < Shares(c)
  PROVE  LET b == ShareFrom(c, p + 1, a.row + a.m, a.col + a.n)
         IN  /\ ShareOK(c, p + 1, b)
             /\ b.row = IF c.split = "cols" THEN 0 ELSE a.row + a.m
             /\ b.col = IF c.split = "cols" THEN a.col + a.n ELSE 0
<1>1. p \in 1..Shares(c) /\ p + 1 \in 1..Shares(c)
  <2>1. Shares(c) \in Nat
    <3>1. c.split = "cols" => Shares(c) \in Nat
      BY Widths DEF ShareOK
    <3>2. c.split # "cols" => Shares(c) \in Nat
      BY DEF Shares, CallOK
    <3>. QED
      BY <3>1, <3>2
  <2>. QED
    BY <2>1 DEF ShareOK
<1>2. c.split = "cols" => a.col + a.n = ((p + 1) - 1) * ColumnWidth(c)
  <2> SUFFICES ASSUME c.split = "cols" PROVE a.col + a.n = ((p + 1) - 1) * ColumnWidth(c)
    OBVIOUS
  <2>1. /\ p * ColumnWidth(c) < c.cols
        /\ p * ColumnWidth(c) = (p - 1) * ColumnWidth(c) + ColumnWidth(c)
    BY <1>1, Widths
  <2>2. a.col = (p - 1) * ColumnWidth(c) /\ a.n = Min2(ColumnWidth(c), c.cols - a.col)
    BY DEF ShareOK
  <2>3. a.col \in Nat /\ ColumnWidth(c) \in Nat /\ c.cols \in Nat
    BY Width, ShareFacts
  <2>4. (p + 1) - 1 = p
    BY <1>1
  <2>5. a.n = ColumnWidth(c)
    BY <2>1, <2>2, <2>3 DEF Min2
  <2>. QED
    BY <2>1, <2>2, <2>4, <2>5
<1>3. c.split # "cols" => a.row + a.m \in 0..c.rows /\ p + 1 # 1
  BY <1>1, ShareFacts
<1>. QED
  BY <1>1, <1>2, <1>3, ShareStarts

-----------------------------------------------------------------------------
(* The calls the drivers make. *)

(* What the input checks let through. *)
LEMMA ArgumentFacts ==
  ASSUME NEW r, NEW c \in Arguments(r)
  PROVE  /\ c.routine = r /\ c.layout \in {"row", "col"}
         /\ c.trans \in {"no", "yes"} /\ (r \notin Gemv => c.trans = "no")
         /\ c.m \in Nat \ {0} /\ c.n \in Nat \ {0} /\ c.lda \in Nat
         /\ c.incx \in Nat \ {0} /\ c.incy \in Nat \ {0}
<1>1. PICK l \in {"row", "col"}, t \in IF r \in Gemv THEN {"no", "yes"} ELSE {"no"},
           m \in Ms, n \in Ns, p \in Pads, ix \in Strides, iy \in Strides,
           al \in {"zero", "one", "other"},
           be \in IF r \in Gemv THEN {"zero", "one", "other"} ELSE {"one"} :
        c = [routine |-> r, layout |-> l, trans |-> t,
             m |-> m, n |-> n, lda |-> (IF l = "row" THEN n ELSE m) + p,
             incx |-> ix, incy |-> iy, alpha |-> al, beta |-> be]
  BY DEF Arguments
<1>2. /\ m \in Nat \ {0} /\ n \in Nat \ {0} /\ p \in Nat
      /\ ix \in Nat \ {0} /\ iy \in Nat \ {0}
  BY Level2Assumption
<1>3. t \in {"no", "yes"} /\ (r \notin Gemv => t = "no")
  OBVIOUS
<1>4. (IF l = "row" THEN n ELSE m) + p \in Nat
  BY <1>2
<1>. QED
  BY <1>1, <1>2, <1>3, <1>4

(* The drivers make of it a call that the walk can execute. *)
LEMMA GemvCallOK ==
  ASSUME NEW f, NEW r \in Gemv, NEW c \in Arguments(r), NEW above \in BOOLEAN,
         NEW t \in Threads
  PROVE  CallOK(GemvCall(f, c, above, t))
<1> DEFINE dot  == DotForm(c.layout, c.trans)
           mt   == above /\ t > 1 /\ (dot \/ (IF c.layout = "row" THEN c.n ELSE c.m)
                                              >= CBLAS_GEMV_T_MT_MIN_COLS)
           name == IF dot THEN c.routine
                   ELSE IF c.routine = "sgemv" THEN "sgemv_t" ELSE "dgemv_t"
           k    == MatrixKernelsOf(f)[name]
           g    == GemvCall(f, c, above, t)
<1>1. /\ c.routine = r /\ c.layout \in {"row", "col"}
      /\ c.trans \in {"no", "yes"}
      /\ c.m \in Nat \ {0} /\ c.n \in Nat \ {0} /\ c.lda \in Nat
      /\ c.incx \in Nat \ {0} /\ c.incy \in Nat \ {0}
  BY ArgumentFacts
<1>2. t \in Nat \ {0}
  BY Level2Assumption
<1>3. /\ dot => name \in {"sgemv", "dgemv"}
      /\ ~dot => name \in {"sgemv_t", "dgemv_t"}
  BY <1>1 DEF Gemv
<1>4. /\ g.routine = r /\ g.layout = c.layout /\ g.trans = c.trans
      /\ g.m = c.m /\ g.n = c.n /\ g.lda = c.lda /\ g.incx = c.incx /\ g.incy = c.incy
      /\ g.kernel = k /\ g.ld = c.lda
      /\ g.rows = (IF c.layout = "row" THEN c.m ELSE c.n)
      /\ g.cols = (IF c.layout = "row" THEN c.n ELSE c.m)
      /\ g.along = (IF dot THEN "y" ELSE "x")
      /\ g.split = (IF ~mt THEN "none" ELSE IF dot THEN "rows" ELSE "cols")
      /\ g.threads = (IF mt THEN t ELSE 1)
  BY <1>1 DEF GemvCall, Driven
<1>5. EntryOK(name, k)
  BY <1>3, TableOfKernels
<1> HIDE DEF k, name, g, mt
<1>6. /\ dot => GemvOK(k, "dot")
      /\ ~dot => GemvOK(k, "axpy")
  BY <1>3, <1>5 DEF EntryOK
<1>7. PassesOK(k.passes)
  BY <1>6 DEF GemvOK
<1>8. FormOK(g)
  BY <1>4, <1>6 DEF FormOK, GemvOK
<1>9. OperandsOK(g)
  BY <1>1, <1>4 DEF OperandsOK, DotForm
<1>10. /\ g.m \in Nat \ {0} /\ g.n \in Nat \ {0} /\ g.lda \in Nat
       /\ g.rows \in Nat \ {0} /\ g.cols \in Nat \ {0} /\ g.ld \in Nat
       /\ g.incx \in Nat \ {0} /\ g.incy \in Nat \ {0} /\ g.threads \in Nat \ {0}
       /\ g.split \in {"none", "rows", "cols"} /\ (g.split = "none" => g.threads = 1)
  BY <1>1, <1>2, <1>4
<1>. QED
  BY <1>4, <1>7, <1>8, <1>9, <1>10 DEF CallOK, g

(* The driver's own loops for a column-major A. *)
LEMMA ColumnMajorGer ==
  ASSUME NEW routine
  PROVE  LET k == ger_colmajor(routine)
         IN  k.form = "ger" /\ PassesOK(k.passes) /\ k.cblock = FALSE /\ k.rblock = TRUE
<1>1. LoopsOK(<<Block(1)>>)
  <2>1. Block(1) \in {Block(1), StepX, Strided} /\ Block(2) \in {Block(2), Half(2)}
    OBVIOUS
  <2>. QED
    BY <2>1, Sizes, BlockLoops, Zenon
<1>2. PassesOK(<<Pass(1, <<Block(1)>>)>>)
  BY <1>1, Sizes, PassLists, Zenon
<1>. QED
  BY <1>2 DEF ger_colmajor, Kernel

LEMMA GerCallOK ==
  ASSUME NEW f, NEW r \in {"sger", "dger"}, NEW c \in Arguments(r), NEW above \in BOOLEAN,
         NEW t \in Threads
  PROVE  CallOK(GerCall(f, c, above, t))
<1> DEFINE mt == above /\ t > 1 /\ c.layout = "row"
           k  == IF c.layout = "row" THEN MatrixKernelsOf(f)[c.routine]
                 ELSE ger_colmajor(c.routine)
           g  == GerCall(f, c, above, t)
<1>1. /\ c.routine = r /\ c.layout \in {"row", "col"} /\ c.trans = "no" /\ r \notin Gemv
      /\ c.m \in Nat \ {0} /\ c.n \in Nat \ {0} /\ c.lda \in Nat
      /\ c.incx \in Nat \ {0} /\ c.incy \in Nat \ {0}
  BY ArgumentFacts DEF Gemv
<1>2. t \in Nat \ {0}
  BY Level2Assumption
<1>4. /\ g.routine = r /\ g.layout = c.layout /\ g.trans = c.trans
      /\ g.m = c.m /\ g.n = c.n /\ g.lda = c.lda /\ g.incx = c.incx /\ g.incy = c.incy
      /\ g.kernel = k /\ g.ld = (IF c.layout = "row" THEN c.lda ELSE c.m)
      /\ g.rows = (IF c.layout = "row" THEN c.m ELSE c.n)
      /\ g.cols = (IF c.layout = "row" THEN c.n ELSE c.m)
      /\ g.along = (IF c.layout = "row" THEN "x" ELSE "y")
      /\ g.split = (IF mt THEN "rows" ELSE "none")
      /\ g.threads = (IF mt THEN t ELSE 1)
  BY <1>1 DEF GerCall, Driven
<1>5. c.layout = "row" => GerOK(k)
  BY <1>1, TableOfKernels DEF EntryOK
<1>6. c.layout = "col" => k.form = "ger" /\ PassesOK(k.passes) /\ k.cblock = FALSE /\ k.rblock = TRUE
  BY ColumnMajorGer
<1> HIDE DEF k, g, mt
<1>7. PassesOK(k.passes)
  BY <1>1, <1>5, <1>6 DEF GerOK
<1>8. FormOK(g)
  BY <1>1, <1>4, <1>5, <1>6 DEF FormOK, GerOK
<1>9. OperandsOK(g)
  BY <1>1, <1>4 DEF OperandsOK
<1>10. /\ g.m \in Nat \ {0} /\ g.n \in Nat \ {0} /\ g.lda \in Nat
       /\ g.rows \in Nat \ {0} /\ g.cols \in Nat \ {0} /\ g.ld \in Nat
       /\ g.incx \in Nat \ {0} /\ g.incy \in Nat \ {0} /\ g.threads \in Nat \ {0}
       /\ g.split \in {"none", "rows", "cols"} /\ (g.split = "none" => g.threads = 1)
  BY <1>1, <1>2, <1>4
<1>. QED
  BY <1>4, <1>7, <1>8, <1>9, <1>10 DEF CallOK, g

-----------------------------------------------------------------------------
(* The regions of the walk. *)

(* Areas put side by side. *)
LEMMA RegionGrows ==
  ASSUME NEW x \in Nat, NEW y \in Nat, NEW c \in Nat, NEW d \in Nat, NEW e \in Nat,
         c <= d, d <= e
  PROVE  /\ Area(x, y, c, e) = Area(x, y, c, d) \cup Area(x, y, d, e)
         /\ Area(x, y, c, d) \cap Area(x, y, d, e) = {}
BY DEF Area

LEMMA EmptyArea ==
  ASSUME NEW a \in Int, NEW b \in Int, NEW c \in Int, NEW d \in Int, b <= a \/ d <= c
  PROVE  Area(a, b, c, d) = {}
BY DEF Area

-----------------------------------------------------------------------------
(* Blocks and passes. *)

(* A cache block ends inside the share; a dimension that is not cut is      *)
(* taken whole.                                                             *)
LEMMA BlockStarts ==
  ASSUME CallOK(call), args.m \in Nat, args.n \in Nat,
         NEW r \in 0..args.m, NEW c \in 0..args.n,
         ~K.rblock => r = 0, ~K.cblock => c = 0
  PROVE  LET b == BlockFrom(r, c)
         IN  /\ b.r0 = r /\ b.r1 \in r..args.m /\ b.c0 = c /\ b.c1 \in c..args.n
             /\ ~K.rblock => b.r1 = args.m
             /\ ~K.cblock => b.c1 = args.n
BY Level2Assumption DEF BlockFrom, Min2

(* A pass that is about to start. *)
LEMMA PassStarts ==
  ASSUME CallOK(call), call' = call, pc' = "sweep", loop' = 1, col' = 0,
         block.r0' \in Nat, block.r1' \in Nat, block.c0' \in Nat, block.c1' \in Nat,
         row' \in (block.r0')..(block.r1'), block.c0' <= block.c1',
         pass' \in 1..(Len(Passes) + 1), pass' = Len(Passes) + 1 => row' = block.r1'
  PROVE  WalkOK'
<1>1. Passes' = Passes
  BY Static
<1>2. Len(Passes) \in Nat \ {0}
  BY CallFacts DEF PassesOK
<1>3. ASSUME InPass'
      PROVE  LET ls == Passes[pass']. loops
             IN  /\ loop' \in 1..(Len(ls) + 1)
                 /\ loop' = Len(ls) + 1 => col' = block.c1' - block.c0'
                 /\ loop' <= Len(ls) /\ ls[loop'].until = "rounded" =>
                      \E q \in Nat : col' = q * ls[loop'].step
  <2> DEFINE ls == Passes[pass'].loops
  <2>1. pass' \in 1..Len(Passes)
    BY <1>1, <1>2, <1>3 DEF InPass
  <2>2. LoopsOK(ls)
    BY <2>1, CallFacts DEF PassesOK
  <2>3. Len(ls) \in Nat \ {0} /\ ls[1].step \in Nat
    BY <2>2 DEF LoopsOK
  <2>4. 0 = 0 * ls[1].step
    BY <2>3
  <2>. QED
    BY <2>3, <2>4
<1>4. /\ row' \in block'.r0..block'.r1 /\ col' \in 0..(block'.c1 - block'.c0)
      /\ pass' \in 1..(Len(Passes) + 1)
  OBVIOUS
<1>. QED
  BY <1>1, <1>3, <1>4 DEF WalkOK

(* No column of a pass that has just started is recorded. *)
LEMMA HotEmpty ==
  /\ args.col \in Nat /\ block.c0 \in Nat /\ col = 0 => Hot = {}
  /\ args.col' \in Nat /\ block.c0' \in Nat /\ col' = 0 => Hot' = {}
BY DEF Hot, Area

(* The invariant of the walk at the start of a block. *)
LEMMA BlockStartsWalk ==
  ASSUME CallOK(call), call' = call, args' = args, pc' = "sweep",
         args.m \in Nat, args.n \in Nat, args.col \in Nat,
         NEW r \in 0..args.m, NEW c \in 0..args.n,
         ~K.rblock => r = 0, ~K.cblock => c = 0, EnterBlock(r, c)
  PROVE  /\ BlockOK' /\ WalkOK'
         /\ block'.r0 = r /\ block'.c0 = c /\ row' = r /\ col' = 0
         /\ block'.c1 \in c..args.n /\ block'.r1 \in r..args.m
         /\ Hot' = {}
<1>1. /\ block' = BlockFrom(r, c) /\ row' = r /\ pass' = 1 /\ loop' = 1 /\ col' = 0
  BY DEF EnterBlock
<1>2. /\ block'.r0 = r /\ block'.r1 \in r..args.m /\ block'.c0 = c /\ block'.c1 \in c..args.n
      /\ ~K.rblock => block'.r1 = args.m
      /\ ~K.cblock => block'.c1 = args.n
  BY <1>1, BlockStarts
<1>3. K' = K /\ Passes' = Passes
  BY Static
<1>4. Len(Passes) \in Nat \ {0}
  BY CallFacts DEF PassesOK
<1>5. BlockOK'
  BY <1>2, <1>3 DEF BlockOK
<1>6. WalkOK'
  BY <1>1, <1>2, <1>4, PassStarts
<1>7. Hot' = {}
  BY <1>1, <1>2, HotEmpty
<1>. QED
  BY <1>1, <1>2, <1>5, <1>6, <1>7

-----------------------------------------------------------------------------
(* Elements of a vector. *)

LEMMA ElementsMember ==
  ASSUME NEW n, NEW s, NEW j \in 0..(n - 1)
  PROVE  j * s \in Elements(n, s)
BY DEF Elements

(* Those of the b positions from a on. *)
ElementsFrom(a, b, stride) == {(a + l) * stride : l \in 0..(b - 1)}

(* The elements of y that are next to be scaled are new. *)
LEMMA ElementsGrow ==
  ASSUME NEW a \in Nat, NEW b \in Nat, NEW s \in Nat \ {0}
  PROVE  /\ Elements(a + b, s) = Elements(a, s) \cup ElementsFrom(a, b, s)
         /\ \A y \in ElementsFrom(a, b, s) : \A i \in Nat : y = i * s => i >= a
<1> DEFINE more == {(a + l) * s : l \in 0..(b - 1)}
<1>1. ASSUME NEW y \in Elements(a + b, s)
      PROVE  y \in Elements(a, s) \cup more
  <2>1. PICK i \in 0..(a + b - 1) : y = i * s
    BY DEF Elements
  <2>2. CASE i < a
    <3>1. i \in 0..(a - 1)
      BY <2>2
    <3>. QED
      BY <2>1, <3>1 DEF Elements
  <2>3. CASE ~(i < a)
    <3>1. i - a \in 0..(b - 1) /\ a + (i - a) = i
      BY <2>3
    <3>2. y = (a + (i - a)) * s
      BY <2>1, <3>1
    <3>. QED
      BY <3>1, <3>2
  <2>. QED
    BY <2>2, <2>3
<1>2. ASSUME NEW y \in Elements(a, s)
      PROVE  y \in Elements(a + b, s)
  <2>1. PICK i \in 0..(a - 1) : y = i * s
    BY DEF Elements
  <2>2. i \in 0..(a + b - 1)
    OBVIOUS
  <2>. QED
    BY <2>1, <2>2 DEF Elements
<1>3. ASSUME NEW y \in more
      PROVE  /\ y \in Elements(a + b, s)
             /\ \A i \in Nat : y = i * s => i >= a
  <2>1. PICK l \in 0..(b - 1) : y = (a + l) * s
    OBVIOUS
  <2>2. a + l \in 0..(a + b - 1) /\ a + l \in Nat
    OBVIOUS
  <2>3. ASSUME NEW i \in Nat, y = i * s
        PROVE  i >= a
    <3>1. i = a + l
      BY <2>1, <2>2, <2>3, MulInjective
    <3>. QED
      BY <3>1
  <2>. QED
    BY <2>1, <2>2, <2>3 DEF Elements
<1>4. more = ElementsFrom(a, b, s)
  BY DEF ElementsFrom
<1>. QED
  BY <1>1, <1>2, <1>3, <1>4

-----------------------------------------------------------------------------
(* The elements of y that were touched belong to the cells recorded. *)

(* An entry touches y only at the elements of its cells *)
LEMMA YOfCells ==
  ASSUME CallOK(call), NEW p \in Entries, UsesStrides(p), NEW y \in YOf(p)
  PROVE  \E i, j \in Nat : /\ <<i, j>> \in Cells(p)
                           /\ y = IF call.along = "y" THEN i * RowStride ELSE j * ColStride
<1>1. /\ p.row0 \in Nat /\ p.row \in Nat /\ p.rows \in Nat \ {0}
      /\ p.col0 \in Nat /\ p.col \in Nat /\ p.cols \in Nat \ {0}
  BY DEF Entries
<1>2. RowStride \in Nat /\ ColStride \in Nat
  BY CallFacts
<1>3. CASE call.along = "y"
  <2>1. PICK q \in 0..(p.rows - 1) : y = Along(p, q)
    BY <1>3 DEF YOf
  <2>2. Along(p, q) = p.row0 * RowStride + p.row * RowStride + q * RowStride
    BY <1>1, <1>2 DEF Along, UsesStrides
  <2>3. (p.row0 + p.row + q) * RowStride
          = p.row0 * RowStride + p.row * RowStride + q * RowStride
    BY <1>1, <1>2, SMT
  <2>4. 0 \in 0..(p.cols - 1) /\ p.row0 + p.row + q \in Nat /\ p.col0 + p.col + 0 \in Nat
    BY <1>1
  <2>5. <<p.row0 + p.row + q, p.col0 + p.col + 0>> \in Cells(p)
    BY <2>4, CellsOfEntry
  <2>. QED
    BY <1>3, <2>1, <2>2, <2>3, <2>4, <2>5
<1>4. CASE call.along # "y"
  <2>1. PICK l \in 0..(p.cols - 1) : y = Across(p, l)
    BY <1>4 DEF YOf
  <2>2. Across(p, l) = p.col0 * ColStride + (p.col + l) * ColStride
    BY <1>1, <1>2 DEF Across, UsesStrides
  <2>3. (p.col0 + p.col + l) * ColStride = p.col0 * ColStride + (p.col + l) * ColStride
    BY <1>1, <1>2, SMT
  <2>4. 0 \in 0..(p.rows - 1) /\ p.row0 + p.row + 0 \in Nat /\ p.col0 + p.col + l \in Nat
    BY <1>1
  <2>5. <<p.row0 + p.row + 0, p.col0 + p.col + l>> \in Cells(p)
    BY <2>4, CellsOfEntry
  <2>. QED
    BY <1>4, <2>1, <2>2, <2>3, <2>4, <2>5
<1>. QED
  BY <1>3, <1>4

(* and a tiling only at those of the cells it covers. *)
LEMMA TouchedCells ==
  ASSUME CallOK(call), NEW s, NEW S, Tiles(s, S),
         \A j \in DOMAIN s : UsesStrides(s[j]), NEW y \in YTouched(s)
  PROVE  \E i, j \in Nat : /\ <<i, j>> \in S
                           /\ y = IF call.along = "y" THEN i * RowStride ELSE j * ColStride
<1>1. PICK k \in DOMAIN s : y \in YOf(s[k])
  BY DEF YTouched
<1>2. s[k] \in Entries /\ Cells(s[k]) \subseteq S
  BY DEF Tiles
<1>. QED
  BY <1>1, <1>2, YOfCells

-----------------------------------------------------------------------------
(* The invariant at the start of a call, and when it is entered. *)

LEMMA InitInvariant == Init => IInv
BY DEF Init, IInv, CallInv, ShareInv, WalkInv, IdleInv, TilesInv, StrideInv, BetaInv, Working

(* A call arrives. *)
LEMMA BeginInvariant ==
  ASSUME IInv, pc = "idle", NEW c, CallOK(c), Begin(c)
  PROVE  IInv'
<1>1. /\ added = <<>> /\ held = <<>> /\ scaled = {} /\ again = FALSE /\ unset = FALSE
  BY DEF IInv, IdleInv, Working
<1>2. /\ added' = <<>> /\ held' = <<>> /\ scaled' = {} /\ again' = FALSE /\ unset' = FALSE
      /\ call' = c
  BY <1>1 DEF Begin
<1>3. CallOK(call)'
  BY <1>2
<1>4. CASE Nothing(c)
  <2>1. pc' = "done" /\ Nothing(call)'
    BY <1>2, <1>4 DEF Begin
  <2>. QED
    BY <1>2, <1>3, <2>1 DEF IInv, CallInv, ShareInv, WalkInv, IdleInv, TilesInv, StrideInv,
                            BetaInv, Working
<1>5. CASE ~Nothing(c)
  <2>1. pc' = "enter" /\ part' = 1 /\ args' = ShareFrom(c, 1, 0, 0) /\ ~Nothing(call)'
    BY <1>2, <1>5 DEF Begin
  <2>2. ShareOK(call, part, args)' /\ args'.row = 0 /\ args'.col = 0
    BY <1>2, <2>1, FirstShare
  <2>3. c.rows \in Nat /\ c.cols \in Nat
    BY DEF CallOK
  <2>4. Behind' = {} /\ InRegisters' = {}
    <3>1. Shared' = {}
      BY <1>2, <2>2, <2>3, EmptyArea DEF Shared
    <3>. QED
      BY <2>1, <3>1 DEF Behind, InRegisters
  <2>5. TilesOK'
    BY <1>2, <2>4, TilesEmpty DEF TilesOK
  <2>6. StridesOK'
    BY <1>2 DEF StridesOK
  <2>7. BehindBeta' = {}
    <3>1. BetaRows' = 0 /\ BetaCols' = 0
      BY <2>1, <2>2 DEF BetaRows, BetaCols
    <3>2. \A s : Elements(0, s) = {}
      BY DEF Elements
    <3>. QED
      BY <3>1, <3>2 DEF BehindBeta
  <2>8. BetaOK'
    BY <1>2, <2>7 DEF BetaOK
  <2>. QED
    BY <1>2, <1>3, <2>1, <2>2, <2>5, <2>6, <2>8
       DEF IInv, CallInv, ShareInv, WalkInv, IdleInv, TilesInv, StrideInv, BetaInv, Working
<1>. QED
  BY <1>4, <1>5

(* The kernel starts: the axpy form scales its elements of y. *)
LEMMA EnterInvariant ==
  ASSUME IInv, Enter
  PROVE  IInv'
<1>1. /\ pc = "enter" /\ Working /\ CallOK(call) /\ ShareOK(call, part, args)
      /\ TilesOK /\ StridesOK /\ BetaOK
  BY DEF Enter, IInv, CallInv, ShareInv, IdleInv, TilesInv, StrideInv, BetaInv, Working
<1>2. /\ call' = call /\ part' = part /\ args' = args
      /\ added' = added /\ held' = held /\ unset' = unset
  BY DEF Enter
<1>3. /\ args.row \in Nat /\ args.m \in Nat /\ args.col \in Nat /\ args.n \in Nat \ {0}
      /\ call.rows \in Nat /\ call.cols \in Nat
      /\ call.split = "cols" => args.row = 0 /\ args.m = call.rows
      /\ call.split # "cols" => args.col = 0 /\ args.n = call.cols
      /\ call.split = "none" => args.row = 0 /\ args.m = call.rows
  BY <1>1, ShareFacts
<1>4. /\ K' = K /\ Passes' = Passes /\ RowStride' = RowStride /\ ColStride' = ColStride
      /\ Stops' = Stops /\ CallOK(call)' = CallOK(call) /\ Nothing(call)' = Nothing(call)
  BY <1>2, Static
<1>5. CallOK(call)' /\ ShareOK(call, part, args)'
  BY <1>1, <1>2, <1>4
<1>6. RowStride \in Nat \ {0} /\ ColStride \in Nat \ {0}
  BY <1>1, CallFacts
<1>7. StridesOK'
  BY <1>1, <1>2, <1>4 DEF StridesOK, UsesStrides
\* beta
<1>8. ASSUME K.form = "axpy", call.routine \in Gemv
      PROVE  /\ args.row = 0 /\ args.m = call.rows /\ call.along = "x"
             /\ Stops \/ Tiles(added, Area(0, call.rows, 0, args.col))
  <2>1. call.along = "x" /\ call.split # "rows"
    BY <1>1, <1>8 DEF CallOK, FormOK, K
  <2>2. args.row = 0 /\ args.m = call.rows
    BY <1>1, <1>3, <2>1 DEF CallOK
  <2>3. Shared = Area(0, call.rows, 0, args.col)
    BY <1>3, <2>2, EmptyArea DEF Shared
  <2>. QED
    BY <1>1, <2>1, <2>2, <2>3 DEF TilesOK, Behind
<1>9. ASSUME K.form = "axpy", call.beta # "one", call.routine \in Gemv
      PROVE  /\ scaled' = Elements(args.col + args.n, ColStride)
             /\ again' = FALSE
  <2>1. /\ scaled = Elements(args.col, ColStride) /\ again = FALSE
    BY <1>1, <1>9 DEF BetaOK, BehindBeta, BetaCols
  <2>2. /\ scaled' = scaled \cup ScaledPlaces
        /\ again' = (again \/ ScaledPlaces \cap (scaled \cup YTouched(added)) # {})
    BY <1>9 DEF Enter, Scale
  <2>3. ScaledPlaces = ElementsFrom(args.col, args.n, ColStride)
    BY DEF ScaledPlaces, ElementsFrom
  <2>4. /\ Elements(args.col + args.n, ColStride) = Elements(args.col, ColStride) \cup ScaledPlaces
        /\ \A y \in ScaledPlaces : \A i \in Nat : y = i * ColStride => i >= args.col
    BY <1>3, <1>6, <2>3, ElementsGrow
  <2>5. ASSUME NEW y \in scaled \cup YTouched(added)
        PROVE  \E i \in 0..(args.col - 1) : y = i * ColStride
    <3>1. CASE y \in scaled
      BY <2>1, <3>1 DEF Elements
    <3>2. CASE y \in YTouched(added)
      <4>1. CASE Stops
        BY <1>1, <3>2, <4>1 DEF TilesOK, YTouched
      <4>2. CASE ~Stops
        <5>1. Tiles(added, Area(0, call.rows, 0, args.col)) /\ call.along = "x"
          BY <1>8, <1>9, <4>2
        <5>2. \A k \in DOMAIN added : UsesStrides(added[k])
          BY <1>1, <1>9, GemvAddressed DEF StridesOK
        <5>3. PICK a, b \in Nat : <<a, b>> \in Area(0, call.rows, 0, args.col) /\ y = b * ColStride
          BY <1>1, <3>2, <5>1, <5>2, TouchedCells
        <5>. QED
          BY <1>3, <5>3 DEF Area
      <4>. QED
        BY <4>1, <4>2
    <3>. QED
      BY <2>5, <3>1, <3>2
  <2>6. ASSUME NEW y \in ScaledPlaces, y \in scaled \cup YTouched(added)
        PROVE  FALSE
    <3>1. PICK i \in 0..(args.col - 1) : y = i * ColStride
      BY <2>5, <2>6
    <3>2. i \in Nat /\ ~(i >= args.col)
      BY <1>3
    <3>. QED
      BY <2>4, <3>1, <3>2
  <2>7. again' = FALSE
    BY <2>1, <2>2, <2>6
  <2>. QED
    BY <2>1, <2>2, <2>4, <2>7
<1>10. ASSUME call.routine \in Gemv, ~(K.form = "axpy" /\ call.beta # "one")
       PROVE  scaled' = scaled /\ again' = FALSE
  BY <1>1, <1>10 DEF Enter, BetaOK
<1>11. pc' \in {"sweep", "return"} /\ (pc' = "sweep" => row' = 0)
  BY DEF Enter, EnterBlock
<1>12. ASSUME pc' = "sweep" \/ K.form = "axpy"
       PROVE  BetaOK'
  <2> SUFFICES ASSUME call.routine \in Gemv
               PROVE  /\ scaled' = BehindBeta' /\ again' = FALSE
                      /\ ~(K.form = "dot" /\ K.isa = "base") => unset' = FALSE
    BY <1>2, <1>4 DEF BetaOK
  <2>1. ~(K.form = "dot" /\ K.isa = "base") => unset' = FALSE
    BY <1>1, <1>2 DEF BetaOK
  <2>2. CASE K.form = "axpy"
    <3>0. BetaCols' = args.col + args.n
      BY <1>2, <1>11 DEF BetaCols
    <3>1. call.beta = "one" => BehindBeta' = {}
      BY <1>2, <1>4, <2>2 DEF BehindBeta
    <3>3. call.beta # "one" => BehindBeta' = Elements(args.col + args.n, ColStride)
      BY <1>2, <1>4, <2>2, <3>0 DEF BehindBeta
    <3>2. call.beta = "one" => scaled = {}
      BY <1>1, <2>2 DEF BetaOK, BehindBeta
    <3>. QED
      BY <1>9, <1>10, <2>1, <2>2, <3>1, <3>2, <3>3
  <2>3. CASE K.form # "axpy"
    <3>1. K.form = "dot" /\ pc' = "sweep"
      BY <1>1, <1>12, <2>3 DEF CallOK, FormOK, Gemv, K
    <3>2. scaled = Elements(args.row, RowStride)
      BY <1>1, <3>1 DEF BetaOK, BehindBeta, BetaRows
    <3>3. BetaRows' = args.row
      BY <1>2, <1>3, <1>11, <3>1 DEF BetaRows
    <3>4. BehindBeta' = Elements(args.row, RowStride)
      BY <1>4, <3>1, <3>3 DEF BehindBeta
    <3>. QED
      BY <1>10, <2>1, <2>3, <3>2, <3>4
  <2>. QED
    BY <2>2, <2>3
\* the two ways on
<1>13. CASE K.form = "axpy" /\ K.stopsAtZero /\ call.alpha = "zero"
  <2>1. pc' = "return" /\ Stops
    BY <1>13 DEF Enter, Stops
  <2>2. TilesOK'
    BY <1>1, <1>2, <1>4, <2>1 DEF TilesOK
  <2>3. BetaOK'
    BY <1>12, <1>13
  <2>4. Working'
    BY <1>1, <1>4, <2>1 DEF Working
  <2>. QED
    BY <1>5, <1>7, <2>1, <2>2, <2>3, <2>4
       DEF IInv, CallInv, ShareInv, WalkInv, IdleInv, TilesInv, StrideInv, BetaInv
<1>14. CASE ~(K.form = "axpy" /\ K.stopsAtZero /\ call.alpha = "zero")
  <2>1. pc' = "sweep" /\ EnterBlock(0, 0) /\ ~Stops
    BY <1>14 DEF Enter, Stops
  <2>2. /\ BlockOK' /\ WalkOK' /\ block'.r0 = 0 /\ block'.c0 = 0 /\ row' = 0 /\ Hot' = {}
        /\ block'.c1 \in Nat
    BY <1>1, <1>2, <1>3, <2>1, BlockStartsWalk
  <2>3. Settled' = Shared
    <3>1. /\ Area(args.row, args.row + args.m, args.col, args.col + 0) = {}
          /\ Area(args.row, args.row + 0, args.col, args.col + block'.c1) = {}
      BY <1>3, <2>2 DEF Area
    <3>. QED
      BY <1>2, <2>2, <3>1 DEF Settled, Shared
  <2>4. Behind' = Behind /\ InRegisters' = InRegisters
    BY <1>1, <2>1, <2>2, <2>3 DEF Behind, InRegisters
  <2>5. TilesOK'
    BY <1>1, <1>2, <1>4, <2>1, <2>4 DEF TilesOK
  <2>6. BetaOK'
    BY <1>12, <2>1
  <2>7. Working'
    BY <1>1, <1>4, <2>1 DEF Working
  <2>. QED
    BY <1>4, <1>5, <1>7, <2>1, <2>2, <2>5, <2>6, <2>7
       DEF IInv, CallInv, ShareInv, WalkInv, IdleInv, TilesInv, StrideInv, BetaInv
<1>. QED
  BY <1>13, <1>14

-----------------------------------------------------------------------------
(* The invariant through a sweep. *)

(* What the invariant says in the middle of a block. *)
LEMMA SweepFacts ==
  ASSUME IInv, pc = "sweep"
  PROVE  /\ Working /\ CallOK(call) /\ ShareOK(call, part, args) /\ ~Stops
         /\ BlockOK /\ WalkOK /\ TilesOK /\ StridesOK /\ BetaOK
         /\ args.row \in Nat /\ args.m \in Nat /\ args.col \in Nat /\ args.n \in Nat \ {0}
         /\ call.rows \in Nat /\ call.cols \in Nat
         /\ call.split = "cols" => args.row = 0 /\ args.m = call.rows
         /\ call.split # "cols" => args.col = 0 /\ args.n = call.cols
         /\ call.split = "none" => args.row = 0 /\ args.m = call.rows
         /\ block.r0 \in Nat /\ block.r1 \in Nat /\ block.c0 \in Nat /\ block.c1 \in Nat
         /\ row \in Nat /\ col \in Nat
         /\ block.r1 <= args.m /\ block.c0 <= block.c1 /\ block.c1 <= args.n
         /\ row <= block.r1 /\ col <= block.c1 - block.c0
         /\ K.form = "dot" => args.col = 0 /\ block.c0 = 0 /\ block.c1 = args.n
<1>1. /\ Working /\ CallOK(call) /\ ShareOK(call, part, args) /\ ~Stops
      /\ BlockOK /\ WalkOK /\ TilesOK /\ StridesOK /\ BetaOK
  BY DEF IInv, CallInv, ShareInv, WalkInv, IdleInv, TilesInv, StrideInv, BetaInv, Working
<1>2. /\ args.row \in Nat /\ args.m \in Nat /\ args.col \in Nat /\ args.n \in Nat \ {0}
      /\ call.rows \in Nat /\ call.cols \in Nat
      /\ call.split = "cols" => args.row = 0 /\ args.m = call.rows
      /\ call.split # "cols" => args.col = 0 /\ args.n = call.cols
      /\ call.split = "none" => args.row = 0 /\ args.m = call.rows
  BY <1>1, ShareFacts
<1>3. K.form = "dot" => call.split # "cols" /\ K.cblock = FALSE
  BY <1>1 DEF CallOK, FormOK, K
<1>4. /\ block.r0 \in Nat /\ block.r1 \in Nat /\ block.c0 \in Nat /\ block.c1 \in Nat
      /\ row \in Nat /\ col \in Nat
      /\ block.r1 <= args.m /\ block.c0 <= block.c1 /\ block.c1 <= args.n
      /\ row <= block.r1 /\ col <= block.c1 - block.c0
  BY <1>1, <1>2 DEF BlockOK, WalkOK
<1>5. K.form = "dot" => args.col = 0 /\ block.c0 = 0 /\ block.c1 = args.n
  BY <1>1, <1>2, <1>3 DEF BlockOK
<1>. QED
  BY <1>1, <1>2, <1>4, <1>5

(* Nothing but the walk and what it recorded moves. *)
LEMMA SweepFrame ==
  ASSUME IInv, pc = "sweep", pc' = "sweep", UNCHANGED <<call, part, args>>,
         BlockOK', WalkOK', TilesOK', StridesOK', BetaOK'
  PROVE  IInv'
<1>1. Working /\ CallOK(call) /\ ShareOK(call, part, args) /\ ~Stops
  BY SweepFacts
<1>2. CallOK(call)' = CallOK(call) /\ Nothing(call)' = Nothing(call) /\ Stops' = Stops
  BY Static
<1>3. Working' /\ CallOK(call)' /\ ShareOK(call, part, args)' /\ ~Stops'
  BY <1>1, <1>2 DEF Working
<1>. QED
  BY <1>3 DEF IInv, CallInv, ShareInv, WalkInv, IdleInv, TilesInv, StrideInv, BetaInv

(* A column loop: it records the rows of the pass in the columns it sweeps. *)
LEMMA SweepColumnsInvariant ==
  ASSUME IInv, SweepColumns
  PROVE  IInv'
<1> DEFINE l   == Passes[pass].loops[loop]
           end == Swept(l, block.c1 - block.c0)
           p   == [row0 |-> args.row, row |-> row, rows |-> Passes[pass].rows,
                   rowAs |-> l.row, col0 |-> args.col, col |-> block.c0 + col,
                   cols |-> end - col, colAs |-> l.col]
           ls  == Passes[pass].loops
           h   == Passes[pass].rows
<1>1. /\ InPass /\ pc = "sweep" /\ pc' = "sweep" /\ loop <= Len(ls)
      /\ pass <= Len(Passes) /\ row + h <= block.r1
      /\ UNCHANGED <<pc, call, part, args, block, pass, row, scaled, again>>
      /\ col' = end /\ loop' = loop + 1
  BY DEF SweepColumns, InPass
<1>2. /\ Working /\ CallOK(call) /\ ShareOK(call, part, args) /\ ~Stops
      /\ BlockOK /\ WalkOK /\ TilesOK /\ StridesOK /\ BetaOK
      /\ args.row \in Nat /\ args.m \in Nat /\ args.col \in Nat /\ args.n \in Nat \ {0}
      /\ call.rows \in Nat /\ call.cols \in Nat
      /\ block.r0 \in Nat /\ block.r1 \in Nat /\ block.c0 \in Nat /\ block.c1 \in Nat
      /\ row \in Nat /\ col \in Nat
      /\ block.r1 <= args.m /\ block.c0 <= block.c1 /\ block.c1 <= args.n
      /\ row <= block.r1 /\ col <= block.c1 - block.c0
  BY <1>1, SweepFacts
<1>3. /\ K' = K /\ Passes' = Passes /\ RowStride' = RowStride /\ ColStride' = ColStride
      /\ Stops' = Stops
  BY <1>1, Static
<1>4. /\ pass \in 1..Len(Passes) /\ h \in Nat \ {0} /\ LoopsOK(ls)
  <2>1. pass \in 1..Len(Passes)
    <3>1. Len(Passes) \in Nat /\ pass \in 1..(Len(Passes) + 1)
      BY <1>2, CallFacts DEF PassesOK, WalkOK
    <3>. QED
      BY <1>1, <3>1
  <2>. QED
    BY <1>2, <2>1, PassFacts
<1>5. loop \in 1..Len(ls) /\ Len(ls) \in Nat
  <2>1. loop \in 1..(Len(ls) + 1)
    BY <1>1, <1>2 DEF WalkOK
  <2>2. Len(ls) \in Nat
    BY <1>4 DEF LoopsOK
  <2>. QED
    BY <1>1, <2>1, <2>2
<1>6. /\ l.step \in Nat \ {0} /\ l.until \in {"rounded", "fits", "once"}
      /\ l.row \in {"inc", "unit"} /\ l.col \in {"inc", "unit"}
      /\ loop = Len(ls) => l.step = 1 /\ l.until = "fits"
  BY <1>4, <1>5 DEF LoopsOK
<1>7. l.until = "rounded" => \E q \in Nat : col = q * l.step
  BY <1>1, <1>2 DEF WalkOK
<1>8. /\ end \in col..(block.c1 - block.c0)
      /\ l.step = 1 /\ l.until = "fits" => end = block.c1 - block.c0
      /\ l.until = "rounded" => \E q \in Nat : end = q * l.step
  <2>1. block.c1 - block.c0 \in Nat /\ col \in 0..(block.c1 - block.c0)
    BY <1>2
  <2>. QED
    BY <1>6, <1>7, <2>1, SweptColumns
<1>9. InPass' /\ BlockOK'
  BY <1>1, <1>2, <1>3 DEF InPass, BlockOK
<1>10. ASSUME loop + 1 <= Len(ls), ls[loop + 1].until = "rounded"
       PROVE  \E q \in Nat : end = q * ls[loop + 1].step
  <2>1. loop + 1 \in 1..Len(ls) /\ loop + 1 > 1 /\ (loop + 1) - 1 = loop
    BY <1>5, <1>10
  <2>a. l = ls[loop]
    OBVIOUS
  <2> HIDE DEF l, ls, p
  <2>b. \A j \in 1..Len(ls) : ls[j].until = "rounded" /\ j > 1 =>
          /\ ls[j - 1].until = "rounded"
          /\ \E q \in Nat : ls[j - 1].step = q * ls[j].step
    BY <1>4 DEF LoopsOK
  <2>2. l.until = "rounded" /\ \E q \in Nat : l.step = q * ls[loop + 1].step
    BY <1>10, <2>1, <2>a, <2>b
  <2>3. PICK u \in Nat : l.step = u * ls[loop + 1].step
    BY <2>2
  <2>4. PICK v \in Nat : end = v * l.step
    BY <1>8, <2>2
  <2>5. ls[loop + 1].step \in Nat
    BY <1>4, <2>1 DEF LoopsOK
  <2>6. v * u \in Nat /\ v * (u * ls[loop + 1].step) = (v * u) * ls[loop + 1].step
    BY <2>5, SMT
  <2>. QED
    BY <2>3, <2>4, <2>6
<1>11. WalkOK'
  <2>1. /\ loop' \in 1..(Len(ls) + 1)
        /\ loop' = Len(ls) + 1 => col' = block.c1 - block.c0
    BY <1>1, <1>5, <1>6, <1>8
  <2>2. loop' <= Len(ls) /\ ls[loop'].until = "rounded" =>
          \E q \in Nat : col' = q * ls[loop'].step
    BY <1>1, <1>10
  <2>3. /\ row' \in block'.r0..block'.r1 /\ col' \in 0..(block'.c1 - block'.c0)
        /\ pass' \in 1..(Len(Passes') + 1)
        /\ pass' = Len(Passes') + 1 => row' = block'.r1
    BY <1>1, <1>2, <1>3, <1>8 DEF WalkOK
  <2> HIDE DEF l, end, p
  <2>4. LET ls2 == Passes'[pass'].loops
        IN  /\ loop' \in 1..(Len(ls2) + 1)
            /\ loop' = Len(ls2) + 1 => col' = block'.c1 - block'.c0
            /\ loop' <= Len(ls2) /\ ls2[loop'].until = "rounded" =>
                 \E q \in Nat : col' = q * ls2[loop'].step
    BY <1>1, <1>3, <2>1, <2>2
  <2>. QED
    BY <1>9, <2>3, <2>4 DEF WalkOK
\* what the loop has added
<1>12. /\ Settled' = Settled
       /\ end = col => Hot' = Hot
  BY <1>1, <1>3 DEF Settled, Shared, Hot
<1>13. CASE end = col
  <2>1. UNCHANGED <<held, added, unset>>
    BY <1>13 DEF SweepColumns
  <2>2. TilesOK'
    BY <1>1, <1>2, <1>3, <1>12, <1>13, <2>1 DEF TilesOK, Behind, InRegisters
  <2>3. StridesOK'
    BY <1>2, <1>3, <2>1 DEF StridesOK, UsesStrides
  <2>4. BehindBeta' = BehindBeta
    BY <1>1, <1>3 DEF BehindBeta, BetaRows, BetaCols
  <2>5. BetaOK'
    BY <1>1, <1>2, <1>3, <2>1, <2>4 DEF BetaOK
  <2>. QED
    BY <1>1, <1>9, <1>11, <2>2, <2>3, <2>5, SweepFrame
<1>14. CASE end # col
  <2>1. end \in Nat /\ end - col \in Nat \ {0} /\ block.c0 + col \in Nat
    BY <1>2, <1>8, <1>14
  <2>2. /\ p.row0 = args.row /\ p.row = row /\ p.rows = h /\ p.rowAs = l.row
        /\ p.col0 = args.col /\ p.col = block.c0 + col /\ p.cols = end - col /\ p.colAs = l.col
        /\ p \in Entries
    BY <1>2, <1>4, <1>6, <2>1 DEF Entries
  <2>3. /\ K.form = "dot" => held' = Append(held, p) /\ added' = added /\ unset' = unset
        /\ K.form # "dot" =>
             /\ added' = Append(added, p) /\ held' = held
             /\ unset' = (unset \/ (/\ K.form = "axpy" /\ call.beta = "zero"
                                    /\ ~(YOf(p) \subseteq scaled)))
    BY <1>14 DEF SweepColumns
  <2> DEFINE x == args.row + row
             y == args.row + row + h
             c == args.col + block.c0
  <2>4. /\ x \in Nat /\ y \in Nat /\ c \in Nat /\ c + col \in Nat /\ c + end \in Nat
        /\ c <= c + col /\ c + col <= c + end
    <3>0. /\ args.row \in Nat /\ row \in Nat /\ args.col \in Nat /\ block.c0 \in Nat
          /\ h \in Nat
      BY <1>2, <1>4
    <3>1. x \in Nat /\ y \in Nat /\ c \in Nat
      <4> HIDE DEF h
      <4>. QED
        BY <3>0
    <3>2. col <= end
      BY <1>2, <1>8
    <3> HIDE DEF c, end
    <3>. QED
      BY <1>2, <2>1, <3>1, <3>2
  <2>5. Cells(p) = Area(x, y, c + col, c + end)
    <3>1. /\ args.col + (block.c0 + col) = c + col
          /\ args.col + (block.c0 + col) + (end - col) = c + end
      BY <1>2, <2>1
    <3>. QED
      BY <2>2, <3>1 DEF Cells
  <2>6. Hot = Area(x, y, c, c + col) /\ Hot' = Area(x, y, c, c + end)
    BY <1>1, <1>3, <1>4 DEF Hot
  <2>7. Hot' = Hot \cup Cells(p) /\ Cells(p) \cap Hot = {}
    <3> HIDE DEF x, y, c, end, p
    <3>. QED
      BY <2>4, <2>5, <2>6, RegionGrows
  <2>8. Cells(p) \cap Settled = {}
    <3>1. x >= args.row + row /\ args.col + block.c0 <= c + col
      BY <1>2
    <3> HIDE DEF x, y, c, end, p
    <3>2. Area(x, y, c + col, c + end) \cap
           (Area(0, args.row, 0, call.cols) \cup Area(0, call.rows, 0, args.col)
              \cup Area(args.row, args.row + args.m, args.col, args.col + block.c0)
              \cup Area(args.row, args.row + row, args.col, args.col + block.c1)) = {}
      BY <1>2, <2>4, <3>1 DEF Area
    <3>. QED
      BY <2>5, <3>2 DEF Settled, Shared
  <2>9. UsesStrides(p) \/ ~Addressed(Passes, RowStride = 1, ColStride = 1)
    BY <1>4, <1>5, <2>2 DEF UsesStrides, Addressed
  <2>10. Tiles(added, Behind) /\ Tiles(held, InRegisters)
    BY <1>2 DEF TilesOK
  <2> HIDE DEF p, end, l, x, y, c
  <2>11. CASE K.form = "dot"
    <3>1. Behind = Settled /\ Behind' = Settled /\ InRegisters = Hot /\ InRegisters' = Hot'
      BY <1>1, <1>3, <1>12, <2>11 DEF Behind, InRegisters
    <3>2. /\ Tiles(held', InRegisters')
          /\ \A j \in DOMAIN held' : (j \in DOMAIN held /\ held'[j] = held[j]) \/ held'[j] = p
      <4>1. /\ Tiles(held, Hot) /\ p \in Entries /\ held' = Append(held, p)
            /\ Hot' = Hot \cup Cells(p) /\ Cells(p) \cap Hot = {}
        BY <2>2, <2>3, <2>7, <2>10, <2>11, <3>1
      <4>2. /\ Tiles(Append(held, p), Hot')
            /\ \A j \in DOMAIN Append(held, p) :
                 (j \in DOMAIN held /\ Append(held, p)[j] = held[j]) \/ Append(held, p)[j] = p
        BY <4>1, TilesAppend
      <4>. QED
        BY <3>1, <4>1, <4>2
    <3>3. TilesOK'
      BY <1>2, <1>3, <2>3, <2>10, <2>11, <3>1, <3>2 DEF TilesOK
    <3>4. StridesOK'
      BY <1>2, <1>3, <2>3, <2>9, <2>11, <3>2 DEF StridesOK, UsesStrides
    <3>5. BehindBeta' = BehindBeta
      BY <1>1, <1>3 DEF BehindBeta, BetaRows, BetaCols
    <3>6. BetaOK'
      BY <1>1, <1>2, <1>3, <2>3, <2>11, <3>5 DEF BetaOK
    <3>. QED
      BY <1>1, <1>9, <1>11, <3>3, <3>4, <3>6, SweepFrame
  <2>12. CASE K.form # "dot"
    <3>1. /\ Behind = Settled \cup Hot /\ Behind' = Settled \cup Hot'
          /\ InRegisters = {} /\ InRegisters' = {}
      BY <1>1, <1>3, <1>12, <2>12 DEF Behind, InRegisters
    <3>2. Behind' = Behind \cup Cells(p) /\ Cells(p) \cap Behind = {}
      BY <2>7, <2>8, <3>1
    <3>3. /\ Tiles(added', Behind')
          /\ \A j \in DOMAIN added' :
               (j \in DOMAIN added /\ added'[j] = added[j]) \/ added'[j] = p
      <4>1. Tiles(added, Behind) /\ p \in Entries /\ added' = Append(added, p)
        BY <2>2, <2>3, <2>10, <2>12
      <4>2. /\ Tiles(Append(added, p), Behind')
            /\ \A j \in DOMAIN Append(added, p) :
                 (j \in DOMAIN added /\ Append(added, p)[j] = added[j]) \/ Append(added, p)[j] = p
        BY <3>2, <4>1, TilesAppend
      <4>. QED
        BY <4>1, <4>2
    <3>4. TilesOK'
      BY <1>2, <1>3, <2>3, <2>10, <2>12, <3>1, <3>3 DEF TilesOK
    <3>5. StridesOK'
      BY <1>2, <1>3, <2>3, <2>9, <2>12, <3>3 DEF StridesOK, UsesStrides
    <3>6. BehindBeta' = BehindBeta
      BY <1>1, <1>3 DEF BehindBeta, BetaRows, BetaCols
    <3>7. ASSUME call.routine \in Gemv, call.beta = "zero"
          PROVE  YOf(p) \subseteq scaled
      <4>1. K.form = "axpy" /\ call.along = "x"
        BY <1>2, <2>12, <3>7 DEF CallOK, FormOK, K, Gemv
      <4>2. scaled = Elements(args.col + args.n, ColStride)
        BY <1>1, <1>2, <3>7, <4>1 DEF BetaOK, BehindBeta, BetaCols
      <4>3. UsesStrides(p)
        BY <1>2, <2>9, <3>7, GemvAddressed
      <4>4. ASSUME NEW v \in YOf(p)
            PROVE  v \in scaled
        <5>1. PICK i, j \in Nat : <<i, j>> \in Cells(p) /\ v = j * ColStride
          BY <1>2, <2>2, <4>1, <4>3, YOfCells
        <5>2. j < c + end
          BY <2>4, <2>5, <5>1 DEF Area
        <5>3. c + end <= args.col + args.n
          BY <1>2, <1>8, <2>1 DEF c
        <5>4. j \in 0..((args.col + args.n) - 1)
          BY <1>2, <2>4, <5>2, <5>3
        <5>. QED
          BY <4>2, <5>1, <5>4, ElementsMember
      <4>. QED
        BY <4>4
    <3>8. BetaOK'
      BY <1>1, <1>2, <1>3, <2>3, <2>12, <3>6, <3>7 DEF BetaOK
    <3>. QED
      BY <1>1, <1>9, <1>11, <3>4, <3>5, <3>8, SweepFrame
  <2>. QED
    BY <2>11, <2>12
<1>. QED
  BY <1>13, <1>14

(* The end of a pass: its rows are complete, and the dot form writes them. *)
LEMMA StoreRowsInvariant ==
  ASSUME IInv, StoreRows
  PROVE  IInv'
<1> DEFINE h  == Passes[pass].rows
           ls == Passes[pass].loops
<1>1. /\ InPass /\ pc = "sweep" /\ pc' = "sweep" /\ loop > Len(ls)
      /\ pass <= Len(Passes) /\ row + h <= block.r1
      /\ UNCHANGED <<pc, call, part, args, block, pass>>
      /\ row' = row + h /\ loop' = 1 /\ col' = 0
  BY DEF StoreRows, InPass
<1>2. /\ Working /\ CallOK(call) /\ ShareOK(call, part, args) /\ ~Stops
      /\ BlockOK /\ WalkOK /\ TilesOK /\ StridesOK /\ BetaOK
      /\ args.row \in Nat /\ args.m \in Nat /\ args.col \in Nat /\ args.n \in Nat \ {0}
      /\ call.rows \in Nat /\ call.cols \in Nat
      /\ block.r0 \in Nat /\ block.r1 \in Nat /\ block.c0 \in Nat /\ block.c1 \in Nat
      /\ row \in Nat /\ col \in Nat
      /\ block.r1 <= args.m /\ block.c0 <= block.c1 /\ block.c1 <= args.n
      /\ row <= block.r1 /\ col <= block.c1 - block.c0
      /\ K.form = "dot" => args.col = 0 /\ block.c0 = 0 /\ block.c1 = args.n
  BY <1>1, SweepFacts
<1>3. /\ K' = K /\ Passes' = Passes /\ RowStride' = RowStride /\ ColStride' = ColStride
      /\ Stops' = Stops
  BY <1>1, Static
<1>4. /\ pass \in 1..Len(Passes) /\ h \in Nat \ {0} /\ LoopsOK(ls)
  <2>1. pass \in 1..Len(Passes)
    <3>1. Len(Passes) \in Nat /\ pass \in 1..(Len(Passes) + 1)
      BY <1>2, CallFacts DEF PassesOK, WalkOK
    <3>. QED
      BY <1>1, <3>1
  <2>. QED
    BY <1>2, <2>1, PassFacts
<1>5. col = block.c1 - block.c0
  <2>1. /\ loop \in 1..(Len(ls) + 1)
        /\ loop = Len(ls) + 1 => col = block.c1 - block.c0
    BY <1>1, <1>2 DEF WalkOK
  <2>2. Len(ls) \in Nat
    BY <1>4 DEF LoopsOK
  <2>. QED
    BY <1>1, <2>1, <2>2
<1>6. BlockOK'
  BY <1>1, <1>2, <1>3 DEF BlockOK
<1>7. WalkOK'
  <2>1. /\ block'.r0 \in Nat /\ block'.r1 \in Nat /\ block'.c0 \in Nat /\ block'.c1 \in Nat
        /\ block'.c0 <= block'.c1
    BY <1>1, <1>2
  <2>2. row' \in (block'.r0)..(block'.r1)
    <3>1. block.r0 <= row
      BY <1>2 DEF WalkOK
    <3>2. h \in Nat /\ row + h <= block.r1 /\ row' = row + h
      BY <1>1, <1>4
    <3> HIDE DEF h
    <3>3. row' \in block.r0..block.r1
      BY <1>2, <3>1, <3>2
    <3>. QED
      BY <1>1, <3>3
  <2>3. pass' \in 1..(Len(Passes) + 1) /\ pass' # Len(Passes) + 1
    <3>1. Len(Passes) \in Nat
      BY <1>2, CallFacts DEF PassesOK
    <3>. QED
      BY <1>1, <1>4, <3>1
  <2>. QED
    BY <1>1, <1>2, <2>1, <2>2, <2>3, PassStarts
<1> HIDE DEF h
\* the pass is now among the settled rows
<1>8. Settled' = Settled \cup Hot /\ Hot' = {}
  <2> DEFINE r == args.row
             c == args.col
             hot == Area(r + row, r + row + h, c + block.c0, c + block.c1)
  <2>1. Hot = hot
    <3>1. c + block.c0 + col = c + block.c1
      BY <1>2, <1>5
    <3>. QED
      BY <1>1, <3>1 DEF Hot, h
  <2>2. row + h <= args.m /\ h \in Nat
    BY <1>1, <1>2, <1>4
  <2>3. Area(r, r + args.m, c, c + block.c0) \cup Area(r, r + row, c, c + block.c1) \cup hot
        = Area(r, r + args.m, c, c + block.c0) \cup Area(r, r + (row + h), c, c + block.c1)
    <3>1. /\ r \in Nat /\ c \in Nat /\ args.m \in Nat /\ row \in Nat
          /\ block.c0 \in Nat /\ block.c1 \in Nat /\ block.c0 <= block.c1
      BY <1>2
    <3> HIDE DEF r, c
    <3>. QED
      BY <2>2, <3>1 DEF Area
  <2>4. Settled' = Shared \cup Area(r, r + args.m, c, c + block.c0)
                          \cup Area(r, r + (row + h), c, c + block.c1)
    BY <1>1 DEF Settled, Shared
  <2>5. Settled = Shared \cup Area(r, r + args.m, c, c + block.c0)
                         \cup Area(r, r + row, c, c + block.c1)
    BY DEF Settled
  <2>6. Hot' = {}
    BY <1>1, <1>2, HotEmpty
  <2> HIDE DEF r, c, hot
  <2>. QED
    BY <2>1, <2>3, <2>4, <2>5, <2>6
<1>9. Tiles(added, Behind) /\ Tiles(held, InRegisters)
  BY <1>2 DEF TilesOK
<1>10. CASE K.form # "dot"
  <2>1. UNCHANGED <<held, added, scaled, again, unset>>
    BY <1>10 DEF StoreRows
  <2>2. Behind' = Behind /\ InRegisters' = InRegisters
    BY <1>1, <1>3, <1>8, <1>10 DEF Behind, InRegisters
  <2>3. TilesOK'
    BY <1>2, <1>3, <1>9, <2>1, <2>2 DEF TilesOK
  <2>4. StridesOK'
    BY <1>2, <1>3, <2>1 DEF StridesOK, UsesStrides
  <2>5. BehindBeta' = BehindBeta
    BY <1>1, <1>3, <1>10 DEF BehindBeta, BetaCols
  <2>6. BetaOK'
    BY <1>1, <1>2, <1>3, <2>1, <2>5 DEF BetaOK
  <2>. QED
    BY <1>1, <1>6, <1>7, <2>3, <2>4, <2>6, SweepFrame
<1>11. CASE K.form = "dot"
  <2> DEFINE places == {(args.row + row + q) * RowStride : q \in 0..(Passes[pass].rows - 1)}
  <2>1. /\ scaled' = scaled \cup places
        /\ again' = (again \/ places \cap (scaled \cup YTouched(added)) # {})
        /\ added' = added \o held /\ held' = <<>>
        /\ unset' = (unset \/ (K.scale = "always" /\ call.beta = "zero"))
    BY <1>11 DEF StoreRows, Scale
  <2>2. call.routine \in Gemv /\ call.along = "y" /\ (K.isa # "base" => K.scale = "tested")
    BY <1>2, <1>11 DEF CallOK, FormOK, K, Gemv
  <2>3. /\ Behind = Settled /\ Behind' = Settled' /\ InRegisters = Hot /\ InRegisters' = {}
    BY <1>1, <1>3, <1>8, <1>11 DEF Behind, InRegisters
  \* the rows are new to the result
  <2>4. ASSUME NEW a \in Nat, NEW b \in Nat, <<a, b>> \in Settled
        PROVE  a < args.row + row
    <3>1. /\ Area(0, call.rows, 0, args.col) = {}
          /\ Area(args.row, args.row + args.m, args.col, args.col + block.c0) = {}
      BY <1>2, <1>11 DEF Area
    <3>2. \/ <<a, b>> \in Area(0, args.row, 0, call.cols)
          \/ <<a, b>> \in Area(args.row, args.row + row, args.col, args.col + block.c1)
      BY <2>4, <3>1 DEF Settled, Shared
    <3>. QED
      BY <1>2, <3>2 DEF Area
  <2>5. Settled \cap Hot = {}
    <3>1. ASSUME NEW x, x \in Settled, x \in Hot
          PROVE  FALSE
      <4>1. args.row + row \in Nat /\ args.col + block.c0 \in Nat
        BY <1>2
      <4>2. PICK a \in Nat, b \in Nat : x = <<a, b>> /\ a >= args.row + row
        BY <3>1, <4>1 DEF Hot, Area
      <4>3. a < args.row + row
        BY <2>4, <3>1, <4>2
      <4>. QED
        BY <4>1, <4>2, <4>3
    <3>. QED
      BY <3>1
  <2>6. /\ Tiles(added', Behind') /\ Tiles(held', InRegisters')
        /\ \A j \in DOMAIN added' :
             \/ j \in DOMAIN added /\ added'[j] = added[j]
             \/ \E i \in DOMAIN held : added'[j] = held[i]
    <3>1. Tiles(added, Settled) /\ Tiles(held, Hot) /\ Settled' = Settled \cup Hot
      BY <1>8, <1>9, <2>3
    <3>2. /\ Tiles(added \o held, Settled \cup Hot)
          /\ \A j \in DOMAIN (added \o held) :
               \/ j \in DOMAIN added /\ (added \o held)[j] = added[j]
               \/ \E i \in DOMAIN held : (added \o held)[j] = held[i]
      BY <2>5, <3>1, TilesConcat
    <3>. QED
      BY <2>1, <2>3, <3>1, <3>2, TilesEmpty
  <2>7. TilesOK'
    BY <1>2, <1>3, <2>6 DEF TilesOK
  <2>8. StridesOK'
    <3> SUFFICES ASSUME Addressed(Passes, RowStride = 1, ColStride = 1)
                 PROVE  /\ \A j \in DOMAIN added' : UsesStrides(added'[j])
                        /\ \A j \in DOMAIN held' : UsesStrides(held'[j])
      BY <1>3 DEF StridesOK, UsesStrides
    <3>1. /\ \A j \in DOMAIN added : UsesStrides(added[j])
          /\ \A j \in DOMAIN held : UsesStrides(held[j])
      BY <1>2 DEF StridesOK
    <3>2. \A j \in DOMAIN added' : UsesStrides(added'[j])
      BY <2>6, <3>1
    <3>3. DOMAIN held' = {}
      BY <2>1
    <3>. QED
      BY <3>2, <3>3
  \* and beta reaches them for the first time
  <2>9. places = ElementsFrom(args.row + row, h, RowStride)
    BY DEF ElementsFrom, h
  <2> HIDE DEF places
  <2>10. /\ args.row + row \in Nat /\ h \in Nat /\ RowStride \in Nat \ {0}
         /\ (args.row + row) + h = args.row + (row + h)
    <3>1. args.row \in Nat /\ row \in Nat /\ h \in Nat
      BY <1>2, <1>4
    <3>2. RowStride \in Nat \ {0}
      BY <1>2, CallFacts
    <3>. QED
      BY <3>1, <3>2
  <2>11. /\ Elements((args.row + row) + h, RowStride) = Elements(args.row + row, RowStride) \cup places
         /\ \A y \in places : \A i \in Nat : y = i * RowStride => i >= args.row + row
    BY <2>9, <2>10, ElementsGrow
  <2>12. scaled = Elements(args.row + row, RowStride) /\ again = FALSE
    BY <1>1, <1>2, <1>11, <2>2 DEF BetaOK, BehindBeta, BetaRows
  <2>13. BehindBeta' = Elements(args.row + (row + h), RowStride)
    <3>1. BetaRows' = args.row + (row + h)
      BY <1>1 DEF BetaRows
    <3>. QED
      BY <1>3, <1>11, <3>1 DEF BehindBeta
  <2>14. scaled' = BehindBeta'
    BY <2>1, <2>10, <2>11, <2>12, <2>13
  <2>15. ASSUME NEW y \in places, y \in scaled \cup YTouched(added)
         PROVE  FALSE
    <3>1. \E i \in Nat : y = i * RowStride /\ i < args.row + row
      <4>1. CASE y \in scaled
        BY <2>10, <2>12, <4>1 DEF Elements
      <4>2. CASE y \in YTouched(added)
        <5>1. \A k \in DOMAIN added : UsesStrides(added[k])
          BY <1>2, <2>2, GemvAddressed DEF StridesOK
        <5>2. Tiles(added, Settled)
          BY <1>9, <2>3
        <5>3. PICK a, b \in Nat : <<a, b>> \in Settled /\ y = a * RowStride
          <6>1. \E a, b \in Nat : /\ <<a, b>> \in Settled
                                  /\ y = IF call.along = "y" THEN a * RowStride ELSE b * ColStride
            BY <1>2, <4>2, <5>1, <5>2, TouchedCells
          <6>. QED
            BY <2>2, <6>1
        <5>. QED
          BY <2>4, <5>3
      <4>. QED
        BY <2>15, <4>1, <4>2
    <3>2. PICK i \in Nat : y = i * RowStride /\ i < args.row + row
      BY <3>1
    <3>3. i >= args.row + row
      BY <2>11, <2>15, <3>2
    <3>. QED
      BY <2>10, <3>2, <3>3
  <2>16. again' = FALSE
    BY <2>1, <2>12, <2>15
  <2>17. BetaOK'
    BY <1>1, <1>2, <1>3, <1>11, <2>1, <2>2, <2>14, <2>16 DEF BetaOK
  <2>. QED
    BY <1>1, <1>6, <1>7, <2>7, <2>8, <2>17, SweepFrame
<1>. QED
  BY <1>10, <1>11

(* Too few rows are left for this pass. *)
LEMMA NextPassInvariant ==
  ASSUME IInv, NextPass
  PROVE  IInv'
<1>1. /\ pc = "sweep" /\ pc' = "sweep" /\ pass <= Len(Passes) /\ ~InPass /\ pass' = pass + 1
      /\ UNCHANGED <<pc, call, part, args, block, row, loop, col, held, added, scaled,
                     again, unset>>
  BY DEF NextPass
<1>2. /\ Working /\ CallOK(call) /\ ShareOK(call, part, args) /\ ~Stops
      /\ BlockOK /\ WalkOK /\ TilesOK /\ StridesOK /\ BetaOK
      /\ args.row \in Nat /\ args.m \in Nat /\ args.col \in Nat /\ args.n \in Nat \ {0}
      /\ block.r0 \in Nat /\ block.r1 \in Nat /\ block.c0 \in Nat /\ block.c1 \in Nat
      /\ row \in Nat /\ col \in Nat /\ block.c0 <= block.c1 /\ row <= block.r1
  BY <1>1, SweepFacts
<1>3. /\ K' = K /\ Passes' = Passes /\ RowStride' = RowStride /\ ColStride' = ColStride
      /\ Stops' = Stops
  BY <1>1, Static
<1>4. loop = 1 /\ col = 0 /\ Len(Passes) \in Nat /\ pass \in 1..(Len(Passes) + 1)
      /\ row \in block.r0..block.r1
  BY <1>1, <1>2, CallFacts DEF WalkOK, PassesOK
<1>5. pass \in 1..Len(Passes)
  BY <1>1, <1>4
<1>6. pass = Len(Passes) => row = block.r1
  <2> SUFFICES ASSUME pass = Len(Passes) PROVE row = block.r1
    OBVIOUS
  <2>1. Passes[pass].rows = 1
    BY <1>2, <1>5, PassFacts
  <2>2. ~(row + 1 <= block.r1)
    BY <1>1, <2>1 DEF InPass
  <2>. QED
    BY <1>2, <2>2
<1>7. BlockOK'
  BY <1>1, <1>2, <1>3 DEF BlockOK
<1>8. WalkOK'
  <2>1. /\ block'.r0 \in Nat /\ block'.r1 \in Nat /\ block'.c0 \in Nat /\ block'.c1 \in Nat
        /\ block'.c0 <= block'.c1 /\ row' \in (block'.r0)..(block'.r1)
    BY <1>1, <1>2, <1>4
  <2>2. /\ pass' \in 1..(Len(Passes) + 1) /\ (pass' = Len(Passes) + 1 => row' = block'.r1)
        /\ loop' = 1 /\ col' = 0
    BY <1>1, <1>4, <1>5, <1>6
  <2>. QED
    BY <1>1, <1>2, <2>1, <2>2, PassStarts
<1>9. Hot = {} /\ Hot' = {} /\ Settled' = Settled
  <2>1. Hot = {} /\ Hot' = {}
    BY <1>1, <1>2, <1>4, HotEmpty
  <2>. QED
    BY <1>1, <2>1 DEF Settled, Shared
<1>10. Behind' = Behind /\ InRegisters' = InRegisters /\ BehindBeta' = BehindBeta
  BY <1>1, <1>3, <1>9 DEF Behind, InRegisters, BehindBeta, BetaRows, BetaCols
<1>11. TilesOK'
  BY <1>1, <1>2, <1>3, <1>10 DEF TilesOK
<1>12. StridesOK'
  BY <1>1, <1>2, <1>3 DEF StridesOK, UsesStrides
<1>13. BetaOK'
  BY <1>1, <1>2, <1>3, <1>10 DEF BetaOK
<1>. QED
  BY <1>1, <1>7, <1>8, <1>11, <1>12, <1>13, SweepFrame

(* The next cache block, or the end of the share. *)
LEMMA NextBlockInvariant ==
  ASSUME IInv, NextBlock
  PROVE  IInv'
<1> DEFINE r == args.row
           c == args.col
           m == args.m
           n == args.n
<1>1. /\ pc = "sweep" /\ pass > Len(Passes)
      /\ UNCHANGED <<call, part, args, held, added, scaled, again, unset>>
  BY DEF NextBlock
<1>2. /\ Working /\ CallOK(call) /\ ShareOK(call, part, args) /\ ~Stops
      /\ BlockOK /\ WalkOK /\ TilesOK /\ StridesOK /\ BetaOK
      /\ r \in Nat /\ m \in Nat /\ c \in Nat /\ n \in Nat \ {0}
      /\ call.rows \in Nat /\ call.cols \in Nat
      /\ block.r0 \in Nat /\ block.r1 \in Nat /\ block.c0 \in Nat /\ block.c1 \in Nat
      /\ row \in Nat /\ col \in Nat
      /\ block.r1 <= m /\ block.c0 <= block.c1 /\ block.c1 <= n
  BY <1>1, SweepFacts
<1>3. /\ K' = K /\ Passes' = Passes /\ RowStride' = RowStride /\ ColStride' = ColStride
      /\ Stops' = Stops /\ CallOK(call)' = CallOK(call) /\ Nothing(call)' = Nothing(call)
  BY <1>1, Static
<1>4. row = block.r1 /\ col = 0
  <2>1. Len(Passes) \in Nat /\ pass \in 1..(Len(Passes) + 1)
    BY <1>2, CallFacts DEF PassesOK, WalkOK
  <2>2. pass = Len(Passes) + 1 /\ ~InPass
    BY <1>1, <2>1 DEF InPass
  <2>. QED
    BY <1>2, <2>2 DEF WalkOK
<1>5. /\ ~K.rblock => block.r0 = 0 /\ block.r1 = m
      /\ ~K.cblock => block.c0 = 0 /\ block.c1 = n
      /\ K.form = "dot" => ~K.rblock /\ ~K.cblock
      /\ ~(K.rblock /\ K.cblock)
  BY <1>2 DEF BlockOK, CallOK, FormOK, K
<1>6. Hot = {}
  BY <1>2, <1>4, HotEmpty
<1>7. Tiles(added, Settled) /\ Tiles(held, {})
  <2>1. Behind = Settled /\ InRegisters = {}
    BY <1>1, <1>6 DEF Behind, InRegisters
  <2>. QED
    BY <1>2, <2>1 DEF TilesOK
<1>8. StridesOK'
  BY <1>1, <1>2, <1>3 DEF StridesOK, UsesStrides
<1>9. Settled = Shared \cup Area(r, r + m, c, c + block.c0)
                       \cup Area(r, r + block.r1, c, c + block.c1)
  BY <1>4 DEF Settled
<1>10. Working' /\ CallOK(call)' /\ ShareOK(call, part, args)'
  BY <1>1, <1>2, <1>3 DEF Working, NextBlock
<1>11. CASE block.r1 < m
  <2>1. EnterBlock(block.r1, 0) /\ pc' = "sweep"
    BY <1>1, <1>11 DEF NextBlock
  <2>2. K.rblock /\ ~K.cblock /\ block.c0 = 0 /\ block.c1 = n
    BY <1>2, <1>5, <1>11
  <2>3. block.r1 \in 0..args.m /\ 0 \in 0..args.n
    BY <1>2
  <2>4. /\ BlockOK' /\ WalkOK' /\ block'.c0 = 0 /\ row' = block.r1 /\ Hot' = {}
    BY <1>1, <1>2, <2>1, <2>2, <2>3, BlockStartsWalk
  <2>5. block'.c1 = n
    BY <1>1, <1>3, <2>2, <2>4 DEF BlockOK
  <2>6. Settled' = Settled
    <3>1. Settled' = Shared \cup Area(r, r + m, c, c + 0) \cup Area(r, r + block.r1, c, c + n)
      BY <1>1, <2>4, <2>5 DEF Settled, Shared
    <3>. QED
      BY <1>9, <2>2, <3>1
  <2>7. Behind' = Settled /\ InRegisters' = {}
    BY <2>1, <2>4, <2>6 DEF Behind, InRegisters
  <2>8. TilesOK'
    BY <1>1, <1>2, <1>3, <1>7, <2>7 DEF TilesOK
  <2>9. K.form # "dot"
    BY <1>5, <2>2
  <2>10. BehindBeta' = BehindBeta
    BY <1>1, <1>3, <2>1, <2>9 DEF BehindBeta, BetaCols
  <2>11. BetaOK'
    BY <1>1, <1>2, <1>3, <2>10 DEF BetaOK
  <2>. QED
    BY <1>1, <1>8, <2>1, <2>4, <2>8, <2>11, SweepFrame
<1>12. CASE ~(block.r1 < m) /\ block.c1 < n
  <2>1. EnterBlock(0, block.c1) /\ pc' = "sweep"
    BY <1>1, <1>12 DEF NextBlock
  <2>2. K.cblock /\ ~K.rblock /\ block.r1 = m
    BY <1>2, <1>5, <1>12
  <2>3. 0 \in 0..args.m /\ block.c1 \in 0..args.n
    BY <1>2
  <2>4. /\ BlockOK' /\ WalkOK' /\ block'.c0 = block.c1 /\ row' = 0 /\ Hot' = {}
        /\ block'.c1 \in Nat
    <3>1. /\ BlockOK' /\ WalkOK' /\ block'.c0 = block.c1 /\ row' = 0 /\ Hot' = {}
          /\ block'.c1 \in block.c1..args.n
      BY <1>1, <1>2, <2>1, <2>2, <2>3, BlockStartsWalk
    <3>. QED
      BY <1>2, <3>1
  <2>6. Settled' = Settled
    <3>1. Settled' = Shared \cup Area(r, r + m, c, c + block.c1) \cup Area(r, r + 0, c, c + block'.c1)
      BY <1>1, <2>4 DEF Settled, Shared
    <3>2. Area(r, r + 0, c, c + block'.c1) = {}
      BY <1>2 DEF Area
    <3>3. Area(r, r + m, c, c + block.c0) \subseteq Area(r, r + m, c, c + block.c1)
      BY <1>2 DEF Area
    <3>. QED
      BY <1>9, <2>2, <3>1, <3>2, <3>3
  <2>7. Behind' = Settled /\ InRegisters' = {}
    BY <2>1, <2>4, <2>6 DEF Behind, InRegisters
  <2>8. TilesOK'
    BY <1>1, <1>2, <1>3, <1>7, <2>7 DEF TilesOK
  <2>9. K.form # "dot"
    BY <1>5, <2>2
  <2>10. BehindBeta' = BehindBeta
    BY <1>1, <1>3, <2>1, <2>9 DEF BehindBeta, BetaCols
  <2>11. BetaOK'
    BY <1>1, <1>2, <1>3, <2>10 DEF BetaOK
  <2>. QED
    BY <1>1, <1>8, <2>1, <2>4, <2>8, <2>11, SweepFrame
<1>13. CASE ~(block.r1 < m) /\ ~(block.c1 < n)
  <2>1. pc' = "return"
    BY <1>1, <1>13 DEF NextBlock
  <2>2. block.r1 = m /\ block.c1 = n
    BY <1>2, <1>13
  <2>3. Behind' = Settled /\ InRegisters' = {}
    <3>1. Behind' = Area(0, r + m, 0, c + n) /\ InRegisters' = {}
      BY <1>1, <2>1 DEF Behind, InRegisters
    <3>2. (r = 0 /\ m = call.rows) \/ (c = 0 /\ n = call.cols)
      <4>1. /\ call.split = "cols" => args.row = 0 /\ args.m = call.rows
            /\ call.split # "cols" => args.col = 0 /\ args.n = call.cols
        BY <1>1, SweepFacts
      <4>2. CASE call.split = "cols"
        BY <4>1, <4>2
      <4>3. CASE call.split # "cols"
        BY <4>1, <4>3
      <4>. QED
        BY <4>2, <4>3
    <3>3. Shared \cup Area(r, r + m, c, c + n) = Area(0, r + m, 0, c + n)
      <4>1. m \in Nat /\ n \in Nat /\ r \in Nat /\ c \in Nat /\ call.rows \in Nat /\ call.cols \in Nat
        BY <1>2
      <4>2. Shared = Area(0, r, 0, call.cols) \cup Area(0, call.rows, 0, c)
        BY DEF Shared
      <4> HIDE DEF r, c, m, n
      <4>3. Area(0, r, 0, call.cols) \cup Area(0, call.rows, 0, c) \cup Area(r, r + m, c, c + n)
              = Area(0, r + m, 0, c + n)
        BY <3>2, <4>1 DEF Area
      <4>. QED
        BY <4>2, <4>3
    <3>4. Area(r, r + m, c, c + block.c0) \subseteq Area(r, r + m, c, c + n)
      BY <1>2, <2>2 DEF Area
    <3>. QED
      BY <1>9, <2>2, <3>1, <3>3, <3>4
  <2>4. TilesOK'
    BY <1>1, <1>2, <1>3, <1>7, <2>3 DEF TilesOK
  <2>5. BehindBeta' = BehindBeta
    <3>1. BetaCols' = BetaCols
      BY <1>1, <2>1 DEF BetaCols
    <3>2. BetaRows' = BetaRows
      BY <1>1, <1>4, <2>1, <2>2 DEF BetaRows
    <3>. QED
      BY <1>1, <1>3, <3>1, <3>2 DEF BehindBeta
  <2>6. BetaOK'
    BY <1>1, <1>2, <1>3, <2>5 DEF BetaOK
  <2>. QED
    BY <1>8, <1>10, <2>1, <2>4, <2>6
       DEF IInv, CallInv, ShareInv, WalkInv, IdleInv, TilesInv, StrideInv, BetaInv
<1>. QED
  BY <1>11, <1>12, <1>13

-----------------------------------------------------------------------------
(* From one share to the next, and back to the caller. *)

(* The next share starts where this one ended; after the last one the       *)
(* matrix is covered.                                                       *)
LEMMA NextShareInvariant ==
  ASSUME IInv, NextShare
  PROVE  IInv'
<1>1. /\ pc = "return" /\ pc' \in {"enter", "done"}
      /\ UNCHANGED <<call, held, added, scaled, again, unset>>
  BY DEF NextShare
<1>2. /\ Working /\ CallOK(call) /\ ShareOK(call, part, args)
      /\ TilesOK /\ StridesOK /\ BetaOK
  BY <1>1 DEF IInv, CallInv, ShareInv, IdleInv, TilesInv, StrideInv, BetaInv, Working
<1>3. /\ args.row \in Nat /\ args.m \in Nat /\ args.col \in Nat /\ args.n \in Nat \ {0}
      /\ call.rows \in Nat /\ call.cols \in Nat
      /\ args.row + args.m <= call.rows /\ args.col + args.n <= call.cols
      /\ call.split = "cols" => args.row = 0 /\ args.m = call.rows
      /\ call.split # "cols" => args.col = 0 /\ args.n = call.cols
  BY <1>2, ShareFacts
<1>4. /\ K' = K /\ Passes' = Passes /\ RowStride' = RowStride /\ ColStride' = ColStride
      /\ Stops' = Stops /\ CallOK(call)' = CallOK(call) /\ Nothing(call)' = Nothing(call)
  BY <1>1, Static
<1>5. Working' /\ CallOK(call)'
  BY <1>1, <1>2, <1>4 DEF Working
<1>6. StridesOK'
  BY <1>1, <1>2, <1>4 DEF StridesOK, UsesStrides
<1>7. Behind = Area(0, args.row + args.m, 0, args.col + args.n) /\ InRegisters = {}
  BY <1>1 DEF Behind, InRegisters
<1>8. CASE part < Shares(call)
  <2>1. /\ pc' = "enter" /\ part' = part + 1
        /\ args' = ShareFrom(call, part + 1, args.row + args.m, args.col + args.n)
    BY <1>8 DEF NextShare
  <2>2. /\ ShareOK(call, part, args)'
        /\ args'.row = IF call.split = "cols" THEN 0 ELSE args.row + args.m
        /\ args'.col = IF call.split = "cols" THEN args.col + args.n ELSE 0
    BY <1>1, <1>2, <1>8, <2>1, FollowingShare
  <2>3. Behind' = Behind /\ InRegisters' = {}
    <3>1. Behind' = Area(0, args'.row, 0, call.cols) \cup Area(0, call.rows, 0, args'.col)
      BY <1>1, <2>1 DEF Behind, Shared
    <3>2. InRegisters' = {}
      BY <2>1 DEF InRegisters
    <3>3. CASE call.split = "cols"
      <4>1. args'.row = 0 /\ args'.col = args.col + args.n /\ args.row + args.m = call.rows
        BY <1>3, <2>2, <3>3
      <4>2. Area(0, 0, 0, call.cols) = {}
        BY DEF Area
      <4>. QED
        BY <1>7, <3>1, <3>2, <4>1, <4>2
    <3>4. CASE call.split # "cols"
      <4>1. args'.col = 0 /\ args'.row = args.row + args.m /\ args.col + args.n = call.cols
        BY <1>3, <2>2, <3>4
      <4>2. Area(0, call.rows, 0, 0) = {}
        BY DEF Area
      <4>. QED
        BY <1>7, <3>1, <3>2, <4>1, <4>2
    <3>. QED
      BY <3>3, <3>4
  <2>4. TilesOK'
    BY <1>1, <1>2, <1>4, <1>7, <2>3 DEF TilesOK
  <2>5. call.routine \in Gemv => BehindBeta' = BehindBeta
    <3> SUFFICES ASSUME call.routine \in Gemv PROVE BehindBeta' = BehindBeta
      OBVIOUS
    <3>1. CASE K.form = "dot"
      <4>1. call.split # "cols"
        BY <1>2, <3>1 DEF CallOK, FormOK, K
      <4>2. BetaRows' = BetaRows
        BY <1>1, <2>1, <2>2, <4>1 DEF BetaRows
      <4>. QED
        BY <1>1, <1>4, <3>1, <4>2 DEF BehindBeta
    <3>2. CASE K.form # "dot"
      <4>1. K.form = "axpy" /\ call.split # "rows"
        BY <1>2, <3>2 DEF CallOK, FormOK, K, Gemv
      <4>2. call.split = "cols"
        <5> SUFFICES ASSUME call.split = "none" PROVE FALSE
          BY <1>2, <4>1 DEF CallOK
        <5>1. part \in 1..Shares(call) /\ Shares(call) = 1
          BY <1>2 DEF CallOK, ShareOK, Shares
        <5>. QED
          BY <1>8, <5>1
      <4>3. BetaCols' = BetaCols
        BY <1>1, <2>1, <2>2, <4>2 DEF BetaCols
      <4>. QED
        BY <1>1, <1>4, <3>2, <4>3 DEF BehindBeta
    <3>. QED
      BY <3>1, <3>2
  <2>6. BetaOK'
    BY <1>1, <1>2, <1>4, <2>5 DEF BetaOK
  <2>. QED
    BY <1>5, <1>6, <2>1, <2>2, <2>4, <2>6
       DEF IInv, CallInv, ShareInv, WalkInv, IdleInv, TilesInv, StrideInv, BetaInv
<1>9. CASE ~(part < Shares(call))
  <2>1. pc' = "done" /\ UNCHANGED <<part, args>>
    BY <1>9 DEF NextShare
  <2>2. part = Shares(call)
    <3>1. Shares(call) \in Nat
      <4>1. call.split = "cols" => Shares(call) \in Nat
        BY <1>2, Widths DEF ShareOK
      <4>2. call.split # "cols" => Shares(call) \in Nat
        BY <1>2 DEF Shares, CallOK
      <4>. QED
        BY <4>1, <4>2
    <3>2. part \in 1..Shares(call)
      BY <1>2 DEF ShareOK
    <3>. QED
      BY <1>9, <3>1, <3>2
  <2>3. ShareOK(call, part, args)' /\ (part = Shares(call))'
    BY <1>1, <1>2, <2>1, <2>2
  <2>4. Behind' = Behind /\ InRegisters' = {}
    BY <1>1, <2>1 DEF Behind, InRegisters
  <2>5. TilesOK'
    BY <1>1, <1>2, <1>4, <1>7, <2>4 DEF TilesOK
  <2>6. BehindBeta' = BehindBeta
    BY <1>1, <1>4, <2>1 DEF BehindBeta, BetaRows, BetaCols
  <2>7. BetaOK'
    BY <1>1, <1>2, <1>4, <2>6 DEF BetaOK
  <2>. QED
    BY <1>5, <1>6, <2>1, <2>3, <2>5, <2>7
       DEF IInv, CallInv, ShareInv, WalkInv, IdleInv, TilesInv, StrideInv, BetaInv
<1>. QED
  BY <1>8, <1>9

(* Back to the caller. *)
LEMMA ReturnInvariant ==
  ASSUME IInv, Return
  PROVE  IInv'
BY DEF Return, IInv, CallInv, ShareInv, WalkInv, IdleInv, TilesInv, StrideInv, BetaInv, Working

(* The inductive invariant: where the walk is, what it has recorded and     *)
(* what beta has reached, for every call and kernel.                        *)
THEOREM WalkInvariant == Spec => []IInv
<1>1. Init => IInv
  BY InitInvariant
<1>2. IInv /\ [Next]_vars => IInv'
  <2> SUFFICES ASSUME IInv, [Next]_vars PROVE IInv'
    OBVIOUS
  <2>1. CASE cblas_gemv
    <3>0. PICK r \in Routines \cap Gemv :
            \E host \in Hosts, c \in Arguments(r), above \in BOOLEAN, t \in Threads :
              Begin(GemvCall(host.features, c, above, t))
      BY <2>1 DEF cblas_gemv
    <3>1. PICK host \in Hosts, c \in Arguments(r), above \in BOOLEAN, t \in Threads :
            Begin(GemvCall(host.features, c, above, t))
      BY <3>0
    <3>2. CallOK(GemvCall(host.features, c, above, t))
      BY GemvCallOK
    <3>. QED
      BY <2>1, <3>1, <3>2, BeginInvariant DEF cblas_gemv
  <2>2. CASE cblas_ger
    <3>0. PICK r \in Routines \ Gemv :
            \E host \in Hosts, c \in Arguments(r), above \in BOOLEAN, t \in Threads :
              Begin(GerCall(host.features, c, above, t))
      BY <2>2 DEF cblas_ger
    <3>1. PICK host \in Hosts, c \in Arguments(r), above \in BOOLEAN, t \in Threads :
            Begin(GerCall(host.features, c, above, t))
      BY <3>0
    <3>2. CallOK(GerCall(host.features, c, above, t))
      BY GerCallOK, Level2Assumption DEF Gemv
    <3>. QED
      BY <2>2, <3>1, <3>2, BeginInvariant DEF cblas_ger
  <2>3. CASE Enter
    BY <2>3, EnterInvariant
  <2>4. CASE SweepColumns
    BY <2>4, SweepColumnsInvariant
  <2>5. CASE StoreRows
    BY <2>5, StoreRowsInvariant
  <2>6. CASE NextPass
    BY <2>6, NextPassInvariant
  <2>7. CASE NextBlock
    BY <2>7, NextBlockInvariant
  <2>8. CASE NextShare
    BY <2>8, NextShareInvariant
  <2>9. CASE Return
    BY <2>9, ReturnInvariant
  <2>10. CASE UNCHANGED vars
    BY <2>10 DEF vars, walk, IInv, CallInv, ShareInv, WalkInv, IdleInv, TilesInv, StrideInv,
                 BetaInv, Working, BlockOK, WalkOK, TilesOK, StridesOK, BetaOK, Behind,
                 Settled, Shared, Hot, InRegisters, BehindBeta, BetaRows, BetaCols, InPass,
                 UsesStrides, K, Passes, Fast, Contiguous, RowStride, ColStride, Stops, CallOK,
                 FormOK, OperandsOK, Asks, GerOK, Nothing
  <2>. QED
    BY <2>1, <2>2, <2>3, <2>4, <2>5, <2>6, <2>7, <2>8, <2>9, <2>10 DEF Next
<1>. QED
  BY <1>1, <1>2, PTL DEF Spec


-----------------------------------------------------------------------------
(* What reached the result, from the cells recorded. *)

(* The product of the cell in row i and column j of the stored matrix. *)
CellProduct(i, j) ==
  IF call.along = "x" THEN <<i * call.ld + j, i * RowStride, j * ColStride>>
  ELSE <<i * call.ld + j, j * ColStride, i * RowStride>>

(* x is the product of a cell of S. *)
ProductIn(x, S) == \E i, j \in Nat : <<i, j>> \in S /\ x = CellProduct(i, j)

(* An entry that uses the strides records the products of its cells. *)
LEMMA ProductOfCell ==
  ASSUME CallOK(call), NEW p \in Entries, UsesStrides(p),
         NEW q \in 0..(p.rows - 1), NEW l \in 0..(p.cols - 1)
  PROVE  Product(p, q, l) = CellProduct(p.row0 + p.row + q, p.col0 + p.col + l)
<1>1. /\ p.row0 \in Nat /\ p.row \in Nat /\ p.rows \in Nat \ {0} /\ q \in Nat
      /\ p.col0 \in Nat /\ p.col \in Nat /\ p.cols \in Nat \ {0} /\ l \in Nat
  BY DEF Entries
<1>2. RowStride \in Nat /\ ColStride \in Nat /\ call.ld \in Nat
  BY CallFacts DEF CallOK
<1>3. Along(p, q) = p.row0 * RowStride + p.row * RowStride + q * RowStride
  BY <1>1, <1>2 DEF Along, UsesStrides
<1>4. (p.row0 + p.row + q) * RowStride
        = p.row0 * RowStride + p.row * RowStride + q * RowStride
  BY <1>1, <1>2, SMT
<1>5. Across(p, l) = p.col0 * ColStride + (p.col + l) * ColStride
  BY <1>1, <1>2 DEF Across, UsesStrides
<1>6. (p.col0 + p.col + l) * ColStride = p.col0 * ColStride + (p.col + l) * ColStride
  BY <1>1, <1>2, SMT
<1> DEFINE i == p.row0 + p.row + q
           j == p.col0 + p.col + l
<1>7. (i * call.ld) + p.col0 + p.col + l = (i * call.ld) + j
  <2>1. i * call.ld \in Nat
    BY <1>1, <1>2
  <2> DEFINE a == i * call.ld
  <2>2. a \in Nat
    BY <2>1
  <2> HIDE DEF a
  <2>3. a + p.col0 + p.col + l = a + (p.col0 + p.col + l)
    BY <1>1, <2>2
  <2>. QED
    BY <2>3 DEF a
<1>8. Along(p, q) = i * RowStride /\ Across(p, l) = j * ColStride
  BY <1>3, <1>4, <1>5, <1>6
<1>. QED
  BY <1>7, <1>8, Zenon DEF Product, CellProduct

(* Different cells have different products: strides are positive. *)
LEMMA CellOfProduct ==
  ASSUME CallOK(call), NEW i \in Nat, NEW j \in Nat, NEW k \in Nat, NEW h \in Nat,
         CellProduct(i, j) = CellProduct(k, h)
  PROVE  i = k /\ j = h
<1>1. i * RowStride = k * RowStride /\ j * ColStride = h * ColStride
  BY Zenon DEF CellProduct
<1>2. RowStride \in Nat \ {0} /\ ColStride \in Nat \ {0}
  BY CallFacts
<1>. QED
  BY <1>1, <1>2, MulInjective

(* The products of an entry are those of its cells. *)
LEMMA ProductsOfEntry ==
  ASSUME CallOK(call), NEW p \in Entries, UsesStrides(p), NEW x
  PROVE  x \in Products(p) <=> ProductIn(x, Cells(p))
<1>1. ASSUME x \in Products(p)
      PROVE  \E i, j \in Nat : <<i, j>> \in Cells(p) /\ x = CellProduct(i, j)
  <2>1. PICK q \in 0..(p.rows - 1), l \in 0..(p.cols - 1) : x = Product(p, q, l)
    BY <1>1 DEF Products
  <2>2. p.row0 + p.row + q \in Nat /\ p.col0 + p.col + l \in Nat
    BY DEF Entries
  <2>. QED
    BY <2>1, <2>2, ProductOfCell, CellsOfEntry
<1>2. ASSUME NEW i \in Nat, NEW j \in Nat, <<i, j>> \in Cells(p), x = CellProduct(i, j)
      PROVE  x \in Products(p)
  <2>1. PICK q \in 0..(p.rows - 1), l \in 0..(p.cols - 1) :
          i = p.row0 + p.row + q /\ j = p.col0 + p.col + l
    BY <1>2, CellsOfEntry
  <2>2. x = Product(p, q, l)
    BY <1>2, <2>1, ProductOfCell
  <2>. QED
    BY <2>2 DEF Products
<1>. QED
  BY <1>1, <1>2 DEF ProductIn

(* The calls whose vectors and matrix the column-major loops of GER fit.    *)
CompactCall == Contiguous => call.lda = call.m /\ UnitStrides

(* The operation asks for the product of every cell of the stored matrix.   *)
LEMMA WantedCells ==
  ASSUME CallOK(call), CompactCall,
         NEW x
  PROVE  x \in Wanted <=>
           \E i \in 0..(call.rows - 1), j \in 0..(call.cols - 1) : x = CellProduct(i, j)
<1> DEFINE A(i, j)  == IF call.layout = "row" THEN i * call.lda + j ELSE j * call.lda + i
           Of(i, j) == IF call.routine \notin Gemv \/ call.trans = "yes"
                       THEN <<A(i, j), i * call.incx, j * call.incy>>
                       ELSE <<A(i, j), j * call.incx, i * call.incy>>
<1>1. x \in Wanted <=> \E i \in 0..(call.m - 1), j \in 0..(call.n - 1) : x = Of(i, j)
  <2>1. Wanted = {Of(i, j) : i \in 0..(call.m - 1), j \in 0..(call.n - 1)}
    BY DEF Wanted
  <2> HIDE DEF Of
  <2>. QED
    BY <2>1
<1>2. /\ call.layout \in {"row", "col"} /\ call.trans \in {"no", "yes"}
      /\ call.layout = "row" => call.rows = call.m /\ call.cols = call.n /\ call.ld = call.lda
      /\ call.layout = "col" => call.rows = call.n /\ call.cols = call.m /\ call.ld = call.lda
      /\ call.along = IF \/ call.layout = "row" /\ call.routine \in Gemv /\ call.trans = "no"
                         \/ call.layout = "col" /\ (call.routine \in Gemv => call.trans = "yes")
                      THEN "y" ELSE "x"
  BY DEF CompactCall, Contiguous, CallOK, OperandsOK
<1>3. ASSUME NEW i, NEW j, call.layout = "row" PROVE Of(i, j) = CellProduct(i, j)
  <2>1. call.along = IF call.routine \in Gemv /\ call.trans = "no" THEN "y" ELSE "x"
    BY <1>2, <1>3
  <2>2. call.ld = call.lda
    BY <1>2, <1>3
  <2>3. ~Contiguous
    BY <1>3 DEF Contiguous
  <2>. QED
    BY <1>2, <1>3, <2>1, <2>2, <2>3 DEF CellProduct, RowStride, ColStride
<1>4. ASSUME NEW i, NEW j, call.layout = "col" PROVE Of(i, j) = CellProduct(j, i)
  <2>1. call.along = IF call.routine \in Gemv => call.trans = "yes" THEN "y" ELSE "x"
    BY <1>2, <1>4
  <2>2. call.ld = call.lda
    BY <1>2, <1>4
  <2>3. CASE Contiguous
    <3>1. call.incx = 1 /\ call.incy = 1 /\ RowStride = 1 /\ ColStride = 1
      BY <2>3 DEF CompactCall, UnitStrides, RowStride, ColStride
    <3>. QED
      BY <1>2, <1>4, <2>1, <2>2, <2>3, <3>1 DEF CellProduct, Contiguous
  <2>4. CASE ~Contiguous
    BY <1>2, <1>4, <2>1, <2>2, <2>4 DEF CellProduct, RowStride, ColStride, Contiguous
  <2>. QED
    BY <2>3, <2>4
<1> HIDE DEF Of
<1>5. CASE call.layout = "row"
  BY <1>1, <1>2, <1>3, <1>5
<1>6. CASE call.layout = "col"
  BY <1>1, <1>2, <1>4, <1>6
<1>. QED
  BY <1>2, <1>5, <1>6

(* A call that worked through its shares has recorded every cell once.      *)
LEMMA DoneIsExact ==
  ASSUME IInv, pc = "done", Working, ~Stops, Addressed(Passes, RowStride = 1, ColStride = 1),
         CompactCall
  PROVE  Exact
<1>1. /\ CallOK(call) /\ ShareOK(call, part, args) /\ part = Shares(call)
      /\ TilesOK /\ StridesOK
  BY DEF IInv, CallInv, ShareInv, TilesInv, StrideInv, Working
<1>2. /\ args.row + args.m = call.rows /\ args.col + args.n = call.cols
      /\ call.rows \in Nat /\ call.cols \in Nat
  BY <1>1, ShareFacts
<1>3. Behind = Area(0, call.rows, 0, call.cols)
  BY <1>2 DEF Behind
<1>4. Tiles(added, Area(0, call.rows, 0, call.cols))
  BY <1>1, <1>3 DEF TilesOK
<1>5. \A k \in DOMAIN added : added[k] \in Entries /\ UsesStrides(added[k])
  BY <1>1, <1>4 DEF Tiles, StridesOK
<1>6. \A i, j \in Nat : <<i, j>> \in Area(0, call.rows, 0, call.cols) <=>
                          i \in 0..(call.rows - 1) /\ j \in 0..(call.cols - 1)
  BY <1>2 DEF Area
<1>7. \A i, j \in Nat :
        (\E k \in DOMAIN added : <<i, j>> \in Cells(added[k])) <=>
          i \in 0..(call.rows - 1) /\ j \in 0..(call.cols - 1)
  <2>1. UNION {Cells(added[k]) : k \in DOMAIN added} = Area(0, call.rows, 0, call.cols)
    BY <1>4 DEF Tiles
  <2>2. ASSUME NEW i, NEW j
        PROVE  (\E k \in DOMAIN added : <<i, j>> \in Cells(added[k])) <=>
                 <<i, j>> \in Area(0, call.rows, 0, call.cols)
    BY <2>1
  <2>. QED
    BY <1>6, <2>2
<1>8. ASSUME NEW k \in DOMAIN added, NEW x
      PROVE  x \in Products(added[k]) <=> ProductIn(x, Cells(added[k]))
  <2>1. added[k] \in Entries /\ UsesStrides(added[k])
    BY <1>5
  <2>. QED
    BY <1>1, <2>1, ProductsOfEntry
<1>9. UNION {Products(added[k]) : k \in DOMAIN added} = Wanted
  <2>1. ASSUME NEW k \in DOMAIN added, NEW x \in Products(added[k]) PROVE x \in Wanted
    <3>1. PICK i, j \in Nat : <<i, j>> \in Cells(added[k]) /\ x = CellProduct(i, j)
      BY <1>8 DEF ProductIn
    <3>2. i \in 0..(call.rows - 1) /\ j \in 0..(call.cols - 1)
      BY <1>7, <3>1
    <3>. QED
      BY <1>1, <3>1, <3>2, WantedCells
  <2>2. ASSUME NEW x \in Wanted PROVE \E k \in DOMAIN added : x \in Products(added[k])
    <3>1. PICK i \in 0..(call.rows - 1), j \in 0..(call.cols - 1) : x = CellProduct(i, j)
      BY <1>1, WantedCells
    <3>2. i \in Nat /\ j \in Nat
      OBVIOUS
    <3>3. PICK k \in DOMAIN added : <<i, j>> \in Cells(added[k])
      BY <1>7, <3>2
    <3>. QED
      BY <1>8, <3>1, <3>2, <3>3 DEF ProductIn
  <2>. QED
    BY <2>1, <2>2
<1>10. ASSUME NEW k \in DOMAIN added, NEW l \in DOMAIN added, k < l
       PROVE  Products(added[k]) \cap Products(added[l]) = {}
  <2> SUFFICES ASSUME NEW x \in Products(added[k]), x \in Products(added[l]) PROVE FALSE
    OBVIOUS
  <2>1. PICK i, j \in Nat : <<i, j>> \in Cells(added[k]) /\ x = CellProduct(i, j)
    BY <1>8 DEF ProductIn
  <2>2. PICK u, v \in Nat : <<u, v>> \in Cells(added[l]) /\ x = CellProduct(u, v)
    BY <1>8 DEF ProductIn
  <2>3. u = i /\ v = j
    <3>1. CallOK(call) /\ CellProduct(u, v) = CellProduct(i, j)
      BY <1>1, <2>1, <2>2
    <3>. QED
      BY <3>1, CellOfProduct
  <2>4. Cells(added[k]) \cap Cells(added[l]) = {}
    BY <1>4, <1>10 DEF Tiles
  <2>. QED
    BY <2>1, <2>2, <2>3, <2>4
<1>. QED
  BY <1>9, <1>10 DEF Exact

(* The updates of A of the supported calls use the strides: they are 1, or  *)
(* the kernel asks for what it takes for granted, or alpha keeps it on the  *)
(* plain loops.                                                             *)
LEMMA GerAddressed ==
  ASSUME CallOK(call), call.routine \in {"sger", "dger"},
         \/ UnitStrides
         \/ call.layout = "row" /\ (call.alpha # "one" \/ K.isa \in {"base", "avx2", "avx512"})
  PROVE  Addressed(Passes, RowStride = 1, ColStride = 1)
<1>1. CASE UnitStrides
  BY <1>1 DEF UnitStrides, Addressed, RowStride, ColStride
<1>2. CASE ~UnitStrides
  <2>1. call.layout = "row" /\ GerOK(K)
    BY <1>2 DEF CallOK, FormOK, K, Gemv
  <2>2. CASE Asks(K) /\ Fast
    <3>1. Passes = K.passes
      BY <2>2 DEF Passes
    <3>2. /\ "row" \in K.fast => RowStride = 1
          /\ "col" \in K.fast => ColStride = 1
      BY <2>2 DEF Fast
    <3>. QED
      BY <2>2, <3>1, <3>2 DEF Asks, Addressed
  <2>3. CASE ~Fast
    BY <2>3, PlainOK DEF Passes
  <2>4. CASE ~Asks(K)
    <3>1. "alpha" \in K.fast /\ call.alpha # "one"
      BY <1>2, <2>1, <2>4 DEF GerOK
    <3>. QED
      BY <2>3, <3>1 DEF Fast
  <2>. QED
    BY <2>2, <2>3, <2>4
<1>. QED
  BY <1>1, <1>2

-----------------------------------------------------------------------------
(* The properties. *)

(* GEMV, for every size, stride, padding, kernel, block size, layout,       *)
(* transposition and number of threads: each product of the operation       *)
(* reaches its element of y, and none twice.                                *)
THEOREM EveryProductOnce == Spec => []GemvExact
<1>1. ASSUME IInv PROVE GemvExact
  <2> SUFFICES ASSUME pc = "done", call.routine \in Gemv, call.alpha # "zero" PROVE Exact
    BY DEF GemvExact
  <2>1. Working /\ ~Stops
    BY DEF Working, Nothing, Stops
  <2>2. CallOK(call)
    BY <1>1 DEF IInv, CallInv
  <2>. QED
    BY <1>1, <2>1, <2>2, GemvAddressed, DoneIsExact DEF CompactCall, Contiguous
<1>. QED
  BY <1>1, WalkInvariant, PTL

(* Whatever the split and the block sizes, the elements of y are scaled     *)
(* once each, and no product is added before.                               *)
THEOREM EveryElementScaledOnce == Spec => []BetaOnce
<1>1. ASSUME IInv PROVE BetaOnce
  <2> SUFFICES ASSUME pc = "done", call.routine \in Gemv, call.beta # "one"
               PROVE  /\ ~again
                      /\ scaled = Elements(IF call.trans = "no" THEN call.m ELSE call.n, call.incy)
    BY Zenon DEF BetaOnce, Elements
  <2>1. Working
    BY DEF Working, Nothing
  <2>2. CallOK(call) /\ ShareOK(call, part, args) /\ part = Shares(call) /\ BetaOK
    BY <1>1, <2>1 DEF IInv, CallInv, ShareInv, BetaInv
  <2>3. args.row + args.m = call.rows /\ args.col + args.n = call.cols
    BY <2>2, ShareFacts
  <2>4. ~again /\ scaled = BehindBeta
    BY <2>2 DEF BetaOK
  <2>5. BetaRows = call.rows /\ BetaCols = call.cols
    BY <2>3 DEF BetaRows, BetaCols
  <2>6. CASE K.form = "dot"
    <3>1. scaled = Elements(call.rows, RowStride)
      BY <2>4, <2>5, <2>6 DEF BehindBeta
    <3>2. call.along = "y"
      BY <2>2, <2>6 DEF CallOK, FormOK, K, Gemv
    <3>3. RowStride = call.incy /\ call.rows = IF call.trans = "no" THEN call.m ELSE call.n
      BY <2>2, <3>2 DEF CallOK, OperandsOK, Contiguous, RowStride
    <3>. QED
      BY <2>4, <3>1, <3>3
  <2>7. CASE K.form # "dot"
    <3>1. scaled = Elements(call.cols, ColStride)
      BY <2>4, <2>5, <2>7 DEF BehindBeta
    <3>2. call.along = "x"
      BY <2>2, <2>7 DEF CallOK, FormOK, K, Gemv
    <3>3. ColStride = call.incy /\ call.cols = IF call.trans = "no" THEN call.m ELSE call.n
      BY <2>2, <3>2 DEF CallOK, OperandsOK, Contiguous, ColStride
    <3>. QED
      BY <2>4, <3>1, <3>3
  <2>. QED
    BY <2>6, <2>7
<1>. QED
  BY <1>1, WalkInvariant, PTL

(* beta = 0 makes no kernel but the base ones of the dot form read y.       *)
THEOREM ClearedBeforeRead == Spec => []BetaZeroClears
<1>1. IInv => BetaZeroClears
  BY DEF IInv, BetaInv, BetaOK, BetaZeroClears, Working
<1>. QED
  BY <1>1, WalkInvariant, PTL

(* GER, on the strides and layouts that the code supports: A gets every     *)
(* product once.                                                            *)
THEOREM EveryUpdateOnce == Spec => []GerExact
<1>1. ASSUME IInv PROVE GerExact
  <2> SUFFICES ASSUME pc = "done", call.routine \in {"sger", "dger"}, call.alpha # "zero",
                      \/ UnitStrides
                      \/ /\ call.layout = "row"
                         /\ call.alpha # "one" \/ K.isa \in {"base", "avx2", "avx512"},
                      call.layout = "col" => call.lda = call.m
               PROVE  Exact
    BY DEF GerExact
  <2>1. Working /\ ~Stops
    BY DEF Working, Nothing, Stops
  <2>2. CallOK(call)
    BY <1>1 DEF IInv, CallInv
  <2>3. CompactCall
    BY DEF CompactCall, Contiguous
  <2>. QED
    BY <1>1, <2>1, <2>2, <2>3, GerAddressed, DoneIsExact
<1>. QED
  BY <1>1, WalkInvariant, PTL
=============================================================================
