--------------------------- MODULE MatrixKernels ---------------------------
(****************************************************************************)
(* The level-2 kernels as data: how each one walks the stored matrix.  A    *)
(* kernel takes the rows in passes; a pass sweeps the columns by loops of   *)
(* decreasing width, each going on where the one before stopped.  Module    *)
(* Level2 executes them.                                                    *)
(*                                                                          *)
(* Every kernel is one definition named after the C function it stands for; *)
(* the functions that gemv_k_x86.h generates twice have one for each isa.   *)
(****************************************************************************)
EXTENDS Integers, Sequences, CpuFeatures

(* `step' columns an iteration.  until, for the column col and n columns:   *)
(*   "rounded" : while col < (n / step) * step   (n & ~(step - 1))          *)
(*   "fits"    : while col + step <= n           "once" : at most one time  *)
(* row, col: the vector along the rows / the columns of the matrix is       *)
(* addressed with its stride ("inc") or as if that were 1 ("unit").         *)
Cols(step, until, row, col) ==
  [step |-> step, until |-> until, row |-> row, col |-> col]

(* `rows' rows at a time while that many are left. *)
Pass(rows, loops) == [rows |-> rows, loops |-> loops]

(* The plain double loop. *)
Plain == <<Pass(1, <<Cols(1, "fits", "inc", "inc")>>)>>

(* form: "dot" sums a row against x, "axpy" adds rows to y, "ger" updates A.*)
(* fast: what the vectorised passes ask for; without it the passes are      *)
(* Plain.  scale: how y is multiplied by beta: "tested" does not read y for *)
(* beta = 0, "always" does.  stopsAtZero: alpha = 0 returns after scaling.  *)
(* cblock, rblock: the fast passes cut the columns, the plain ones the rows *)
(* into cache blocks.                                                       *)
Kernel(routine, isa, form, fast, passes) ==
  [routine |-> routine, isa |-> isa, form |-> form, fast |-> fast,
   passes |-> passes, scale |-> "tested", stopsAtZero |-> isa # "base",
   cblock |-> form = "axpy" /\ isa # "base",
   rblock |-> form = "ger" /\ isa \in {"sse", "fma", "neon"}]

(* GEMV: the vector along the rows keeps its stride, the other one is 1.    *)
Wide(step) == Cols(step, "rounded", "inc", "unit")
Rest       == Cols(1, "fits", "inc", "unit")
Dot(routine, isa, passes)  == Kernel(routine, isa, "dot", {"col"}, passes)
Axpy(routine, isa, passes) == Kernel(routine, isa, "axpy", {"col"}, passes)

-----------------------------------------------------------------------------
(* gemv_k.c *)
sgemv_k_base ==
  [Kernel("sgemv", "base", "dot", {}, Plain) EXCEPT !.scale = "always"]
dgemv_k_base ==
  [Kernel("dgemv", "base", "dot", {}, Plain) EXCEPT !.scale = "always"]
sgemv_t_k_base == Kernel("sgemv", "base", "axpy", {}, Plain)
dgemv_t_k_base == Kernel("dgemv", "base", "axpy", {}, Plain)

(* gemv_k_sse.c *)
sgemv_k_sse == Dot("sgemv", "sse",
  <<Pass(4, <<Wide(8), Wide(4), Rest>>), Pass(1, <<Wide(8), Wide(4), Rest>>)>>)
dgemv_k_sse == Dot("dgemv", "sse",
  <<Pass(4, <<Wide(4), Wide(2), Rest>>), Pass(1, <<Wide(4), Wide(2), Rest>>)>>)
sgemv_t_k_sse == Axpy("sgemv", "sse",
  <<Pass(4, <<Wide(8), Wide(4), Rest>>), Pass(1, <<Wide(4), Rest>>)>>)
dgemv_t_k_sse == Axpy("dgemv", "sse",
  <<Pass(4, <<Wide(4), Wide(2), Rest>>), Pass(1, <<Wide(2), Rest>>)>>)

(* gemv_k_neon.c *)
sgemv_k_neon == Dot("sgemv", "neon",
  <<Pass(4, <<Wide(8), Wide(4), Rest>>), Pass(1, <<Wide(8), Wide(4), Rest>>)>>)
dgemv_k_neon == Dot("dgemv", "neon",
  <<Pass(4, <<Wide(4), Wide(2), Rest>>), Pass(1, <<Wide(4), Wide(2), Rest>>)>>)
sgemv_t_k_neon == Axpy("sgemv", "neon",
  <<Pass(4, <<Wide(8), Wide(4), Rest>>), Pass(1, <<Wide(4), Rest>>)>>)
dgemv_t_k_neon == Axpy("dgemv", "neon",
  <<Pass(4, <<Wide(4), Wide(2), Rest>>), Pass(1, <<Wide(2), Rest>>)>>)

(* gemv_k_x86.h, once for AVX and once for FMA *)
sgemv_k_avx == Dot("sgemv", "avx",
  <<Pass(8, <<Wide(8), Rest>>), Pass(4, <<Wide(16), Wide(8), Rest>>),
    Pass(1, <<Wide(16), Wide(8), Rest>>)>>)
dgemv_k_avx == Dot("dgemv", "avx",
  <<Pass(8, <<Wide(4), Rest>>), Pass(4, <<Wide(8), Wide(4), Rest>>),
    Pass(1, <<Wide(8), Wide(4), Rest>>)>>)
sgemv_t_k_avx == Axpy("sgemv", "avx",
  <<Pass(8, <<Wide(8), Rest>>), Pass(4, <<Wide(16), Wide(8), Rest>>),
    Pass(1, <<Wide(8), Rest>>)>>)
dgemv_t_k_avx == Axpy("dgemv", "avx",
  <<Pass(8, <<Wide(4), Rest>>), Pass(4, <<Wide(8), Wide(4), Rest>>),
    Pass(1, <<Wide(4), Rest>>)>>)
sgemv_k_fma   == [sgemv_k_avx EXCEPT !.isa = "fma"]
dgemv_k_fma   == [dgemv_k_avx EXCEPT !.isa = "fma"]
sgemv_t_k_fma == [sgemv_t_k_avx EXCEPT !.isa = "fma"]
dgemv_t_k_fma == [dgemv_t_k_avx EXCEPT !.isa = "fma"]

-----------------------------------------------------------------------------
(* GER.  The vector blocks take neighbouring elements of x and y.  In the   *)
(* single-precision kernels the columns left over walk x by xr++, in the    *)
(* double-precision ones by &X(row + i + 1).                                *)
Block(step)  == Cols(step, "fits", "unit", "unit")
AddProd4x4_SSE     == Block(4)
AddProd2x2_SSE_d   == Block(2)
AddProd4x4_FMA     == Block(4)
AddProd2x2_FMA_d   == Block(2)
AddProd4x4_NEON    == Block(4)
AddProd2x2_NEON_d  == Block(2)
AddProd4x8_AVX     == Block(8)
AddProd2x4_AVX_d   == Block(4)
AddProd16x4_AVX512 == Block(16)
AddProd8x4_AVX512_d == Block(8)
Half(step)   == Cols(step, "once", "unit", "unit")
Strided      == Cols(1, "fits", "inc", "inc")
StepX        == Cols(1, "fits", "unit", "inc")

sger_k_base == Kernel("sger", "base", "ger", {}, Plain)
dger_k_base == Kernel("dger", "base", "ger", {}, Plain)
sger_k_sse == Kernel("sger", "sse", "ger", {"alpha"},
  <<Pass(4, <<AddProd4x4_SSE, StepX>>), Pass(1, <<Strided>>)>>)
dger_k_sse == Kernel("dger", "sse", "ger", {"alpha"},
  <<Pass(2, <<AddProd2x2_SSE_d, Strided>>), Pass(1, <<Strided>>)>>)
sger_k_fma == Kernel("sger", "fma", "ger", {"alpha"},
  <<Pass(4, <<AddProd4x4_FMA, StepX>>), Pass(1, <<Strided>>)>>)
dger_k_fma == Kernel("dger", "fma", "ger", {"alpha"},
  <<Pass(2, <<AddProd2x2_FMA_d, Strided>>), Pass(1, <<Strided>>)>>)
sger_k_neon == Kernel("sger", "neon", "ger", {"alpha"},
  <<Pass(4, <<AddProd4x4_NEON, StepX>>), Pass(1, <<Strided>>)>>)
dger_k_neon == Kernel("dger", "neon", "ger", {"alpha"},
  <<Pass(2, <<AddProd2x2_NEON_d, Strided>>), Pass(1, <<Strided>>)>>)
\* Mutant: the stride of y is not asked for.
sger_k_avx_any_y == Kernel("sger", "avx2", "ger", {"alpha", "row"},
  <<Pass(4, <<AddProd4x8_AVX, AddProd4x4_SSE, Block(1)>>), Pass(1, <<Block(1)>>)>>)
sger_k_avx == Kernel("sger", "avx2", "ger", {"alpha", "row", "col"},
  <<Pass(4, <<AddProd4x8_AVX, AddProd4x4_SSE, Block(1)>>), Pass(1, <<Block(1)>>)>>)
dger_k_avx == Kernel("dger", "avx2", "ger", {"alpha", "row", "col"},
  <<Pass(2, <<AddProd2x4_AVX_d, AddProd2x2_SSE_d, Block(1)>>), Pass(1, <<Block(1)>>)>>)
sger_k_avx512 == Kernel("sger", "avx512", "ger", {"alpha", "row", "col"},
  <<Pass(4, <<AddProd16x4_AVX512, Half(8), Block(1)>>), Pass(1, <<Block(1)>>)>>)
dger_k_avx512 == Kernel("dger", "avx512", "ger", {"alpha", "row", "col"},
  <<Pass(4, <<AddProd8x4_AVX512_d, Half(4), Block(1)>>), Pass(1, <<Block(1)>>)>>)

-----------------------------------------------------------------------------
(* blas_kernels, the level-2 part: _k of GER, _k and _t_k of GEMV. *)
Base2 == [sger |-> sger_k_base, dger |-> dger_k_base,
          sgemv |-> sgemv_k_base, dgemv |-> dgemv_k_base,
          sgemv_t |-> sgemv_t_k_base, dgemv_t |-> dgemv_t_k_base]
Sse2 == [sger |-> sger_k_sse, dger |-> dger_k_sse,
         sgemv |-> sgemv_k_sse, dgemv |-> dgemv_k_sse,
         sgemv_t |-> sgemv_t_k_sse, dgemv_t |-> dgemv_t_k_sse]
(* Built with -mavx alone, so that AVX without AVX2 is enough. *)
Avx2  == [sgemv |-> sgemv_k_avx, dgemv |-> dgemv_k_avx,
          sgemv_t |-> sgemv_t_k_avx, dgemv_t |-> dgemv_t_k_avx]
AvxGer2 == [sger |-> sger_k_avx, dger |-> dger_k_avx]
Fma2 == [sger |-> sger_k_fma, dger |-> dger_k_fma,
         sgemv |-> sgemv_k_fma, dgemv |-> dgemv_k_fma,
         sgemv_t |-> sgemv_t_k_fma, dgemv_t |-> dgemv_t_k_fma]
Avx512Ger2 == [sger |-> sger_k_avx512, dger |-> dger_k_avx512]
Neon2 == [sger |-> sger_k_neon, dger |-> dger_k_neon,
          sgemv |-> sgemv_k_neon, dgemv |-> dgemv_k_neon,
          sgemv_t |-> sgemv_t_k_neon, dgemv_t |-> dgemv_t_k_neon]

Over(kernels, present, below) ==
  [r \in DOMAIN below |->
     IF present /\ r \in DOMAIN kernels THEN kernels[r] ELSE below[r]]

(* Both builds' initialisations: a later assignment replaces an earlier.    *)
MatrixKernelsOf(f) ==
  IF "neon" \in f THEN Over(Neon2, TRUE, Base2)
  ELSE Over(Avx512Ger2, {"sse", "avx512"} \subseteq f,
       Over(Fma2, {"sse", "fma3"} \subseteq f,
       Over(AvxGer2, {"sse", "avx2"} \subseteq f,
       Over(Avx2, {"sse", "avx"} \subseteq f,
       Over(Sse2, "sse" \in f, Base2)))))
=============================================================================
