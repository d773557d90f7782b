--------------------------- MODULE VectorKernels ---------------------------
(****************************************************************************)
(* The level-1 kernels as data: which elements each loop of a kernel takes, *)
(* under which condition, and into which accumulators and lanes a reduction *)
(* adds them.  A kernel is a list of instructions; module Level1 executes   *)
(* them.  The arithmetic on an element is left out, its place is not.       *)
(*                                                                          *)
(* Every kernel is one definition named after the C function it stands for. *)
(****************************************************************************)
EXTENDS Integers, Sequences, CpuFeatures

(* One loop: `step' elements per iteration, as vectors of `lanes' elements  *)
(* that start at i + at[v] and are added to accumulator into[v].            *)
(* The loop goes on while, with until =                                     *)
(*   "fits"    : i + step <= n        "below" : i + step < n                *)
(*   "rounded" : i < (n / step) * step                                      *)
Loop(step, lanes, at) ==
  [do |-> "loop", step |-> step, lanes |-> lanes, at |-> at,
   into |-> [v \in DOMAIN at |-> 0], until |-> "fits"]

(* The unrolled loop over four vectors, the loop over one, the scalar loop. *)
Unrolled(lanes) == Loop(4 * lanes, lanes, <<0, lanes, 2 * lanes, 3 * lanes>>)
Single(lanes)   == Loop(lanes, lanes, <<0>>)
Scalar          == Single(1)

Rounded(loop)   == [loop EXCEPT !.until = "rounded"]
Below(loop)     == [loop EXCEPT !.until = "below"]

(* Reductions: each vector has an accumulator of its own; the accumulators  *)
(* are added into the first; its upper half onto its lower half (a 512 or   *)
(* 256-bit register narrowed); its lanes into the scalar `total'; elements  *)
(* added to the scalar directly; the square root of the scalar.             *)
Total           == 4
Separate(loop)  == [loop EXCEPT !.into = <<0, 1, 2, 3>>]
AddVectors      == [do |-> "add"]
Halve(lanes)    == [do |-> "halve", lanes |-> lanes]
SumLanes(lanes) == [do |-> "sum", lanes |-> lanes]
Leftover          == [Scalar EXCEPT !.into = <<Total>>]
Root            == [do |-> "root"]

(* strides "unit": x and y are walked by 1 whatever incx and incy say.      *)
Unit(routine, isa, code) ==
  [routine |-> routine, isa |-> isa, strides |-> "unit", code |-> code]
Strided(routine, code) ==
  [routine |-> routine, isa |-> "base", strides |-> "any", code |-> code]

-----------------------------------------------------------------------------
(* y = alpha x + y and y = alpha x + beta y. *)
cblas_saxpy_k == Strided("saxpy", <<Scalar>>)
cblas_saxpy_k_noinc ==
  Unit("saxpy", "base", <<Unrolled(1), Scalar>>)
cblas_daxpy_k == Strided("daxpy", <<Scalar>>)
cblas_daxpy_k_noinc ==
  Unit("daxpy", "base", <<Unrolled(1), Scalar>>)
cblas_saxpy_k_noinc_sse ==
  Unit("saxpy", "sse", <<Unrolled(4), Single(4), Scalar>>)
cblas_daxpy_k_noinc_sse ==
  Unit("daxpy", "sse", <<Unrolled(2), Single(2), Scalar>>)
cblas_saxpy_k_noinc_avx ==
  Unit("saxpy", "avx2", <<Unrolled(8), Single(8), Single(4), Scalar>>)
cblas_daxpy_k_noinc_avx ==
  Unit("daxpy", "avx2", <<Unrolled(4), Single(4), Single(2), Scalar>>)
cblas_saxpy_k_noinc_fma ==
  Unit("saxpy", "fma", <<Unrolled(8), Single(8), Single(4), Scalar>>)
cblas_daxpy_k_noinc_fma ==
  Unit("daxpy", "fma", <<Unrolled(4), Single(4), Single(2), Scalar>>)
cblas_saxpy_k_noinc_avx512 ==
  Unit("saxpy", "avx512", <<Unrolled(16), Single(16), Single(8), Scalar>>)
cblas_daxpy_k_noinc_avx512 ==
  Unit("daxpy", "avx512", <<Unrolled(8), Single(8), Single(4), Scalar>>)
cblas_saxpy_k_noinc_neon ==
  Unit("saxpy", "neon", <<Unrolled(4), Single(4), Scalar>>)
cblas_daxpy_k_noinc_neon ==
  Unit("daxpy", "neon", <<Unrolled(2), Single(2), Scalar>>)
cblas_saxpby_k == Strided("saxpby", <<Scalar>>)
cblas_saxpby_k_noinc ==
  Unit("saxpby", "base", <<Rounded(Unrolled(1)), Scalar>>)
cblas_daxpby_k == Strided("daxpby", <<Scalar>>)
cblas_daxpby_k_noinc ==
  Unit("daxpby", "base", <<Rounded(Unrolled(1)), Scalar>>)
cblas_saxpby_k_noinc_sse ==
  Unit("saxpby", "sse", <<Unrolled(4), Single(4), Scalar>>)
cblas_daxpby_k_noinc_sse ==
  Unit("daxpby", "sse", <<Unrolled(2), Single(2), Scalar>>)
cblas_saxpby_k_noinc_avx ==
  Unit("saxpby", "avx2", <<Unrolled(8), Single(8), Single(4), Scalar>>)
cblas_daxpby_k_noinc_avx ==
  Unit("daxpby", "avx2", <<Unrolled(4), Single(4), Single(2), Scalar>>)
cblas_saxpby_k_noinc_fma ==
  Unit("saxpby", "fma", <<Unrolled(8), Single(8), Single(4), Scalar>>)
cblas_daxpby_k_noinc_fma ==
  Unit("daxpby", "fma", <<Unrolled(4), Single(4), Single(2), Scalar>>)
cblas_saxpby_k_noinc_neon ==
  Unit("saxpby", "neon", <<Unrolled(4), Single(4), Scalar>>)
cblas_daxpby_k_noinc_neon ==
  Unit("daxpby", "neon", <<Unrolled(2), Single(2), Scalar>>)
-----------------------------------------------------------------------------
(* y = x: no loop over single vectors. *)
cblas_scopy_k == Strided("scopy", <<Scalar>>)
cblas_scopy_k_noinc ==
  Unit("scopy", "base", <<Unrolled(1), Scalar>>)
cblas_dcopy_k == Strided("dcopy", <<Scalar>>)
cblas_dcopy_k_noinc ==
  Unit("dcopy", "base", <<Unrolled(1), Scalar>>)
cblas_scopy_k_noinc_sse ==
  Unit("scopy", "sse", <<Unrolled(4), Scalar>>)
cblas_dcopy_k_noinc_sse ==
  Unit("dcopy", "sse", <<Unrolled(2), Scalar>>)
cblas_scopy_k_noinc_avx ==
  Unit("scopy", "avx2", <<Unrolled(8), Scalar>>)
cblas_dcopy_k_noinc_avx ==
  Unit("dcopy", "avx2", <<Unrolled(4), Scalar>>)
cblas_scopy_k_noinc_neon ==
  Unit("scopy", "neon", <<Below(Unrolled(4)), Scalar>>)
cblas_dcopy_k_noinc_neon ==
  Unit("dcopy", "neon", <<Unrolled(2), Scalar>>)
-----------------------------------------------------------------------------
(* x = alpha x; only the AVX-512 kernel has a half-width loop. *)
cblas_sscal_k == Strided("sscal", <<Scalar>>)
cblas_sscal_k_noinc ==
  Unit("sscal", "base", <<Unrolled(1), Scalar>>)
cblas_dscal_k == Strided("dscal", <<Scalar>>)
cblas_dscal_k_noinc ==
  Unit("dscal", "base", <<Unrolled(1), Scalar>>)
cblas_sscal_k_noinc_sse ==
  Unit("sscal", "sse", <<Unrolled(4), Single(4), Scalar>>)
cblas_dscal_k_noinc_sse ==
  Unit("dscal", "sse", <<Unrolled(2), Single(2), Scalar>>)
cblas_sscal_k_noinc_avx ==
  Unit("sscal", "avx2", <<Unrolled(8), Single(8), Scalar>>)
cblas_dscal_k_noinc_avx ==
  Unit("dscal", "avx2", <<Unrolled(4), Single(4), Scalar>>)
cblas_sscal_k_noinc_avx512 ==
  Unit("sscal", "avx512", <<Unrolled(16), Single(16), Single(8), Scalar>>)
cblas_dscal_k_noinc_avx512 ==
  Unit("dscal", "avx512", <<Unrolled(8), Single(8), Single(4), Scalar>>)
cblas_sscal_k_noinc_neon ==
  Unit("sscal", "neon", <<Unrolled(4), Single(4), Scalar>>)
cblas_dscal_k_noinc_neon ==
  Unit("dscal", "neon", <<Unrolled(2), Single(2), Scalar>>)
-----------------------------------------------------------------------------
(* x = v, x <-> y and the plane rotation. *)
cblas_ssetv_k == Strided("ssetv", <<Scalar>>)
cblas_ssetv_k_noinc ==
  Unit("ssetv", "base", <<Unrolled(1), Scalar>>)
cblas_dsetv_k == Strided("dsetv", <<Scalar>>)
cblas_dsetv_k_noinc ==
  Unit("dsetv", "base", <<Unrolled(1), Scalar>>)
cblas_ssetv_k_noinc_sse ==
  Unit("ssetv", "sse", <<Unrolled(4), Single(4), Scalar>>)
cblas_dsetv_k_noinc_sse ==
  Unit("dsetv", "sse", <<Unrolled(2), Single(2), Scalar>>)
cblas_ssetv_k_noinc_avx ==
  Unit("ssetv", "avx2", <<Unrolled(8), Single(8), Scalar>>)
cblas_dsetv_k_noinc_avx ==
  Unit("dsetv", "avx2", <<Unrolled(4), Single(4), Scalar>>)
cblas_ssetv_k_noinc_neon ==
  Unit("ssetv", "neon", <<Unrolled(4), Single(4), Scalar>>)
cblas_dsetv_k_noinc_neon ==
  Unit("dsetv", "neon", <<Unrolled(2), Single(2), Scalar>>)
cblas_sswap_k == Strided("sswap", <<Scalar>>)
cblas_sswap_k_noinc ==
  Unit("sswap", "base", <<Unrolled(1), Scalar>>)
cblas_dswap_k == Strided("dswap", <<Scalar>>)
cblas_dswap_k_noinc ==
  Unit("dswap", "base", <<Unrolled(1), Scalar>>)
cblas_sswap_k_noinc_sse ==
  Unit("sswap", "sse", <<Unrolled(4), Single(4), Scalar>>)
cblas_dswap_k_noinc_sse ==
  Unit("dswap", "sse", <<Unrolled(2), Single(2), Scalar>>)
cblas_sswap_k_noinc_avx ==
  Unit("sswap", "avx2", <<Unrolled(8), Scalar>>)
cblas_dswap_k_noinc_avx ==
  Unit("dswap", "avx2", <<Unrolled(4), Scalar>>)
cblas_sswap_k_noinc_neon ==
  Unit("sswap", "neon", <<Unrolled(4), Single(4), Scalar>>)
cblas_dswap_k_noinc_neon ==
  Unit("dswap", "neon", <<Unrolled(2), Single(2), Scalar>>)
cblas_srot_k == Strided("srot", <<Scalar>>)
cblas_srot_k_noinc ==
  Unit("srot", "base", <<Unrolled(1), Scalar>>)
cblas_drot_k == Strided("drot", <<Scalar>>)
cblas_drot_k_noinc ==
  Unit("drot", "base", <<Unrolled(1), Scalar>>)
cblas_srot_k_noinc_sse ==
  Unit("srot", "sse", <<Unrolled(4), Single(4), Scalar>>)
cblas_drot_k_noinc_sse ==
  Unit("drot", "sse", <<Unrolled(2), Single(2), Scalar>>)
cblas_srot_k_noinc_avx ==
  Unit("srot", "avx2", <<Unrolled(8), Single(8), Scalar>>)
cblas_drot_k_noinc_avx ==
  Unit("drot", "avx2", <<Unrolled(4), Single(4), Scalar>>)
cblas_srot_k_noinc_neon ==
  Unit("srot", "neon", <<Unrolled(4), Single(4), Scalar>>)
cblas_drot_k_noinc_neon ==
  Unit("drot", "neon", <<Unrolled(2), Single(2), Scalar>>)
-----------------------------------------------------------------------------
(* The sum of the absolute values: one accumulator in every SIMD kernel. *)
cblas_sasum_k == Strided("sasum", <<Leftover>>)
cblas_sasum_k_noinc ==
  Unit("sasum", "base",
       <<Separate(Unrolled(1)), AddVectors, SumLanes(1), Leftover>>)
cblas_dasum_k == Strided("dasum", <<Leftover>>)
cblas_dasum_k_noinc ==
  Unit("dasum", "base",
       <<Separate(Unrolled(1)), AddVectors, SumLanes(1), Leftover>>)
cblas_sasum_k_noinc_sse ==
  Unit("sasum", "sse", <<Unrolled(4), SumLanes(4), Leftover>>)
cblas_dasum_k_noinc_sse ==
  Unit("dasum", "sse", <<Unrolled(2), SumLanes(2), Leftover>>)
cblas_sasum_k_noinc_avx ==
  Unit("sasum", "avx2", <<Unrolled(8), Halve(8), SumLanes(4), Leftover>>)
cblas_dasum_k_noinc_avx ==
  Unit("dasum", "avx2", <<Unrolled(4), Halve(4), SumLanes(2), Leftover>>)
cblas_sasum_k_noinc_neon ==
  Unit("sasum", "neon", <<Unrolled(4), SumLanes(4), Leftover>>)
cblas_dasum_k_noinc_neon ==
  Unit("dasum", "neon", <<Unrolled(2), SumLanes(2), Leftover>>)
-----------------------------------------------------------------------------
(* The scalar product. *)
cblas_sdot_k == Strided("sdot", <<Leftover>>)
cblas_sdot_k_noinc ==
  Unit("sdot", "base",
       <<Separate(Unrolled(1)), AddVectors, SumLanes(1), Leftover>>)
cblas_ddot_k == Strided("ddot", <<Leftover>>)
cblas_ddot_k_noinc ==
  Unit("ddot", "base",
       <<Separate(Unrolled(1)), AddVectors, SumLanes(1), Leftover>>)
cblas_sdot_k_noinc_sse ==
  Unit("sdot", "sse",
       <<Rounded(Separate(Unrolled(4))), AddVectors, Single(4), SumLanes(4), Leftover>>)
cblas_ddot_k_noinc_sse ==
  Unit("ddot", "sse",
       <<Rounded(Separate(Unrolled(2))), AddVectors, Single(2), SumLanes(2), Leftover>>)
\* Mutant: the upper half of the register is forgotten.
sdot_no_halve ==
  Unit("sdot", "avx2",
       <<Rounded(Separate(Unrolled(8))), AddVectors, Single(8), SumLanes(4),
         Leftover>>)
cblas_sdot_k_noinc_avx ==
  Unit("sdot", "avx2",
       <<Rounded(Separate(Unrolled(8))), AddVectors, Single(8), Halve(8), Single(4), SumLanes(4), Leftover>>)
cblas_ddot_k_noinc_avx ==
  Unit("ddot", "avx2",
       <<Rounded(Separate(Unrolled(4))), AddVectors, Single(4), Halve(4), Single(2), SumLanes(2), Leftover>>)
cblas_sdot_k_noinc_fma ==
  Unit("sdot", "fma",
       <<Rounded(Separate(Unrolled(8))), AddVectors, Single(8), Halve(8), Single(4), SumLanes(4), Leftover>>)
cblas_ddot_k_noinc_fma ==
  Unit("ddot", "fma",
       <<Rounded(Separate(Unrolled(4))), AddVectors, Single(4), Halve(4), Single(2), SumLanes(2), Leftover>>)
cblas_sdot_k_noinc_avx512 ==
  Unit("sdot", "avx512",
       <<Rounded(Separate(Unrolled(16))), AddVectors, Single(16), SumLanes(16), Leftover>>)
cblas_ddot_k_noinc_avx512 ==
  Unit("ddot", "avx512",
       <<Rounded(Separate(Unrolled(8))), AddVectors, Single(8), SumLanes(8), Leftover>>)
cblas_sdot_k_noinc_neon ==
  Unit("sdot", "neon", <<Unrolled(4), Single(4), SumLanes(4), Leftover>>)
cblas_ddot_k_noinc_neon ==
  Unit("ddot", "neon", <<Unrolled(2), Single(2), SumLanes(2), Leftover>>)
-----------------------------------------------------------------------------
(* The Euclidean norm: the kernels take the root themselves. *)
cblas_snrm2_k == Strided("snrm2", <<Leftover, Root>>)
cblas_snrm2_k_noinc ==
  Unit("snrm2", "base",
       <<Separate(Unrolled(1)), AddVectors, SumLanes(1), Leftover, Root>>)
cblas_dnrm2_k == Strided("dnrm2", <<Leftover, Root>>)
cblas_dnrm2_k_noinc ==
  Unit("dnrm2", "base",
       <<Separate(Unrolled(1)), AddVectors, SumLanes(1), Leftover, Root>>)
cblas_snrm2_k_noinc_sse ==
  Unit("snrm2", "sse",
       <<Separate(Unrolled(4)), AddVectors, Single(4), SumLanes(4), Leftover, Root>>)
cblas_dnrm2_k_noinc_sse ==
  Unit("dnrm2", "sse",
       <<Separate(Unrolled(2)), AddVectors, Single(2), SumLanes(2), Leftover, Root>>)
cblas_snrm2_k_noinc_avx ==
  Unit("snrm2", "avx2",
       <<Separate(Unrolled(8)), AddVectors, Single(8), Halve(8), SumLanes(4), Leftover, Root>>)
cblas_dnrm2_k_noinc_avx ==
  Unit("dnrm2", "avx2",
       <<Separate(Unrolled(4)), AddVectors, Single(4), Halve(4), SumLanes(2), Leftover, Root>>)
cblas_snrm2_k_noinc_fma ==
  Unit("snrm2", "fma",
       <<Separate(Unrolled(8)), AddVectors, Single(8), Halve(8), SumLanes(4), Leftover, Root>>)
cblas_dnrm2_k_noinc_fma ==
  Unit("dnrm2", "fma",
       <<Separate(Unrolled(4)), AddVectors, Single(4), Halve(4), SumLanes(2), Leftover, Root>>)
cblas_snrm2_k_noinc_neon ==
  Unit("snrm2", "neon",
       <<Unrolled(4), Single(4), SumLanes(4), Leftover, Root>>)
cblas_dnrm2_k_noinc_neon ==
  Unit("dnrm2", "neon",
       <<Unrolled(2), Single(2), SumLanes(2), Leftover, Root>>)
-----------------------------------------------------------------------------
(* blas_kernels.<routine>_k: never replaced by an instruction set. *)
StridedKernels == [
  sdot |-> cblas_sdot_k,
  ddot |-> cblas_ddot_k,
  sasum |-> cblas_sasum_k,
  dasum |-> cblas_dasum_k,
  scopy |-> cblas_scopy_k,
  dcopy |-> cblas_dcopy_k,
  sswap |-> cblas_sswap_k,
  dswap |-> cblas_dswap_k,
  ssetv |-> cblas_ssetv_k,
  dsetv |-> cblas_dsetv_k,
  srot |-> cblas_srot_k,
  drot |-> cblas_drot_k,
  snrm2 |-> cblas_snrm2_k,
  dnrm2 |-> cblas_dnrm2_k,
  sscal |-> cblas_sscal_k,
  dscal |-> cblas_dscal_k,
  saxpy |-> cblas_saxpy_k,
  daxpy |-> cblas_daxpy_k,
  saxpby |-> cblas_saxpby_k,
  daxpby |-> cblas_daxpby_k]

(* blas_kernels.<routine>_k_noinc, layer by layer as they are assigned. *)
BaseKernels == [
  sdot |-> cblas_sdot_k_noinc,
  ddot |-> cblas_ddot_k_noinc,
  sasum |-> cblas_sasum_k_noinc,
  dasum |-> cblas_dasum_k_noinc,
  scopy |-> cblas_scopy_k_noinc,
  dcopy |-> cblas_dcopy_k_noinc,
  sswap |-> cblas_sswap_k_noinc,
  dswap |-> cblas_dswap_k_noinc,
  ssetv |-> cblas_ssetv_k_noinc,
  dsetv |-> cblas_dsetv_k_noinc,
  srot |-> cblas_srot_k_noinc,
  drot |-> cblas_drot_k_noinc,
  snrm2 |-> cblas_snrm2_k_noinc,
  dnrm2 |-> cblas_dnrm2_k_noinc,
  sscal |-> cblas_sscal_k_noinc,
  dscal |-> cblas_dscal_k_noinc,
  saxpy |-> cblas_saxpy_k_noinc,
  daxpy |-> cblas_daxpy_k_noinc,
  saxpby |-> cblas_saxpby_k_noinc,
  daxpby |-> cblas_daxpby_k_noinc]

SseKernels == [
  sdot |-> cblas_sdot_k_noinc_sse,
  ddot |-> cblas_ddot_k_noinc_sse,
  sasum |-> cblas_sasum_k_noinc_sse,
  dasum |-> cblas_dasum_k_noinc_sse,
  scopy |-> cblas_scopy_k_noinc_sse,
  dcopy |-> cblas_dcopy_k_noinc_sse,
  sswap |-> cblas_sswap_k_noinc_sse,
  dswap |-> cblas_dswap_k_noinc_sse,
  ssetv |-> cblas_ssetv_k_noinc_sse,
  dsetv |-> cblas_dsetv_k_noinc_sse,
  srot |-> cblas_srot_k_noinc_sse,
  drot |-> cblas_drot_k_noinc_sse,
  snrm2 |-> cblas_snrm2_k_noinc_sse,
  dnrm2 |-> cblas_dnrm2_k_noinc_sse,
  sscal |-> cblas_sscal_k_noinc_sse,
  dscal |-> cblas_dscal_k_noinc_sse,
  saxpy |-> cblas_saxpy_k_noinc_sse,
  daxpy |-> cblas_daxpy_k_noinc_sse,
  saxpby |-> cblas_saxpby_k_noinc_sse,
  daxpby |-> cblas_daxpby_k_noinc_sse]

AvxKernels == [
  sdot |-> cblas_sdot_k_noinc_avx,
  ddot |-> cblas_ddot_k_noinc_avx,
  sasum |-> cblas_sasum_k_noinc_avx,
  dasum |-> cblas_dasum_k_noinc_avx,
  scopy |-> cblas_scopy_k_noinc_avx,
  dcopy |-> cblas_dcopy_k_noinc_avx,
  sswap |-> cblas_sswap_k_noinc_avx,
  dswap |-> cblas_dswap_k_noinc_avx,
  ssetv |-> cblas_ssetv_k_noinc_avx,
  dsetv |-> cblas_dsetv_k_noinc_avx,
  srot |-> cblas_srot_k_noinc_avx,
  drot |-> cblas_drot_k_noinc_avx,
  snrm2 |-> cblas_snrm2_k_noinc_avx,
  dnrm2 |-> cblas_dnrm2_k_noinc_avx,
  sscal |-> cblas_sscal_k_noinc_avx,
  dscal |-> cblas_dscal_k_noinc_avx,
  saxpy |-> cblas_saxpy_k_noinc_avx,
  daxpy |-> cblas_daxpy_k_noinc_avx,
  saxpby |-> cblas_saxpby_k_noinc_avx,
  daxpby |-> cblas_daxpby_k_noinc_avx]

FmaKernels == [
  sdot |-> cblas_sdot_k_noinc_fma,
  ddot |-> cblas_ddot_k_noinc_fma,
  snrm2 |-> cblas_snrm2_k_noinc_fma,
  dnrm2 |-> cblas_dnrm2_k_noinc_fma,
  saxpy |-> cblas_saxpy_k_noinc_fma,
  daxpy |-> cblas_daxpy_k_noinc_fma,
  saxpby |-> cblas_saxpby_k_noinc_fma,
  daxpby |-> cblas_daxpby_k_noinc_fma]

Avx512Kernels == [
  sdot |-> cblas_sdot_k_noinc_avx512,
  ddot |-> cblas_ddot_k_noinc_avx512,
  saxpy |-> cblas_saxpy_k_noinc_avx512,
  daxpy |-> cblas_daxpy_k_noinc_avx512,
  sscal |-> cblas_sscal_k_noinc_avx512,
  dscal |-> cblas_dscal_k_noinc_avx512]

NeonKernels == [
  sdot |-> cblas_sdot_k_noinc_neon,
  ddot |-> cblas_ddot_k_noinc_neon,
  sasum |-> cblas_sasum_k_noinc_neon,
  dasum |-> cblas_dasum_k_noinc_neon,
  scopy |-> cblas_scopy_k_noinc_neon,
  dcopy |-> cblas_dcopy_k_noinc_neon,
  sswap |-> cblas_sswap_k_noinc_neon,
  dswap |-> cblas_dswap_k_noinc_neon,
  ssetv |-> cblas_ssetv_k_noinc_neon,
  dsetv |-> cblas_dsetv_k_noinc_neon,
  srot |-> cblas_srot_k_noinc_neon,
  drot |-> cblas_drot_k_noinc_neon,
  snrm2 |-> cblas_snrm2_k_noinc_neon,
  dnrm2 |-> cblas_dnrm2_k_noinc_neon,
  sscal |-> cblas_sscal_k_noinc_neon,
  dscal |-> cblas_dscal_k_noinc_neon,
  saxpy |-> cblas_saxpy_k_noinc_neon,
  daxpy |-> cblas_daxpy_k_noinc_neon,
  saxpby |-> cblas_saxpby_k_noinc_neon,
  daxpby |-> cblas_daxpby_k_noinc_neon]

Layer(kernels, present, below) ==
  [r \in DOMAIN below |->
     IF present /\ r \in DOMAIN kernels THEN kernels[r] ELSE below[r]]

\* Mutant: the FMA layer does not ask for its flag.
init_blas_kernels_fma_always(f) ==
  Layer(Avx512Kernels, {"sse", "avx512"} \subseteq f,
  Layer(FmaKernels, "sse" \in f,
  Layer(AvxKernels, {"sse", "avx2"} \subseteq f,
  Layer(SseKernels, "sse" \in f, BaseKernels))))

(* init_blas_kernels of the x64 build: a later assignment replaces an       *)
(* earlier one, and every layer above the base asks for SSE as well.        *)
init_blas_kernels(f) ==
  Layer(Avx512Kernels, {"sse", "avx512"} \subseteq f,
  Layer(FmaKernels, {"sse", "fma3"} \subseteq f,
  Layer(AvxKernels, {"sse", "avx2"} \subseteq f,
  Layer(SseKernels, "sse" \in f, BaseKernels))))

(* The assignments of __cpu_get_features of the ARM64 build. *)
init_neon_kernels(f) == Layer(NeonKernels, "neon" \in f, BaseKernels)

UnitKernels(f) ==
  IF "neon" \in f THEN init_neon_kernels(f) ELSE init_blas_kernels(f)
=============================================================================
