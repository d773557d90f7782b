---------------------------- MODULE GemmKernels ----------------------------
(****************************************************************************)
(* The GEMM kernels as data.  A kernel packs B into panels of columns, then *)
(* takes the rows of its block in strips: it packs a strip of A and runs a  *)
(* micro-kernel over every panel; the columns left over, and the rows too   *)
(* few for a strip, are computed from A and B as they lie.  Module Gemm     *)
(* executes them.                                                           *)
(*                                                                          *)
(* Every kernel, micro-kernel and packing function is one definition named  *)
(* after the C function; where two files use one name for their static      *)
(* functions, the isa is added.                                             *)
(****************************************************************************)
EXTENDS Integers, Sequences, CpuFeatures

(* rows x cols elements of C at a time; the depth loop takes `unroll' steps *)
(* an iteration, and a second loop the rest of them.                        *)
Micro(rows, cols, unroll) == [rows |-> rows, cols |-> cols, unroll |-> unroll]

AddDot   == Micro(1, 1, 1)
AddDot_d == Micro(1, 1, 1)

AddDot4x4_base == Micro(4, 4, 1)
AddDot4x4_sse  == Micro(4, 4, 1)
AddDot4x8_avx  == Micro(4, 8, 1)
AddDot6x16_fma == Micro(6, 16, 4)
AddDot4x16_fma == Micro(4, 16, 2)
AddDot2x16_fma == Micro(2, 16, 1)
AddDot1x16_fma == Micro(1, 16, 1)
AddDot8x12_neon == Micro(8, 12, 4)
AddDot4x12_neon == Micro(4, 12, 2)
AddDot2x2_dgemm_sse  == Micro(2, 2, 1)
AddDot4x4_dgemm_avx  == Micro(4, 4, 1)
AddDot6x8_dgemm_fma  == Micro(6, 8, 2)
AddDot4x8_dgemm_neon == Micro(4, 8, 2)

(* One column of C from a packed strip of A. *)
AddDot8x1col_neon   == Micro(8, 1, 1)
AddDot4x1col_neon   == Micro(4, 1, 1)
AddDot4x1col_d_neon == Micro(4, 1, 1)

-----------------------------------------------------------------------------
(* Packing, `width' elements for each step of the depth.  Copy: they are    *)
(* neighbours, the steps ld apart.  Gather: they are ld apart, the steps    *)
(* are neighbours.                                                          *)
Copy(width)   == [width |-> width, gather |-> FALSE]
Gather(width) == [width |-> width, gather |-> TRUE]

(* The element that goes to index x of the packed panel, from its first.    *)
PackedFrom(form, ld, x) ==
  LET w == form.width
  IN  IF form.gather THEN (x % w) * ld + (x \div w)
                     ELSE (x \div w) * ld + (x % w)

PackMatrixA_base       == Gather(4)
PackMatrixA_trans_base == Copy(4)
PackMatrixB_base       == Copy(4)
PackMatrixB_trans_base == Gather(4)

PackMatrixA_sse       == Gather(4)
PackMatrixA_trans_sse == Copy(4)
PackMatrixB_sse       == Copy(4)
PackMatrixB_trans_sse == Gather(4)

PackMatrixA_2_d       == Gather(2)
PackMatrixA_2_d_trans == Copy(2)
PackMatrixB_2_d       == Copy(2)
PackMatrixB_2_d_trans == Gather(2)

PackMatrixA_4_avx       == Gather(4)
PackMatrixA_4_trans_avx == Copy(4)
PackMatrixB_8           == Copy(8)
PackMatrixB_8_trans     == Gather(8)

PackMatrixA_4_d_avx       == Gather(4)
PackMatrixA_4_d_trans_avx == Copy(4)
PackMatrixB_4_d           == Copy(4)
PackMatrixB_4_d_trans     == Gather(4)

PackMatrixA_6       == Gather(6)
PackMatrixA_6_trans == Copy(6)
PackMatrixA_4_wide       == Gather(4)
PackMatrixA_4_wide_trans == Copy(4)
PackMatrixA_2       == Gather(2)
PackMatrixA_2_trans == Copy(2)
PackMatrixA_1       == Gather(1)
PackMatrixA_1_trans == Copy(1)
PackMatrixB_16       == Copy(16)
PackMatrixB_16_trans == Gather(16)

PackMatrixA_6_d       == Gather(6)
PackMatrixA_6_d_trans == Copy(6)
PackMatrixB_8_d_fma       == Copy(8)
PackMatrixB_8_d_trans_fma == Gather(8)

PackMatrixA_8       == Gather(8)
PackMatrixA_8_trans == Copy(8)
PackMatrixA_4_neon       == Gather(4)
PackMatrixA_4_trans_neon == Copy(4)
PackMatrixB_12       == Copy(12)
PackMatrixB_12_trans == Gather(12)

PackMatrixA_4_d_neon       == Gather(4)
PackMatrixA_4_d_trans_neon == Copy(4)
PackMatrixB_8_d_neon       == Copy(8)
PackMatrixB_8_d_trans_neon == Gather(8)

-----------------------------------------------------------------------------
(* Strips of micro.rows rows, as many as fit ("all") or at most one         *)
(* ("one"); pack and packT pack A, `left' takes the columns left over: a    *)
(* scalar AddDot element by element, or a column at a time from packed A.   *)
Strip(many, micro, pack, packT, left) ==
  [many |-> many, micro |-> micro, pack |-> pack, packT |-> packT, left |-> left]

(* Rows computed element by element: no column goes to a micro-kernel.      *)
NoPack == Copy(0)
Rows(left) == Strip("all", Micro(1, 0, 1), NoPack, NoPack, left)

Kernel(routine, packB, packBT, strips) ==
  [routine |-> routine, packB |-> packB, packBT |-> packBT, strips |-> strips]

sgemm_k_base == Kernel("sgemm", PackMatrixB_base, PackMatrixB_trans_base,
  <<Strip("all", AddDot4x4_base, PackMatrixA_base, PackMatrixA_trans_base, AddDot),
    Rows(AddDot)>>)
dgemm_k_base == Kernel("dgemm", NoPack, NoPack, <<Rows(AddDot_d)>>)

sgemm_k_sse == Kernel("sgemm", PackMatrixB_sse, PackMatrixB_trans_sse,
  <<Strip("all", AddDot4x4_sse, PackMatrixA_sse, PackMatrixA_trans_sse, AddDot),
    Rows(AddDot)>>)
dgemm_k_sse == Kernel("dgemm", PackMatrixB_2_d, PackMatrixB_2_d_trans,
  <<Strip("all", AddDot2x2_dgemm_sse, PackMatrixA_2_d, PackMatrixA_2_d_trans, AddDot_d),
    Rows(AddDot_d)>>)

sgemm_k_avx == Kernel("sgemm", PackMatrixB_8, PackMatrixB_8_trans,
  <<Strip("all", AddDot4x8_avx, PackMatrixA_4_avx, PackMatrixA_4_trans_avx, AddDot),
    Rows(AddDot)>>)
dgemm_k_avx == Kernel("dgemm", PackMatrixB_4_d, PackMatrixB_4_d_trans,
  <<Strip("all", AddDot4x4_dgemm_avx, PackMatrixA_4_d_avx, PackMatrixA_4_d_trans_avx, AddDot_d),
    Rows(AddDot_d)>>)

sgemm_k_fma == Kernel("sgemm", PackMatrixB_16, PackMatrixB_16_trans,
  <<Strip("all", AddDot6x16_fma, PackMatrixA_6, PackMatrixA_6_trans, AddDot),
    Strip("one", AddDot4x16_fma, PackMatrixA_4_wide, PackMatrixA_4_wide_trans, AddDot),
    Strip("one", AddDot2x16_fma, PackMatrixA_2, PackMatrixA_2_trans, AddDot),
    Strip("one", AddDot1x16_fma, PackMatrixA_1, PackMatrixA_1_trans, AddDot)>>)
dgemm_k_fma == Kernel("dgemm", PackMatrixB_8_d_fma, PackMatrixB_8_d_trans_fma,
  <<Strip("all", AddDot6x8_dgemm_fma, PackMatrixA_6_d, PackMatrixA_6_d_trans, AddDot_d),
    Rows(AddDot_d)>>)

sgemm_k_neon == Kernel("sgemm", PackMatrixB_12, PackMatrixB_12_trans,
  <<Strip("all", AddDot8x12_neon, PackMatrixA_8, PackMatrixA_8_trans, AddDot8x1col_neon),
    Strip("one", AddDot4x12_neon, PackMatrixA_4_neon, PackMatrixA_4_trans_neon, AddDot4x1col_neon),
    Rows(AddDot)>>)
dgemm_k_neon == Kernel("dgemm", PackMatrixB_8_d_neon, PackMatrixB_8_d_trans_neon,
  <<Strip("all", AddDot4x8_dgemm_neon, PackMatrixA_4_d_neon, PackMatrixA_4_d_trans_neon,
          AddDot4x1col_d_neon),
    Rows(AddDot_d)>>)

(* The cooperative kernels: one packs B into a buffer the tasks share, the  *)
(* other is the kernel without a panel of B of its own.                     *)
sgemm_pack_b_neon  == [packB |-> PackMatrixB_12, packBT |-> PackMatrixB_12_trans]
dgemm_pack_b_neon  == [packB |-> PackMatrixB_8_d_neon, packBT |-> PackMatrixB_8_d_trans_neon]
sgemm_macro_k_neon == [sgemm_k_neon EXCEPT !.packB = NoPack, !.packBT = NoPack]
dgemm_macro_k_neon == [dgemm_k_neon EXCEPT !.packB = NoPack, !.packBT = NoPack]

-----------------------------------------------------------------------------
(* blas_kernels, the level-3 part. *)
Base3 == [sgemm |-> sgemm_k_base, dgemm |-> dgemm_k_base]
Sse3  == [sgemm |-> sgemm_k_sse, dgemm |-> dgemm_k_sse]
Avx3  == [sgemm |-> sgemm_k_avx, dgemm |-> dgemm_k_avx]
Fma3  == [sgemm |-> sgemm_k_fma, dgemm |-> dgemm_k_fma]
Neon3 == [sgemm |-> sgemm_k_neon, dgemm |-> dgemm_k_neon]
Neon3Shared ==
  [sgemm |-> [pack |-> sgemm_pack_b_neon, macro |-> sgemm_macro_k_neon],
   dgemm |-> [pack |-> dgemm_pack_b_neon, macro |-> dgemm_macro_k_neon]]

(* Both builds' initialisations.  The AVX-512 kernels are not installed.    *)
GemmKernelsOf(f) ==
  IF "neon" \in f THEN Neon3
  ELSE IF {"sse", "fma3"} \subseteq f THEN Fma3
  ELSE IF {"sse", "avx2"} \subseteq f THEN Avx3
  ELSE IF "sse" \in f THEN Sse3
  ELSE Base3
=============================================================================
