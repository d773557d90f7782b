------------------------------- MODULE MCGemm -------------------------------
(* Instance of Gemm: one processor for every set of kernels. *)
EXTENDS Gemm

MCCpus == {
  {}, {"sse"}, {"sse", "avx", "avx2"}, {"sse", "avx", "avx2", "fma3"}, {"neon"}}

MCSystems == {[osxsave |-> TRUE, xcr0 |-> XCR0_AVX512_STATE]}

MCShapes == {<<13, 33, 7>>, <<5, 3, 3>>, <<9, 8, 5>>}
MCScarceShapes == {<<8, 13, 7>>}
=============================================================================
