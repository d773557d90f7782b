------------------------------ MODULE MCLevel2 ------------------------------
(* Instance of Level2: one processor for every set of kernels.              *)
EXTENDS Level2

MCGer  == {"sger", "dger"}
MCAll  == Gemv \cup MCGer

MCCpus == {
  {}, {"sse"}, {"sse", "avx"}, {"sse", "avx", "avx2"},
  {"sse", "avx", "avx2", "fma3"},
  {"sse", "avx", "avx2", "fma3", "avx512"}, {"neon"}}

MCSystems == {[osxsave |-> TRUE,  xcr0 |-> XCR0_AVX512_STATE]}
=============================================================================
