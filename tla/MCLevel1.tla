------------------------------ MODULE MCLevel1 ------------------------------
(* Instance of Level1: every routine and every kernel of its table.         *)
EXTENDS Level1

MCRoutines == DOMAIN Drivers
MCNorms    == Norms

(* From no vector unit to AVX-512; a virtual machine that masks FMA3; an    *)
(* ARM64 processor.                                                         *)
MCCpus == {
  {}, {"sse"}, {"sse", "avx"}, {"sse", "avx", "avx2"},
  {"sse", "avx", "avx2", "fma3"},
  {"sse", "avx", "avx2", "fma3", "avx512"}, {"neon"}}

(* No XSAVE; the 128-, the 256- and the 512-bit registers saved.            *)
MCSystems == {
  [osxsave |-> FALSE, xcr0 |-> {}],
  [osxsave |-> TRUE,  xcr0 |-> {"xmm"}],
  [osxsave |-> TRUE,  xcr0 |-> {"xmm", "ymm"}],
  [osxsave |-> TRUE,  xcr0 |-> XCR0_AVX512_STATE]}
=============================================================================
