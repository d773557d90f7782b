---------------------------- MODULE CpuFeatures ----------------------------
(****************************************************************************)
(* What the CPU implements, what the operating system saves, and the        *)
(* feature word that selects the kernels (cpuid_x64.c, cpuid_arm64.c).      *)
(* A feature word is a set of flags; a processor is the set of the flags    *)
(* its CPUID reports; XCR0 is a set of register states.                     *)
(****************************************************************************)
EXTENDS Integers

ARM64 == {"neon", "neon_fma"}

XCR0_AVX_STATE    == {"xmm", "ymm"}
XCR0_AVX512_STATE == {"xmm", "ymm", "opmask", "zmm_hi256", "hi16_zmm"}

(* 0 unless the operating system enabled XSAVE. *)
cpu_get_xcr0(os) == IF os.osxsave THEN os.xcr0 ELSE {}

\* Mutants: the flags are not masked at all; only the 512-bit state is asked for.
x64_features_unmasked(cpu, os) ==
  cpu \cap {"sse", "avx", "fma3", "avx2", "avx512", "hybrid", "htt"}

(* __cpu_get_features of the x64 build, its masks at the end included.      *)
x64_features(cpu, os) ==
  LET flags   == cpu \cap {"sse", "avx", "fma3", "avx2", "avx512", "hybrid", "htt"}
      xcr0    == cpu_get_xcr0(os)
      noAvx   == IF XCR0_AVX_STATE \subseteq xcr0 THEN {}
                 ELSE {"avx", "avx2", "fma3", "avx512"}
      noZmm   == IF XCR0_AVX512_STATE \subseteq xcr0 THEN {} ELSE {"avx512"}
  IN  flags \ (noAvx \cup noZmm)

(* __cpu_get_features of the ARM64 build asks nobody. *)
arm64_features(cpu, os) == ARM64

cpu_get_features(cpu, os) ==
  IF "neon" \in cpu THEN arm64_features(cpu, os) ELSE x64_features(cpu, os)

-----------------------------------------------------------------------------
(* The instructions a kernel file may hold, from the flags it is built with *)
(* (the compiler may use any of them anywhere in the file), and those that  *)
(* run without a fault.                                                     *)
Needs(isa) ==
  CASE isa = "base"   -> {}
    [] isa = "sse"    -> {"sse"}
    [] isa = "avx"    -> {"avx"}
    [] isa = "avx2"   -> {"avx", "avx2"}
    [] isa = "fma"    -> {"avx", "avx2", "fma3"}
    [] isa = "avx512" -> {"avx", "avx2", "fma3", "avx512"}
    [] isa = "neon"   -> {"neon"}

Runs(cpu, os) ==
  LET xcr0 == cpu_get_xcr0(os)
  IN  {f \in cpu :
         /\ f \in {"avx", "avx2", "fma3", "avx512"} => XCR0_AVX_STATE \subseteq xcr0
         /\ f = "avx512" => XCR0_AVX512_STATE \subseteq xcr0}

(* A processor under an operating system: what the library thinks it can    *)
(* use and what it can use.                                                 *)
Host(cpu, os) == [features |-> cpu_get_features(cpu, os), runs |-> Runs(cpu, os)]
=============================================================================
