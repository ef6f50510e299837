----------------------------- MODULE CpuFeatures -----------------------------
(***************************************************************************)
(* The tables of compat/sys/simd.h: the features CPUID and the auxiliary   *)
(* vector announce, and what each zfs_*_available() asks for.              *)
(*                                                                         *)
(* A register is the set of its bits that are 1.  The bits CPUID returns   *)
(* are triples <<leaf, register, bit>>, those of the auxiliary vector are  *)
(* pairs <<word, bit>>.                                                    *)
(***************************************************************************)
EXTENDS Isa

(***************************************************************************)
(* CPUID                                                                   *)
(***************************************************************************)
\* The macros _AVX512F_BIT to _SHA_NI_BIT.
BIT ==
  [AVX512F |-> {16}, AVX512CD |-> {16, 28}, AVX512DQ |-> {16, 17},
   AVX512BW |-> {16, 30}, AVX512IFMA |-> {16, 21}, AVX512VBMI |-> {1},
   AVX512PF |-> {16, 26}, AVX512ER |-> {16, 27}, AVX512VL |-> {31},
   AES |-> {25}, PCLMULQDQ |-> {1}, MOVBE |-> {22}, SHA_NI |-> {29}]

Desc(leaf, reg, flag) == {<<leaf, reg, bit>> : bit \in flag}

\* The table cpuid_features[], one row per member of cpuid_inst_sets.
cpuid_features ==
  [SSE |-> Desc(1, "EDX", {25}), SSE2 |-> Desc(1, "EDX", {26}),
   SSE3 |-> Desc(1, "ECX", {0}), SSSE3 |-> Desc(1, "ECX", {9}),
   SSE4_1 |-> Desc(1, "ECX", {19}), SSE4_2 |-> Desc(1, "ECX", {20}),
   OSXSAVE |-> Desc(1, "ECX", {27}), AVX |-> Desc(1, "ECX", {28}),
   AVX2 |-> Desc(7, "EBX", {5}), BMI1 |-> Desc(7, "EBX", {3}),
   BMI2 |-> Desc(7, "EBX", {8}), AVX512F |-> Desc(7, "EBX", BIT.AVX512F),
   AVX512CD |-> Desc(7, "EBX", BIT.AVX512CD), AVX512DQ |-> Desc(7, "EBX", BIT.AVX512DQ),
   AVX512BW |-> Desc(7, "EBX", BIT.AVX512BW), AVX512IFMA |-> Desc(7, "EBX", BIT.AVX512IFMA),
   AVX512VBMI |-> Desc(7, "ECX", BIT.AVX512VBMI), AVX512PF |-> Desc(7, "EBX", BIT.AVX512PF),
   AVX512ER |-> Desc(7, "EBX", BIT.AVX512ER), AVX512VL |-> Desc(7, "EBX", BIT.AVX512ER),
   AES |-> Desc(1, "ECX", BIT.AES), PCLMULQDQ |-> Desc(1, "ECX", BIT.PCLMULQDQ),
   MOVBE |-> Desc(1, "ECX", BIT.MOVBE), SHA_NI |-> Desc(7, "EBX", BIT.SHA_NI)]

\* Mutant: the highest supported leaf is not asked for first.
cpuid_check_feature_AnyLeaf(m, id) ==
  cpuid_features[id] \subseteq (m.words \cup m.junk)

\* A leaf above the highest one returns junk, so it is not read.
cpuid_check_feature(m, id) ==
  /\ \A w \in cpuid_features[id] : m.maxleaf >= w[1]
  /\ cpuid_features[id] \subseteq m.words

XSTATE_SSE_AVX == {1, 2}
XSTATE_AVX512 == {5, 6, 7} \cup XSTATE_SSE_AVX

(***************************************************************************)
(* zfs_*_available() on x86: the CPUID features asked for, in order, and   *)
(* the register state that the operating system must have enabled          *)
(***************************************************************************)
Has(ids, state) == [ids |-> ids, state |-> state]

sse_probes ==
  [sse |-> Has({"SSE"}, {}), sse2 |-> Has({"SSE2"}, {}), sse3 |-> Has({"SSE3"}, {}),
   ssse3 |-> Has({"SSSE3"}, {}), sse4_1 |-> Has({"SSE4_1"}, {}),
   sse4_2 |-> Has({"SSE4_2"}, {})]

avx_probes ==
  [avx |-> Has({"AVX"}, XSTATE_SSE_AVX), avx2 |-> Has({"AVX2"}, XSTATE_SSE_AVX)]

bit_probes ==
  [bmi1 |-> Has({"BMI1"}, {}), bmi2 |-> Has({"BMI2"}, {}), aes |-> Has({"AES"}, {}),
   pclmulqdq |-> Has({"PCLMULQDQ"}, {}), movbe |-> Has({"MOVBE"}, {}),
   shani |-> Has({"SHA_NI"}, {})]

avx512_probes ==
  [avx512f |-> Has({"AVX512F"}, XSTATE_AVX512), avx512cd |-> Has({"AVX512CD"}, XSTATE_AVX512),
   avx512er |-> Has({"AVX512ER"}, XSTATE_AVX512), avx512pf |-> Has({"AVX512PF"}, XSTATE_AVX512),
   avx512bw |-> Has({"AVX512BW"}, XSTATE_AVX512), avx512dq |-> Has({"AVX512DQ"}, XSTATE_AVX512),
   avx512vl |-> Has({"AVX512VL"}, XSTATE_AVX512), avx512ifma |-> Has({"AVX512IFMA"}, XSTATE_AVX512),
   avx512vbmi |-> Has({"AVX512F", "AVX512VBMI"}, XSTATE_AVX512)]

(***************************************************************************)
(* The auxiliary vector on arm, aarch64 and powerpc                        *)
(***************************************************************************)
\* What the constants HWCAP_*, HWCAP2_* and PPC_FEATURE* stand for.
HWCAP == [NEON |-> <<"AT_HWCAP", 12>>, FP |-> <<"AT_HWCAP", 0>>, SHA2 |-> <<"AT_HWCAP", 6>>,
          SHA512 |-> <<"AT_HWCAP", 21>>, ALTIVEC |-> <<"AT_HWCAP", 28>>,
          VSX |-> <<"AT_HWCAP", 7>>]
HWCAP2 == [SHA2 |-> <<"AT_HWCAP2", 3>>, ARCH_2_07 |-> <<"AT_HWCAP2", 31>>]

\* A call that fails yields no bits.
getauxval(m, key) == IF m.auxerr THEN {} ELSE {w \in m.words : w[1] = key}

\* The probes of one branch: the word that is read and the bit that is tested.
arm_probes == [neon |-> {HWCAP.NEON}, sha256 |-> {<<"AT_HWCAP", HWCAP2.SHA2[2]>>}]

aarch64_probes ==
  [neon |-> {HWCAP.FP}, sha256 |-> {HWCAP.SHA2}, sha512 |-> {HWCAP.SHA512}]

powerpc_probes ==
  [altivec |-> {HWCAP.ALTIVEC}, vsx |-> {HWCAP.VSX},
   isa207 |-> {HWCAP.VSX, HWCAP2.ARCH_2_07}]

\* Which branch of simd.h isa_defs.h has selected.
simd_branch(defs) ==
  IF "__x86" \in defs THEN "x86"
  ELSE IF "__arm__" \in defs THEN "arm"
  ELSE IF "__aarch64__" \in defs THEN "aarch64"
  ELSE IF "__powerpc__" \in defs THEN "powerpc" ELSE "none"

X86 == {"sse", "avx", "bit", "avx512"}
x86_table ==
  [sse |-> sse_probes, avx |-> avx_probes, bit |-> bit_probes, avx512 |-> avx512_probes]
aux_table ==
  [arm |-> arm_probes, aarch64 |-> aarch64_probes, powerpc |-> powerpc_probes]
=============================================================================
