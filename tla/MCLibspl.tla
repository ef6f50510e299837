------------------------------ MODULE MCLibspl -------------------------------
(***************************************************************************)
(* Targets as gcc and clang predefine them, and processors that have any   *)
(* combination of the bits that the probes tell apart.                     *)
(***************************************************************************)
EXTENDS Libspl

F == INSTANCE CpuFeatures

T(branch, predefined, big, lp, supported) ==
  [branch |-> branch, predefined |-> predefined, big |-> big, lp64 |-> lp,
   supported |-> supported]

\* glibc's <endian.h>, and the BSD spelling of the same
Glibc(cmp) == {"__BYTE_ORDER", "__BIG_ENDIAN", "__LITTLE_ENDIAN", cmp}
Bsd(cmp) == {"_BYTE_ORDER", "_BIG_ENDIAN", "_LITTLE_ENDIAN", cmp}

X86Targets ==
  {T("x86", {"__x86_64", "__x86_64__", "__amd64", F!LP64}, FALSE, TRUE, TRUE),
   T("x86", {"__x86_64__", "__amd64__"}, FALSE, TRUE, TRUE),
   T("x86", {"__x86_64", "__x86_64__", F!ILP32}, FALSE, FALSE, TRUE),
   T("x86", {"__i386__"}, FALSE, FALSE, TRUE)}

PowerTargets ==
  {T("powerpc", {"__powerpc__", "__powerpc64__", F!LP64} \cup Glibc("__BYTE_ORDER == __LITTLE_ENDIAN"), FALSE, TRUE, TRUE),
   T("powerpc", {"__powerpc64__", F!LP64} \cup Glibc("__BYTE_ORDER == __BIG_ENDIAN"), TRUE, TRUE, TRUE),
   T("powerpc", {"__powerpc__"} \cup Bsd("_BYTE_ORDER == _BIG_ENDIAN"), TRUE, FALSE, TRUE),
   T("powerpc", {"__powerpc", "__powerpc64__"} \cup Bsd("_BYTE_ORDER == _LITTLE_ENDIAN"), FALSE, TRUE, TRUE),
   T("powerpc", {"__powerpc__", "_BIG_ENDIAN"}, TRUE, FALSE, TRUE),
   T("powerpc", {"__powerpc__", "__powerpc64__", "_LITTLE_ENDIAN"}, FALSE, TRUE, TRUE),
   T("powerpc", {"__powerpc__"}, TRUE, FALSE, FALSE)}

ArmTargets ==
  {T("arm", {"__arm__", "__ARMEL__"}, FALSE, FALSE, TRUE),
   T("arm", {"__arm", "__arm__", "__ARMEB__", "__ARM_FEATURE_UNALIGNED"}, TRUE, FALSE, TRUE),
   T("aarch64", {"__aarch64__", "__AARCH64EL__", F!LP64}, FALSE, TRUE, TRUE),
   T("aarch64", {"__aarch64__", "__AARCH64EB__", F!LP64}, TRUE, TRUE, TRUE),
   T("aarch64", {"__aarch64__", "__AARCH64EL__", F!ILP32}, FALSE, FALSE, FALSE)}

OtherTargets ==
  {T("none", {"__sparc__", "__arch64__", F!LP64}, TRUE, TRUE, TRUE),
   T("none", {"__sparc", "__sparc__"}, TRUE, FALSE, TRUE),
   T("none", {"__s390__", "__s390x__", F!LP64}, TRUE, TRUE, TRUE),
   T("none", {"__s390__"}, TRUE, FALSE, TRUE),
   T("none", {"__mips__", "__MIPSEB__"}, TRUE, FALSE, TRUE),
   T("none", {"__mips__", "__MIPSEL__", F!LP64}, FALSE, TRUE, TRUE),
   T("none", {"__mips__"}, TRUE, FALSE, FALSE),
   T("none", {"__riscv", "__riscv_xlen == 64", "__riscv_atomic", F!LP64}, FALSE, TRUE, TRUE),
   T("none", {"__riscv", "__riscv_xlen == 32", "__riscv_atomic", F!ILP32}, FALSE, FALSE, FALSE),
   T("none", {"__loongarch__", "__loongarch_lp64", F!LP64}, FALSE, TRUE, TRUE),
   T("none", {"__alpha__", F!LP64}, FALSE, TRUE, FALSE)}

AllTargets == X86Targets \cup PowerTargets \cup ArmTargets \cup OtherTargets

(***************************************************************************)
(* Bits that only come together in what the probes can tell form one group *)
(***************************************************************************)
Plain == UNION {F!cpuid_features[id] : id \in {"SSE", "SSE2", "SSE3", "SSSE3", "SSE4_1",
  "SSE4_2", "AES", "PCLMULQDQ", "MOVBE", "BMI1", "BMI2", "SHA_NI"}}
Groups ==
  {Plain, F!cpuid_features.OSXSAVE, F!cpuid_features.AVX, F!cpuid_features.AVX2,
   {<<7, "EBX", 16>>}, {<<7, "EBX", bit>> : bit \in {17, 21, 26, 28, 30}},
   {<<7, "EBX", 27>>}, {<<7, "ECX", 1>>}}
Leaf(n, words) == {w \in words : w[1] <= n}
XcrValues == {{1}, {1, 2}, {1, 2, 5, 6, 7}}

\* Processors whose highest leaf is 7, and older ones, on which leaf 7 is junk
X86Machines ==
  {[arch |-> "x86", maxleaf |-> n, words |-> Leaf(n, UNION g),
    junk |-> UNION g \ Leaf(n, UNION g), xcr0 |-> x, auxerr |-> FALSE] :
   n \in {1, 7}, g \in SUBSET Groups, x \in XcrValues}

Aux(arch, flags) ==
  {[arch |-> arch, maxleaf |-> 0, words |-> w, junk |-> {}, xcr0 |-> {}, auxerr |-> e] :
   w \in SUBSET flags, e \in BOOLEAN}

AuxMachines ==
  Aux("arm", {F!HWCAP.NEON, F!HWCAP2.SHA2, <<"AT_HWCAP", 3>>})
    \cup Aux("aarch64", {F!HWCAP.FP, F!HWCAP.SHA2, F!HWCAP.SHA512})
    \cup Aux("powerpc", {F!HWCAP.ALTIVEC, F!HWCAP.VSX, F!HWCAP2.ARCH_2_07}) \cup Aux("none", {})

AllMachines == X86Machines \cup AuxMachines

(***************************************************************************)
(* Words whose bytes all differ tell every way to move them apart; the     *)
(* short ones have all combinations of the ends of a byte too.             *)
(***************************************************************************)
AllWords ==
  UNION {[1 .. n -> {0, 1, 255}] : n \in {1, 2}}
    \cup {[i \in 1 .. n |-> i] : n \in {4, 8}} \cup {[i \in 1 .. n |-> n + 1 - i] : n \in {4, 8}}

\* Both ends of every type that an operand is converted to, and some values of
\* the widest that the others do not have.
AllOperands ==
  {-Mod64 \div 2, -2, -1, 0, 1, Mod32 - 1, Mod32, Mod32 + 1,
   (Mod64 \div 2) - 1, Mod64 \div 2, Mod64 - 1}

\* An advance by a byte, and one that overruns
AllSizes == {-1, 4}
==============================================================================
