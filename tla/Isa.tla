--------------------------------- MODULE Isa ---------------------------------
(***************************************************************************)
(* compat/sys/isa_defs.h: what the header makes of the macros a compiler   *)
(* predefines.  A build is the set of the macros that are defined; a       *)
(* comparison of two macros is a member of its own, such as                *)
(* "__BYTE_ORDER == __BIG_ENDIAN".                                         *)
(***************************************************************************)
EXTENDS Integers

LITTLE == "_ZFS_LITTLE_ENDIAN"
BIG == "_ZFS_BIG_ENDIAN"
LP64 == "_LP64"
ILP32 == "_ILP32"
UNALIGNED == "HAVE_EFFICIENT_UNALIGNED_ACCESS"
VTOC_16 == "_SUNOS_VTOC_16"

\* defined(a) || defined(b) || ...
AnyDefined(p, names) == p \cap names # {}

\* One operator per branch: the macros that the branch adds to p.

\* Mutant: x32 is taken for a 64-bit build.
x86_64_NoX32(p) == {"__x86_64", "__amd64", "__x86", LITTLE, UNALIGNED, VTOC_16, LP64}

x86_64(p) ==
  {"__x86_64", "__amd64", "__x86", LITTLE, UNALIGNED, VTOC_16}
    \cup (IF ILP32 \in p THEN {} ELSE {LP64})

i386(p) == {"__i386", "__x86", ILP32, LITTLE, UNALIGNED, VTOC_16}

\* A comparison without its two macros defined cannot hold.
powerpc_endian(p) ==
  LET big == IF "__BYTE_ORDER" \in p
             THEN {"__BIG_ENDIAN", "__BYTE_ORDER == __BIG_ENDIAN"} \subseteq p
             ELSE IF "_BYTE_ORDER" \in p
             THEN {"_BIG_ENDIAN", "_BYTE_ORDER == _BIG_ENDIAN"} \subseteq p
             ELSE "_BIG_ENDIAN" \in p /\ "_LITTLE_ENDIAN" \notin p
      little == IF "__BYTE_ORDER" \in p
                THEN {"__LITTLE_ENDIAN", "__BYTE_ORDER == __LITTLE_ENDIAN"} \subseteq p
                ELSE IF "_BYTE_ORDER" \in p
                THEN {"_LITTLE_ENDIAN", "_BYTE_ORDER == _LITTLE_ENDIAN"} \subseteq p
                ELSE "_LITTLE_ENDIAN" \in p /\ "_BIG_ENDIAN" \notin p
  IN  IF big THEN {BIG} ELSE IF little THEN {LITTLE} ELSE {}

powerpc(p) ==
  {"__powerpc", "__powerpc__", UNALIGNED, VTOC_16} \cup powerpc_endian(p)
    \cup {IF "__powerpc64__" \in p THEN LP64 ELSE ILP32}

arm(p) ==
  {"__arm", "__arm__", VTOC_16, ILP32, IF "__ARMEL__" \in p THEN LITTLE ELSE BIG}
    \cup (IF "__ARM_FEATURE_UNALIGNED" \in p THEN {UNALIGNED} ELSE {})

aarch64(p) == {LP64, VTOC_16, IF "__AARCH64EL__" \in p THEN LITTLE ELSE BIG}

sparc(p) ==
  {"__sparc", "__sparc__", VTOC_16, BIG, IF "__arch64__" \in p THEN LP64 ELSE ILP32}

s390(p) == {BIG, VTOC_16, IF "__s390x__" \in p THEN LP64 ELSE ILP32}

mips(p) ==
  (IF "__MIPSEB__" \in p THEN {BIG}
   ELSE IF "__MIPSEL__" \in p THEN {LITTLE} ELSE {"#error"})
    \cup (IF AnyDefined(p, {LP64, ILP32}) THEN {} ELSE {ILP32}) \cup {VTOC_16}

riscv(p) == {LP64, "__riscv__", "__rv64g__", LITTLE, VTOC_16}

loongarch(p) == {LP64, LITTLE, VTOC_16, "_ALIGNMENT_REQUIRED"}

\* The #if / #elif chain: the first branch whose condition holds.
isa_branch(p) ==
  IF AnyDefined(p, {"__x86_64", "__x86_64__"}) THEN x86_64(p)
  ELSE IF AnyDefined(p, {"__i386", "__i386__"}) THEN i386(p)
  ELSE IF AnyDefined(p, {"__powerpc", "__powerpc__", "__powerpc64__"}) THEN powerpc(p)
  ELSE IF AnyDefined(p, {"__arm", "__arm__"}) THEN arm(p)
  ELSE IF "__aarch64__" \in p THEN aarch64(p)
  ELSE IF AnyDefined(p, {"__sparc", "__sparc__"}) THEN sparc(p)
  ELSE IF "__s390__" \in p THEN s390(p)
  ELSE IF "__mips__" \in p THEN mips(p)
  ELSE IF {"__riscv", "__riscv_xlen == 64", "__riscv_atomic"} \subseteq p THEN riscv(p)
  ELSE IF {"__loongarch__", "__loongarch_lp64"} \subseteq p THEN loongarch(p)
  ELSE {"#error"}

isa_defs(p) == p \cup isa_branch(p)

\* The four #error checks at the end, and the two inside the chain.
Refused(p) ==
  \/ "#error" \in isa_defs(p)
  \/ {ILP32, LP64} \subseteq isa_defs(p)
  \/ ~AnyDefined(isa_defs(p), {ILP32, LP64})
  \/ {LITTLE, BIG} \subseteq isa_defs(p)
  \/ ~AnyDefined(isa_defs(p), {LITTLE, BIG})
==============================================================================
