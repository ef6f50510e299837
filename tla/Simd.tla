-------------------------------- MODULE Simd ---------------------------------
(***************************************************************************)
(* compat/sys/simd.h: libzpool inside the surgeon asks which vector        *)
(* instructions it may use.  A target is compiled (isa_defs.h selects the  *)
(* probes), the program is started on a machine, and each probe runs its   *)
(* steps: CPUID, OSXSAVE, XGETBV, or the auxiliary vector.                 *)
(***************************************************************************)
EXTENDS CpuFeatures

CONSTANTS Targets,   \* what compilers predefine, and the truth about the target
          Machines   \* processors, with what the operating system has enabled

VARIABLES phase, target, macros, machine, probe, result,
          fault      \* an illegal instruction was executed

vars == <<phase, target, macros, machine, probe, result, fault>>

(***************************************************************************)
(* A build and a run                                                       *)
(***************************************************************************)
Nowhere == [arch |-> "none", maxleaf |-> 0, words |-> {}, junk |-> {}, xcr0 |-> {},
            auxerr |-> FALSE]
NoProbe == <<"none", "none">>

Init ==
  /\ phase = "source" /\ target \in Targets /\ macros = {} /\ machine = Nowhere
  /\ probe = NoProbe /\ result = FALSE /\ fault = FALSE

Compile ==
  /\ phase = "source"
  /\ phase' = IF Refused(target.predefined) THEN "refused" ELSE "built"
  /\ macros' = isa_defs(target.predefined)
  /\ UNCHANGED <<target, machine, probe, result, fault>>

Run(m) ==
  /\ phase = "built" /\ m.arch = simd_branch(macros)
  /\ phase' = "ready" /\ machine' = m
  /\ UNCHANGED <<target, macros, probe, result, fault>>

Answer(r) == phase' = "answered" /\ result' = r

\* __cpuid_has_*(), joined by && when a probe asks for two.
CpuidProbe(family, f) ==
  /\ phase = "ready" /\ machine.arch = "x86"
  /\ probe' = <<family, f>>
  /\ LET p == x86_table[family][f]
         has == \A id \in p.ids : cpuid_check_feature(machine, id)
     IN  IF has /\ p.state # {}
         THEN phase' = "osxsave" /\ UNCHANGED result
         ELSE Answer(has)
  /\ UNCHANGED <<target, macros, machine, fault>>

\* Mutant: XGETBV is executed without a look at OSXSAVE.
OsxsaveCheck_Skipped ==
  /\ phase = "osxsave" /\ phase' = "xgetbv"
  /\ UNCHANGED <<target, macros, machine, probe, result, fault>>

\* __simd_state_enabled() up to the call of xgetbv()
OsxsaveCheck ==
  /\ phase = "osxsave"
  /\ IF cpuid_check_feature(machine, "OSXSAVE")
     THEN phase' = "xgetbv" /\ UNCHANGED result
     ELSE Answer(FALSE)
  /\ UNCHANGED <<target, macros, machine, probe, fault>>

xgetbv ==
  /\ phase = "xgetbv"
  /\ fault' = (fault \/ ~(cpuid_features.OSXSAVE \subseteq machine.words))
  /\ Answer(x86_table[probe[1]][probe[2]].state \subseteq machine.xcr0)
  /\ UNCHANGED <<target, macros, machine, probe>>

AuxvalProbe(f) ==
  /\ phase = "ready" /\ machine.arch \in DOMAIN aux_table
  /\ probe' = <<machine.arch, f>>
  /\ Answer(\A w \in aux_table[machine.arch][f] : w \in getauxval(machine, w[1]))
  /\ UNCHANGED <<target, macros, machine, fault>>

\* The probe has returned and the caller may ask for the next one.
Return ==
  /\ phase = "answered" /\ phase' = "ready" /\ probe' = NoProbe /\ result' = FALSE
  /\ UNCHANGED <<target, macros, machine, fault>>

Next ==
  \/ Compile
  \/ phase = "built" /\ \E m \in Machines : Run(m)
  \/ \E family \in X86 : \E f \in DOMAIN x86_table[family] : CpuidProbe(family, f)
  \/ OsxsaveCheck \/ xgetbv
  \/ \E a \in DOMAIN aux_table : \E f \in DOMAIN aux_table[a] :
       machine.arch = a /\ AuxvalProbe(f)
  \/ Return

Spec == Init /\ [][Next]_vars

(***************************************************************************)
(* Properties                                                              *)
(***************************************************************************)
\* isa_defs.h tells the truth: it accepts every target that its last comment
\* lists, and a build it accepts has the byte order and the data model of the
\* target, the probes of its instruction set and the label format that
\* dklabel.h needs, however the compiler spells its predefined macros.
BuildIsTrue ==
  /\ phase = "refused" => ~target.supported
  /\ phase \notin {"source", "refused"} =>
       /\ (BIG \in macros) = target.big /\ (LITTLE \in macros) = ~target.big
       /\ (LP64 \in macros) = target.lp64 /\ (ILP32 \in macros) = ~target.lp64
       /\ simd_branch(macros) = target.branch /\ VTOC_16 \in macros

\* xgetbv() is "an illegal instruction" where CPUID does not announce it, and
\* no probe executes it there.
NoIllegalInstruction == ~fault

\* The bits that carry the name of a feature, from BIT and HWCAP.
Named(family, f) ==
  IF family \in X86
  THEN UNION {IF id \in DOMAIN BIT
              THEN {<<w[1], w[2], bit>> : w \in cpuid_features[id], bit \in BIT[id]}
              ELSE cpuid_features[id] : id \in x86_table[family][f].ids}
  ELSE IF <<family, f>> = <<"arm", "sha256">> THEN {HWCAP2.SHA2}
  ELSE aux_table[family][f]

Enabled(family) ==
  CASE family = "avx" -> XSTATE_SSE_AVX
    [] family = "avx512" -> XSTATE_AVX512
    [] OTHER -> {}

\* Two probes read another bit than their own: the row of AVX512VL has the bit of
\* AVX512ER (simd.h:154), and arm's SHA2 takes a bit of AT_HWCAP2 from AT_HWCAP
\* (simd.h:508).  A yes of theirs says nothing about the feature.
Misread == {<<"avx512", "avx512vl">>, <<"arm", "sha256">>}

Present == Named(probe[1], probe[2]) \subseteq machine.words

\* The registers that the family of the probe uses, and the foundation of AVX-512
FamilyUsable ==
  /\ Enabled(probe[1]) \subseteq machine.xcr0
  /\ probe[1] = "avx512" => <<7, "EBX", 16>> \in machine.words

\* When a probe says yes, the operating system saves the registers of its family
\* and no AVX-512 probe says yes without AVX512F: a disabled register state or an
\* old highest leaf never slips through.  Every probe but the two of Misread, which
\* test another bit than their own, says yes only where the processor announces
\* the instruction set it is named for.
ProbeIsSound ==
  phase = "answered" /\ result => FamilyUsable /\ (probe \notin Misread => Present)
==============================================================================
