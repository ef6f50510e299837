----------------------------- MODULE LibsplProofs -----------------------------
(***************************************************************************)
(* Proofs about the compatibility headers as one specification.  It        *)
(* implements the specification of each of its parts, so the theorems of   *)
(* UmemProofs, MembarProofs and AtomicsProofs hold of the whole; what is   *)
(* said of the other parts is proved here.                                 *)
(***************************************************************************)
EXTENDS Libspl, Sums, SequenceTheorems

AP == INSTANCE AtomicsProofs
MP == INSTANCE MembarProofs WITH buf <- storeBuf, pc <- barPc
UP == INSTANCE UmemProofs WITH Thread <- Caller, call <- request, pc <- memPc

(***************************************************************************)
(* Composition                                                             *)
(***************************************************************************)
\* A step of the whole is a step of one part and leaves the others alone.
LEMMA PartSteps ==
  ASSUME [Next]_vars
  PROVE  /\ [X!Next]_(X!vars) /\ [A!Next]_(A!vars) /\ [M!Next]_(M!vars) /\ [U!Next]_(U!vars)
         /\ [B!Next]_(B!vars) /\ [H!Next]_(H!vars) /\ [O!Next]_(O!vars) /\ [S!Next]_(S!vars)
BY DEF Next, vars, xVars, aVars, mVars, uVars, bVars, hVars, oVars, sVars,
       X!vars, A!vars, A!shared, M!vars, U!vars, B!vars, H!vars, O!vars, S!vars

\* The compatibility headers implement the specification of each of their parts.
THEOREM PartsImplemented ==
  Spec => /\ X!Spec /\ A!Spec /\ M!Spec /\ U!Spec
          /\ B!Spec /\ H!Spec /\ O!Spec /\ S!Spec
<1>1. Init => X!Init /\ A!Init /\ M!Init /\ U!Init /\ B!Init /\ H!Init /\ O!Init /\ S!Init
  BY DEF Init
<1> QED
  BY <1>1, PartSteps, PTL
     DEF Spec, X!Spec, A!Spec, M!Spec, U!Spec, B!Spec, H!Spec, O!Spec, S!Spec

(***************************************************************************)
(* The parts with proofs of their own.  An instance of a proof module      *)
(* repeats the definitions of the part: they are the same.                 *)
(***************************************************************************)

LEMMA AtomicsSame ==
  /\ A!AtomicsAssumption => AP!AtomicsAssumption
  /\ A!Init => AP!Init
  /\ [A!Next]_(A!vars) => [AP!Next]_(AP!vars)
<1>1. A!AtomicsAssumption => AP!AtomicsAssumption
  BY DEF
     A!AtomicsAssumption, AP!AtomicsAssumption, A!IsFiniteSet, AP!IsFiniteSet
<1>2. A!Init => AP!Init
  BY DEF
     A!Zero, A!Init, AP!Zero, AP!Init
<1>3. A!Next => AP!Next
  BY DEF
     A!SumFunction, A!SumFunctionOnSet, A!FoldFunctionOnSet, A!MapThenFoldSet,
     AP!SumFunction, AP!SumFunctionOnSet, AP!FoldFunctionOnSet, AP!MapThenFoldSet,
     A!shared, A!atomic_inc, A!atomic_dec, A!atomic_add, A!atomic_sub, A!atomic_inc_nv,
     A!atomic_dec_nv, A!atomic_add_nv, A!atomic_sub_nv, A!atomic_or, A!atomic_and,
     A!atomic_or_nv, A!atomic_and_nv, A!atomic_cas, A!atomic_swap, A!Whole,
     A!PlainAccess, A!atomic_load_64, A!atomic_store_64, A!Zero, A!Local, A!Begin,
     A!Hold, A!Drop, A!WentToZero, A!LastOne, A!SetBit, A!ClearBit, A!Exchange,
     A!cmn_err_once, A!cmn_err, A!StoreWide, A!LoadWide, A!Mix, A!Move, A!Moved,
     A!Uses, A!Next, AP!shared, AP!atomic_inc, AP!atomic_dec, AP!atomic_add,
     AP!atomic_sub, AP!atomic_inc_nv, AP!atomic_dec_nv, AP!atomic_add_nv,
     AP!atomic_sub_nv, AP!atomic_or, AP!atomic_and, AP!atomic_or_nv, AP!atomic_and_nv,
     AP!atomic_cas, AP!atomic_swap, AP!Whole, AP!PlainAccess, AP!atomic_load_64,
     AP!atomic_store_64, AP!Zero, AP!Local, AP!Begin, AP!Hold, AP!Drop, AP!WentToZero,
     AP!LastOne, AP!SetBit, AP!ClearBit, AP!Exchange, AP!cmn_err_once, AP!cmn_err,
     AP!StoreWide, AP!LoadWide, AP!Mix, AP!Move, AP!Moved, AP!Uses, AP!Next
<1> QED
  BY <1>1, <1>2, <1>3 DEF
     A!shared, A!vars, AP!shared, AP!vars

LEMMA MembarSame ==
  /\ M!MembarAssumption => MP!MembarAssumption
  /\ M!Init => MP!Init
  /\ [M!Next]_(M!vars) => [MP!Next]_(MP!vars)
<1>1. M!MembarAssumption => MP!MembarAssumption
  BY DEF
     M!MembarAssumption, MP!MembarAssumption
<1>2. M!Init => MP!Init
  BY DEF
     M!Cell, M!Init, MP!Cell, MP!Init
<1>3. M!Next => MP!Next
  BY DEF
     M!Begin, M!Goto, M!Store, M!Loaded, M!Drain, M!LoadAhead, M!membar_enter,
     M!membar_exit, M!membar_producer, M!membar_consumer, M!atomic_set_long_excl,
     M!Enter, M!Read, M!Write, M!Exit, M!atomic_clear_long_excl, M!Produce, M!Publish,
     M!Raise, M!SeeFlag, M!Order, M!Sample, M!Next, MP!Begin, MP!Goto, MP!Store,
     MP!Loaded, MP!Drain, MP!LoadAhead, MP!membar_enter, MP!membar_exit,
     MP!membar_producer, MP!membar_consumer, MP!atomic_set_long_excl, MP!Enter,
     MP!Read, MP!Write, MP!Exit, MP!atomic_clear_long_excl, MP!Produce, MP!Publish,
     MP!Raise, MP!SeeFlag, MP!Order, MP!Sample, MP!Next
<1> QED
  BY <1>1, <1>2, <1>3 DEF
     M!vars, MP!vars

LEMMA UmemSame ==
  /\ U!UmemAssumption => UP!UmemAssumption
  /\ U!Init => UP!Init
  /\ [U!Next]_(U!vars) => [UP!Next]_(UP!vars)
<1>1. U!UmemAssumption => UP!UmemAssumption
  BY DEF
     U!Align, U!Cache, U!UmemAssumption, UP!Align, UP!Cache, UP!UmemAssumption
<1>2. U!Init => UP!Init
  BY DEF
     U!Idle, U!Init, UP!Idle, UP!Init
<1>3. U!Next => UP!Next
  BY DEF
     U!Align, U!heapVars, U!Call, U!Idle, U!Free, U!Goto, U!HasCache, U!Enter,
     U!AfterAlloc, U!Take, U!Retries, U!umem_alloc, U!umem_alloc_aligned,
     U!umem_zalloc, U!umem_cache_alloc, U!umem_cache_create, U!Return, U!GiveBack,
     U!InUse, U!umem_free, U!umem_cache_free, U!Destruct, U!umem_cache_destroy, U!Step,
     U!Next, UP!Align, UP!heapVars, UP!Call, UP!Idle, UP!Free, UP!Goto, UP!HasCache,
     UP!Enter, UP!AfterAlloc, UP!Take, UP!Retries, UP!umem_alloc,
     UP!umem_alloc_aligned, UP!umem_zalloc, UP!umem_cache_alloc, UP!umem_cache_create,
     UP!Return, UP!GiveBack, UP!InUse, UP!umem_free, UP!umem_cache_free, UP!Destruct,
     UP!umem_cache_destroy, UP!Step, UP!Next
<1> QED
  BY <1>1, <1>2, <1>3 DEF
     U!vars, UP!vars

\* compat/atomic.h and cmn_err_once(), for any number of threads and any width
\* of the words: the object behind a reference count is freed exactly once and
\* never while it is held, no update is lost, a message is printed once, and a
\* 64-bit load is never torn on either kind of build.
THEOREM AtomicsOfLibspl == Spec => [](FreedExactlyOnce /\ NoLostUpdate /\ PrintedOnce /\ NeverTorn)
<1>1. AP!AtomicsAssumption
  BY LibsplAssumption, AtomicsSame DEF LibsplAssumption
<1>2. Init => AP!AtomicsInv
  BY <1>1, AtomicsSame, AP!InitInv DEF Init
<1>3. AP!AtomicsInv /\ [Next]_vars => AP!AtomicsInv'
  BY <1>1, AtomicsSame, PartSteps, AP!NextInv
<1>4. AP!AtomicsInv => AP!FreedExactlyOnce /\ AP!NoLostUpdate /\ AP!PrintedOnce /\ AP!NeverTorn
  BY <1>1, AP!InvSafe
<1>5. AP!AtomicsInv => FreedExactlyOnce /\ NoLostUpdate /\ PrintedOnce /\ NeverTorn
  BY <1>4 DEF FreedExactlyOnce, NoLostUpdate, PrintedOnce, NeverTorn,
     A!SumFunction, A!SumFunctionOnSet, A!FoldFunctionOnSet, A!MapThenFoldSet, A!Range,
     AP!SumFunction, AP!SumFunctionOnSet, AP!FoldFunctionOnSet, AP!MapThenFoldSet, AP!Range,
     A!IsInjective, AP!IsInjective,
     A!FreedExactlyOnce, A!NoLostUpdate, A!PrintedOnce, A!NeverTorn,
     AP!FreedExactlyOnce, AP!NoLostUpdate, AP!PrintedOnce, AP!NeverTorn
<1> QED
  BY <1>2, <1>3, <1>5, PTL DEF Spec

\* The membar_*() functions and the exclusive bit operations, for any number of
\* threads and rounds, on a processor that delays stores and loads ahead: the
\* lock protects its data, and data stored behind membar_producer() is seen
\* behind membar_consumer().
THEOREM MembarOfLibspl == Spec => [](LockProtects /\ DataBehindFlag)
<1>1. MP!MembarAssumption
  BY LibsplAssumption, MembarSame DEF LibsplAssumption
<1>2. Init => MP!MembarInv
  BY <1>1, MembarSame, MP!MembarInit DEF Init
<1>3. MP!MembarInv /\ [Next]_vars => MP!MembarInv'
  BY <1>1, MembarSame, PartSteps, MP!MembarNext
<1>4. MP!MembarInv => MP!LockProtects /\ MP!DataBehindFlag
  BY <1>1, MP!MembarInvImplies
<1>5. MP!MembarInv => LockProtects /\ DataBehindFlag
  BY <1>4 DEF LockProtects, DataBehindFlag,
     M!InSection, M!LockProtects, M!DataBehindFlag, MP!InSection, MP!LockProtects,
     MP!DataBehindFlag
<1> QED
  BY <1>2, <1>3, <1>5, PTL DEF Spec

\* compat/umem.h, for any number of threads and chunks: a UMEM_NOFAIL call
\* returns memory, umem_zalloc() returns zeroes also in a recycled chunk, and
\* constructor and destructor run in turn.
THEOREM UmemOfLibspl == Spec => [](NofailReturnsMemory /\ ZallocIsZeroed /\ MadeInTurn)
<1>1. UP!UmemAssumption
  BY LibsplAssumption, UmemSame DEF LibsplAssumption
<1>2. Init => UP!UmemInv
  BY <1>1, UmemSame, UP!UmemInit DEF Init
<1>3. UP!UmemInv /\ [Next]_vars => UP!UmemInv'
  BY <1>1, UmemSame, PartSteps, UP!UmemNext
<1>4. UP!UmemInv => UP!NofailReturnsMemory /\ UP!ZallocIsZeroed /\ UP!MadeInTurn
  BY <1>1, UP!UmemInvImplies
<1>5. UP!UmemInv => NofailReturnsMemory /\ ZallocIsZeroed /\ MadeInTurn
  BY <1>4 DEF NofailReturnsMemory, ZallocIsZeroed, MadeInTurn,
     U!NofailReturnsMemory, U!ZallocIsZeroed, U!MadeInTurn, UP!NofailReturnsMemory,
     UP!ZallocIsZeroed, UP!MadeInTurn
<1> QED
  BY <1>2, <1>3, <1>5, PTL DEF Spec

(***************************************************************************)
(* simd.h, for any set of targets and machines                             *)
(***************************************************************************)
\* CPUID announces all that the probe f of a family asks for.
Announced(family, f) ==
  \A id \in X!x86_table[family][f].ids : X!cpuid_features[id] \subseteq machine.words

X86Probe ==
  \E family \in X!X86 : \E f \in DOMAIN X!x86_table[family] :
    probe = <<family, f>> /\ Announced(family, f)

AuxProbe ==
  \E a \in DOMAIN X!aux_table : \E f \in DOMAIN X!aux_table[a] :
    probe = <<a, f>> /\ X!aux_table[a][f] \subseteq machine.words

\* Between its steps a probe rests on what it has tested before.
SimdInv ==
  /\ fault = FALSE
  /\ phase \in {"osxsave", "xgetbv"} => X86Probe
  /\ phase = "xgetbv" => X!cpuid_features.OSXSAVE \subseteq machine.words
  /\ phase = "answered" /\ result =>
       \/ X86Probe /\ X!x86_table[probe[1]][probe[2]].state \subseteq machine.xcr0
       \/ AuxProbe

\* A feature that CPUID announces has the bits that carry its name.
LEMMA FeatureNamed ==
  ASSUME NEW id, id # "AVX512VL", X!cpuid_features[id] \subseteq machine.words
  PROVE  (IF id \in DOMAIN X!BIT
          THEN {<<w[1], w[2], bit>> : w \in X!cpuid_features[id], bit \in X!BIT[id]}
          ELSE X!cpuid_features[id]) \subseteq machine.words
<1>1. CASE id \in DOMAIN X!BIT
  <2>1. PICK leaf, file : X!cpuid_features[id] = X!Desc(leaf, file, X!BIT[id])
    <3>1. /\ X!cpuid_features["AES"] = X!Desc(1, "ECX", X!BIT["AES"])
          /\ X!cpuid_features["PCLMULQDQ"] = X!Desc(1, "ECX", X!BIT["PCLMULQDQ"])
          /\ X!cpuid_features["MOVBE"] = X!Desc(1, "ECX", X!BIT["MOVBE"])
          /\ X!cpuid_features["AVX512VBMI"] = X!Desc(7, "ECX", X!BIT["AVX512VBMI"])
          /\ X!cpuid_features["AVX512F"] = X!Desc(7, "EBX", X!BIT["AVX512F"])
          /\ X!cpuid_features["AVX512CD"] = X!Desc(7, "EBX", X!BIT["AVX512CD"])
          /\ X!cpuid_features["AVX512DQ"] = X!Desc(7, "EBX", X!BIT["AVX512DQ"])
          /\ X!cpuid_features["AVX512BW"] = X!Desc(7, "EBX", X!BIT["AVX512BW"])
          /\ X!cpuid_features["AVX512IFMA"] = X!Desc(7, "EBX", X!BIT["AVX512IFMA"])
          /\ X!cpuid_features["AVX512PF"] = X!Desc(7, "EBX", X!BIT["AVX512PF"])
          /\ X!cpuid_features["AVX512ER"] = X!Desc(7, "EBX", X!BIT["AVX512ER"])
          /\ X!cpuid_features["SHA_NI"] = X!Desc(7, "EBX", X!BIT["SHA_NI"])
      BY DEF X!cpuid_features, X!BIT
    <3>2. id \in {"AES", "PCLMULQDQ", "MOVBE", "AVX512VBMI", "AVX512F", "AVX512CD", "AVX512DQ",
                 "AVX512BW", "AVX512IFMA", "AVX512PF", "AVX512ER", "SHA_NI"}
      BY <1>1 DEF X!BIT
    <3> QED
      BY <3>1, <3>2, Zenon
  <2>2. \A w \in X!Desc(leaf, file, X!BIT[id]) : w[1] = leaf /\ w[2] = file
    BY DEF X!Desc
  <2>3. \A bit \in X!BIT[id] : <<leaf, file, bit>> \in X!Desc(leaf, file, X!BIT[id])
    BY DEF X!Desc
  <2>4. ASSUME NEW w \in X!cpuid_features[id], NEW bit \in X!BIT[id]
        PROVE  <<w[1], w[2], bit>> \in machine.words
    BY <2>1, <2>2, <2>3
  <2> QED
    BY <1>1, <2>4
<1> QED
  BY <1>1

\* The rows of the tables.  Only the probe for AVX512VL asks for AVX512VL.
LEMMA VlRow ==
  ASSUME NEW family \in X!X86, NEW f \in DOMAIN X!x86_table[family],
         <<family, f>> # <<"avx512", "avx512vl">>
  PROVE  "AVX512VL" \notin X!x86_table[family][f].ids
<1> USE DEF X!x86_table, X!X86, X!Has
<1>1. CASE family = "sse"
  BY <1>1 DEF X!sse_probes
<1>2. CASE family = "avx"
  BY <1>2 DEF X!avx_probes
<1>3. CASE family = "bit"
  BY <1>3 DEF X!bit_probes
<1>4. CASE family = "avx512"
  BY <1>4 DEF X!avx512_probes
<1> QED
  BY <1>1, <1>2, <1>3, <1>4

\* Each probe asks for the state of the registers that its family uses.
LEMMA StateRow ==
  ASSUME NEW family \in X!X86, NEW f \in DOMAIN X!x86_table[family]
  PROVE  X!Enabled(family) \subseteq X!x86_table[family][f].state
<1> USE DEF X!x86_table, X!X86, X!Has, X!Enabled
<1>1. CASE family = "sse"
  BY <1>1 DEF X!sse_probes
<1>2. CASE family = "avx"
  BY <1>2 DEF X!avx_probes
<1>3. CASE family = "bit"
  BY <1>3 DEF X!bit_probes
<1>4. CASE family = "avx512"
  BY <1>4 DEF X!avx512_probes
<1> QED
  BY <1>1, <1>2, <1>3, <1>4

\* Every AVX-512 probe asks for the bit of AVX512F too.
LEMMA Avx512Row ==
  ASSUME NEW f \in DOMAIN X!x86_table["avx512"], Announced("avx512", f)
  PROVE  <<7, "EBX", 16>> \in machine.words
<1>1. X!x86_table["avx512"] = X!avx512_probes
  BY DEF X!x86_table
<1>2. PICK id \in X!x86_table["avx512"][f].ids :
         id \in {"AVX512F", "AVX512CD", "AVX512ER", "AVX512PF", "AVX512BW", "AVX512DQ",
                 "AVX512VL", "AVX512IFMA"}
  BY <1>1 DEF X!avx512_probes, X!Has
<1>3. PICK flag : X!cpuid_features[id] = X!Desc(7, "EBX", flag) /\ 16 \in flag
  BY <1>2 DEF X!cpuid_features, X!BIT
<1>4. <<7, "EBX", 16>> \in X!cpuid_features[id]
  BY <1>3 DEF X!Desc
<1> QED
  BY <1>4 DEF Announced

LEMMA SimdStep ==
  ASSUME SimdInv, [X!Next]_(X!vars)
  PROVE  SimdInv'
<1>1. CASE X!Compile
  BY <1>1 DEF SimdInv, X!Compile
<1>2. ASSUME NEW m \in Machines, X!Run(m) PROVE SimdInv'
  BY <1>2 DEF SimdInv, X!Run
<1>3. ASSUME NEW family \in X!X86, NEW f \in DOMAIN X!x86_table[family],
             X!CpuidProbe(family, f)
      PROVE  SimdInv'
  <2> DEFINE p == X!x86_table[family][f]
             has == \A id \in p.ids : X!cpuid_check_feature(machine, id)
  <2>1. /\ probe' = <<family, f>> /\ machine' = machine /\ fault' = fault
        /\ IF has /\ p.state # {} THEN phase' = "osxsave" /\ result' = result
           ELSE phase' = "answered" /\ result' = has
    BY <1>3 DEF X!CpuidProbe, X!Answer
  <2>2. has => Announced(family, f)'
    BY <2>1 DEF Announced, X!cpuid_check_feature
  <2>3. has => X86Probe'
    BY <2>1, <2>2 DEF X86Probe
  <2>4. phase' = "answered" /\ result' => has /\ p.state = {}
    BY <2>1
  <2>5. probe'[1] = family /\ probe'[2] = f
    BY <2>1
  <2> QED
    BY <2>1, <2>3, <2>4, <2>5 DEF SimdInv
<1>4. CASE X!OsxsaveCheck
  <2>1. /\ probe' = probe /\ machine' = machine /\ fault' = fault /\ phase = "osxsave"
        /\ IF X!cpuid_check_feature(machine, "OSXSAVE")
           THEN phase' = "xgetbv" /\ result' = result
           ELSE phase' = "answered" /\ result' = FALSE
    BY <1>4 DEF X!OsxsaveCheck, X!Answer
  <2>2. X86Probe'
    BY <2>1 DEF SimdInv, X86Probe, Announced
  <2>3. phase' = "xgetbv" => X!cpuid_features.OSXSAVE \subseteq machine.words
    BY <2>1 DEF X!cpuid_check_feature
  <2> QED
    BY <2>1, <2>2, <2>3 DEF SimdInv
<1>5. CASE X!xgetbv
  <2>1. /\ probe' = probe /\ machine' = machine /\ phase = "xgetbv" /\ phase' = "answered"
        /\ fault' = (fault \/ ~(X!cpuid_features.OSXSAVE \subseteq machine.words))
        /\ result' = (X!x86_table[probe[1]][probe[2]].state \subseteq machine.xcr0)
    BY <1>5 DEF X!xgetbv, X!Answer
  <2>2. X86Probe'
    BY <2>1 DEF SimdInv, X86Probe, Announced
  <2> QED
    BY <2>1, <2>2 DEF SimdInv
<1>6. ASSUME NEW a \in DOMAIN X!aux_table, NEW f \in DOMAIN X!aux_table[a],
             machine.arch = a, X!AuxvalProbe(f)
      PROVE  SimdInv'
  <2> DEFINE ok == \A w \in X!aux_table[a][f] : w \in X!getauxval(machine, w[1])
  <2>1. /\ probe' = <<a, f>> /\ machine' = machine /\ fault' = fault
        /\ phase' = "answered" /\ result' = ok
    BY <1>6 DEF X!AuxvalProbe, X!Answer
  <2>2. ok => X!aux_table[a][f] \subseteq machine.words
    BY DEF X!getauxval
  <2>3. ok => AuxProbe'
    BY <2>1, <2>2 DEF AuxProbe
  <2> QED
    BY <2>1, <2>3 DEF SimdInv
<1>7. CASE X!Return
  BY <1>7 DEF SimdInv, X!Return
<1>8. CASE UNCHANGED X!vars
  BY <1>8 DEF SimdInv, X!vars, X86Probe, AuxProbe, Announced
<1> QED
  BY <1>1, <1>2, <1>3, <1>4, <1>5, <1>6, <1>7, <1>8 DEF X!Next

LEMMA SimdSound ==
  ASSUME SimdInv
  PROVE  NoIllegalInstruction /\ ProbeIsSound
<1>1. NoIllegalInstruction
  BY DEF SimdInv, NoIllegalInstruction, X!NoIllegalInstruction
<1>2. ASSUME phase = "answered", result
      PROVE  X!FamilyUsable /\ (probe \notin X!Misread => X!Present)
  <2>1. ASSUME NEW family \in X!X86, NEW f \in DOMAIN X!x86_table[family],
               probe = <<family, f>>, Announced(family, f),
               X!x86_table[probe[1]][probe[2]].state \subseteq machine.xcr0
        PROVE  X!FamilyUsable /\ (probe \notin X!Misread => X!Present)
    <3>1. probe[1] = family /\ probe[2] = f
      BY <2>1
    <3>2. ASSUME probe \notin X!Misread PROVE "AVX512VL" \notin X!x86_table[family][f].ids
      BY <2>1, <3>2, VlRow DEF X!Misread
    <3>3. ASSUME probe \notin X!Misread PROVE X!Named(family, f) \subseteq machine.words
      BY <2>1, <3>2, <3>3, FeatureNamed DEF X!Named, Announced
    <3>4. X!Enabled(family) \subseteq machine.xcr0
      BY <2>1, <3>1, StateRow
    <3>5. family = "avx512" => <<7, "EBX", 16>> \in machine.words
      BY <2>1, Avx512Row
    <3> QED
      BY <3>1, <3>3, <3>4, <3>5 DEF X!FamilyUsable, X!Present
  <2>2. ASSUME NEW a \in DOMAIN X!aux_table, NEW f \in DOMAIN X!aux_table[a],
               probe = <<a, f>>, X!aux_table[a][f] \subseteq machine.words
        PROVE  X!FamilyUsable /\ (probe \notin X!Misread => X!Present)
    <3>1. probe[1] = a /\ probe[2] = f
      BY <2>2
    <3>2. a \notin X!X86 /\ a # "avx" /\ a # "avx512"
      BY DEF X!aux_table, X!X86
    <3>3. X!Enabled(a) = {}
      BY <3>2 DEF X!Enabled
    <3>4. ASSUME probe \notin X!Misread PROVE X!Named(a, f) = X!aux_table[a][f]
      BY <2>2, <3>2, <3>4 DEF X!Named, X!Misread
    <3> QED
      BY <2>2, <3>1, <3>2, <3>3, <3>4 DEF X!FamilyUsable, X!Present
  <2> QED
    BY <1>2, <2>1, <2>2 DEF SimdInv, X86Probe, AuxProbe
<1> QED
  BY <1>1, <1>2 DEF ProbeIsSound, X!ProbeIsSound

\* The probes of simd.h, for any targets and machines: xgetbv() is executed only
\* where CPUID announces it, and a yes means that the operating system saves the
\* registers of the family of the probe, and for the AVX-512 family that the
\* processor has AVX512F.  That the processor has what the probe is named for is
\* proved of all but the two of Misread, of which it is false.
THEOREM SimdOfLibspl == Spec => [](NoIllegalInstruction /\ ProbeIsSound)
<1>1. Init => SimdInv
  BY DEF Init, X!Init, SimdInv
<1>2. SimdInv /\ [Next]_vars => SimdInv'
  BY PartSteps, SimdStep
<1> QED
  BY <1>1, <1>2, SimdSound, PTL DEF Spec

(***************************************************************************)
(* time.h, for any ratio between the units                                 *)
(***************************************************************************)
Clock == mono.sec * H!NANOSEC + mono.nsec

\* The last gethrtime() returned a time that the monotonic clock has reached.
HrtimeInv ==
  /\ mono \in [sec : Nat, nsec : Nat] /\ hrtime \in Nat
  /\ hrtime <= Clock

\* Quotient and remainder.
LEMMA DivMod ==
  ASSUME NEW n \in Nat, NEW k \in Nat, k > 0
  PROVE  n \div k \in Nat /\ n % k \in 0 .. k - 1 /\ n = (n \div k) * k + (n % k)
OBVIOUS

\* A quotient reaches d when the dividend reaches d times the divisor.
LEMMA DivReaches ==
  ASSUME NEW n \in Nat, NEW d \in Nat, NEW k \in Nat, k > 0
  PROVE  n \div k >= d <=> n >= d * k
<1> DEFINE q == n \div k
           r == n % k
<1>1. q \in Nat /\ r \in Nat /\ r < k /\ n = q * k + r
  BY DivMod
<1>2. d * k \in Nat /\ q * k \in Nat
  BY <1>1
<1> HIDE DEF q, r
<1>3. ASSUME q >= d PROVE q * k >= d * k
  BY <1>1, <1>3
<1>4. ASSUME q < d PROVE q * k + k <= d * k
  <2>1. q + 1 <= d
    BY <1>1, <1>4
  <2>2. (q + 1) * k <= d * k
    BY <1>1, <2>1
  <2>3. (q + 1) * k = q * k + k
    BY <1>1
  <2> QED
    BY <2>2, <2>3
<1>5. q >= d <=> n >= d * k
  <2>1. CASE q >= d
    BY <1>1, <1>2, <1>3, <2>1
  <2>2. CASE q < d
    BY <1>1, <1>2, <1>4, <2>2
  <2> QED
    BY <1>1, <2>1, <2>2
<1> QED
  BY <1>5 DEF q

\* Every unit is a whole positive number of nanoseconds.
LEMMA UnitsPositive ==
  /\ H!NANOSEC \in Nat /\ H!NANOSEC > 0
  /\ H!NANOSEC \div H!MICROSEC \in Nat /\ H!NANOSEC \div H!MICROSEC > 0
  /\ H!NANOSEC \div H!MILLISEC \in Nat /\ H!NANOSEC \div H!MILLISEC > 0
  /\ H!NANOSEC \div H!SEC \in Nat /\ H!NANOSEC \div H!SEC > 0
<1>1. Kilo \in Nat /\ Kilo > 0
  BY LibsplAssumption DEF LibsplAssumption, H!HrtimeAssumption
<1>2. Kilo * Kilo \in Nat /\ Kilo * Kilo >= Kilo
  BY <1>1
<1>3. Kilo * Kilo * Kilo \in Nat /\ Kilo * Kilo * Kilo >= Kilo * Kilo
  <2> DEFINE k == Kilo * Kilo
  <2>1. k \in Nat
    BY <1>2
  <2> HIDE DEF k
  <2>2. k * Kilo \in Nat /\ k * Kilo >= k
    BY <1>1, <2>1
  <2> QED
    BY <2>2 DEF k
<1>4. ASSUME NEW n \in Nat, NEW m \in Nat, m > 0, n >= m
      PROVE  n \div m \in Nat /\ n \div m > 0
  <2>1. n >= 1 * m
    BY <1>4
  <2>2. n \div m >= 1
    BY <1>4, <2>1, DivReaches
  <2> QED
    BY <1>4, <2>2, DivMod
<1>5. H!NANOSEC \in Nat /\ H!NANOSEC >= H!MICROSEC
  BY <1>2, <1>3 DEF H!NANOSEC, H!MICROSEC
<1>6. H!MICROSEC \in Nat /\ H!MICROSEC >= H!MILLISEC
  BY <1>2 DEF H!MICROSEC, H!MILLISEC
<1>7. H!MILLISEC \in Nat /\ H!MILLISEC >= H!SEC /\ H!SEC \in Nat /\ H!SEC > 0
  BY <1>1 DEF H!MILLISEC, H!SEC
<1> QED
  BY <1>4, <1>5, <1>6, <1>7

LEMMA HrtimeInit == ASSUME H!Init PROVE HrtimeInv
<1>1. Clock = 0
  BY UnitsPositive DEF H!Init, Clock
<1> QED
  BY <1>1 DEF H!Init, HrtimeInv

\* Time that passes moves the clock forward, also across the carry.
LEMMA TickForward ==
  ASSUME HrtimeInv, NEW n \in Nat, H!Tick(n)
  PROVE  mono' \in [sec : Nat, nsec : Nat] /\ Clock' = Clock + n
<1> DEFINE N == H!NANOSEC
           total == mono.nsec + n
           q == total \div N
           r == total % N
<1>1. N \in Nat /\ N > 0
  BY UnitsPositive
<1>2. total \in Nat /\ mono.sec \in Nat /\ mono.nsec \in Nat
  BY DEF HrtimeInv
<1>3. mono' = [sec |-> mono.sec + q, nsec |-> r]
  BY DEF H!Tick
<1> HIDE DEF N
<1>4. q \in Nat /\ r \in Nat /\ total = q * N + r
  <2> HIDE DEF total
  <2> QED
    BY <1>1, <1>2, DivMod
<1> HIDE DEF q, r
<1>5. mono'.sec = mono.sec + q /\ mono'.nsec = r
  BY <1>3
<1>6. (mono.sec + q) * N + r = mono.sec * N + (q * N + r)
  <2>1. \A a, b, c, d \in Nat : (a + b) * c + d = a * c + (b * c + d)
    OBVIOUS
  <2> QED
    BY <1>1, <1>2, <1>4, <2>1
<1>7. Clock' = mono.sec * N + total
  BY <1>4, <1>5, <1>6 DEF Clock, N, H!NANOSEC
<1>8. Clock' = Clock + n
  <2>1. mono.sec * N \in Nat
    BY <1>1, <1>2
  <2> QED
    BY <1>2, <1>7, <2>1 DEF Clock, N
<1> QED
  BY <1>2, <1>3, <1>4, <1>8

LEMMA HrtimeStep ==
  ASSUME HrtimeInv, [H!Next]_(H!vars)
  PROVE  HrtimeInv' /\ hrtime' >= hrtime
<1>1. Clock \in Nat
  BY UnitsPositive DEF HrtimeInv, Clock
<1>2. ASSUME NEW n \in H!Ticks, H!Tick(n) PROVE HrtimeInv' /\ hrtime' >= hrtime
  <2>1. n \in Nat
    BY LibsplAssumption, UnitsPositive DEF LibsplAssumption, H!HrtimeAssumption, H!Ticks
  <2>2. hrtime' = hrtime
    BY <1>2 DEF H!Tick
  <2> QED
    BY <1>1, <1>2, <2>1, <2>2, TickForward DEF HrtimeInv
<1>3. CASE H!gethrtime
  <2>1. hrtime' = Clock /\ mono' = mono
    BY <1>3 DEF H!gethrtime, Clock
  <2>2. Clock' = Clock
    BY <2>1 DEF Clock, H!NANOSEC
  <2> QED
    BY <1>1, <2>1, <2>2 DEF HrtimeInv
<1>4. CASE hrtime' = hrtime /\ mono' = mono
  <2>1. Clock' = Clock
    BY <1>4 DEF Clock, H!NANOSEC
  <2> QED
    BY <1>1, <1>4, <2>1 DEF HrtimeInv
<1> QED
  BY <1>2, <1>3, <1>4 DEF H!Next, H!vars, H!SetTime, H!gethrestime

LEMMA HrtimeNeverEarly == ASSUME HrtimeInv PROVE NeverEarly
<1> SUFFICES ASSUME NEW d \in 0 .. (MaxSec + 1) * H!MICROSEC
             PROVE  /\ H!NSEC2USEC(hrtime) >= d <=> hrtime >= H!USEC2NSEC(d)
                    /\ H!NSEC2MSEC(hrtime) >= d <=> hrtime >= H!MSEC2NSEC(d)
                    /\ H!NSEC2SEC(hrtime) >= d <=> hrtime >= H!SEC2NSEC(d)
  BY DEF NeverEarly, H!NeverEarly
<1>1. d \in Nat /\ hrtime \in Nat
  BY DEF HrtimeInv
<1> QED
  BY <1>1, UnitsPositive, DivReaches
     DEF H!NSEC2USEC, H!USEC2NSEC, H!NSEC2MSEC, H!MSEC2NSEC, H!NSEC2SEC, H!SEC2NSEC

\* For any ratio between the units: a timeout tested in a coarser unit expires
\* at the same moment as in nanoseconds.
THEOREM TimeOfLibspl == Spec => []NeverEarly
<1>1. Init => HrtimeInv
  BY HrtimeInit DEF Init
<1>2. HrtimeInv /\ [Next]_vars => HrtimeInv'
  BY PartSteps, HrtimeStep
<1> QED
  BY <1>1, <1>2, HrtimeNeverEarly, PTL DEF Spec

\* For any ratio between the units and any passing of time: gethrtime() never
\* goes back, whatever is done to the wall clock.
THEOREM HrtimeForward == Spec => HrtimeMonotone
<1>1. Init => HrtimeInv
  BY HrtimeInit DEF Init
<1>2. HrtimeInv /\ [Next]_vars => HrtimeInv' /\ [hrtime' >= hrtime]_(H!vars)
  BY PartSteps, HrtimeStep
<1> QED
  BY <1>1, <1>2, PTL DEF Spec, HrtimeMonotone, H!HrtimeMonotone

(***************************************************************************)
(* uio.h, for vectors of any length and buffers of any size                *)
(***************************************************************************)
\* The bytes in the first i buffers.
Bytes(i) == SumFunctionOnSet(iov, 1 .. i)

UioInv ==
  /\ iov \in Seq(Nat) /\ loffset \in Int /\ resid \in Int
  /\ uioAt \in {"new", "ready", "loop", "found", "taken"}
  /\ loffset + resid = Bytes(Len(iov))
  /\ uioAt = "new" => loffset = 0
  /\ uioAt \in {"loop", "found", "taken"} =>
       /\ asked \in Nat /\ off \in Nat /\ vec_idx \in 0 .. Len(iov)
       /\ Bytes(vec_idx) + off = asked
  /\ uioAt \in {"found", "taken"} => ~O!LoopTest
  /\ uioAt = "taken" /\ vec_idx < Len(iov) => len = iov[vec_idx + 1]

\* The sums of the instance are those of Sums.
LEMMA SumsSame == \A f, T : O!SumFunctionOnSet(f, T) = SumFunctionOnSet(f, T)
BY DEF O!SumFunctionOnSet, O!FoldFunctionOnSet, O!MapThenFoldSet,
       SumFunctionOnSet, FoldFunctionOnSet, MapThenFoldSet

\* The bytes in front of a buffer, with it and in all.
LEMMA BytesFacts ==
  ASSUME iov \in Seq(Nat)
  PROVE  /\ Bytes(0) = 0
         /\ \A i \in 0 .. Len(iov) : Bytes(i) \in Nat /\ Bytes(i) <= Bytes(Len(iov))
         /\ \A i \in 0 .. Len(iov) : i < Len(iov) =>
              iov[i + 1] \in Nat /\ i + 1 \in 0 .. Len(iov) /\ Bytes(i + 1) = Bytes(i) + iov[i + 1]
<1>1. Len(iov) \in Nat /\ \A j \in 1 .. Len(iov) : iov[j] \in Nat
  OBVIOUS
<1>2. Bytes(0) = 0
  <2>1. 1 .. 0 = {}
    OBVIOUS
  <2> QED
    BY <2>1, SumEmpty DEF Bytes
<1>3. ASSUME NEW i \in 0 .. Len(iov)
      PROVE  Bytes(i) \in Nat /\ Bytes(i) <= Bytes(Len(iov))
  <2>1. /\ IsFiniteSet(1 .. i) /\ IsFiniteSet(1 .. Len(iov)) /\ 1 .. i \in SUBSET (1 .. Len(iov))
        /\ \A j \in 1 .. i : iov[j] \in Nat
    <3>1. i \in Int /\ 1 .. i \in SUBSET (1 .. Len(iov))
      BY <1>1
    <3>2. IsFiniteSet(1 .. i) /\ IsFiniteSet(1 .. Len(iov))
      BY <1>1, <3>1, FS_Interval
    <3> QED
      BY <1>1, <3>1, <3>2
  <2>2. Bytes(i) \in Nat
    BY <2>1, SumNat DEF Bytes
  <2>3. Bytes(i) <= Bytes(Len(iov))
    BY <1>1, <2>1, SumSubset DEF Bytes
  <2> QED
    BY <2>2, <2>3
<1>4. ASSUME NEW i \in 0 .. Len(iov), i < Len(iov)
      PROVE  iov[i + 1] \in Nat /\ i + 1 \in 0 .. Len(iov) /\ Bytes(i + 1) = Bytes(i) + iov[i + 1]
  <2>1. i \in Nat /\ \A j \in 1 .. i + 1 : iov[j] \in Nat
    BY <1>1, <1>4
  <2>2. Bytes(i + 1) = Bytes(i) + iov[i + 1]
    BY <2>1, SumUpto DEF Bytes
  <2> QED
    BY <1>1, <1>4, <2>2
<1> QED
  BY <1>2, <1>3, <1>4

LEMMA UioInit == ASSUME O!Init PROVE UioInv
<1>1. iov = <<>> /\ iov \in Seq(Nat) /\ Len(iov) = 0
  BY DEF O!Init
<1>2. Bytes(Len(iov)) = 0
  BY <1>1, BytesFacts
<1> QED
  BY <1>1, <1>2 DEF O!Init, UioInv

LEMMA UioStep ==
  ASSUME UioInv, [O!Next]_(O!vars)
  PROVE  UioInv'
<1>1. iov \in Seq(Nat) /\ loffset \in Int /\ resid \in Int /\ loffset + resid = Bytes(Len(iov))
  BY DEF UioInv
<1>2. ASSUME NEW lens \in O!Vectors, O!Setup(lens) PROVE UioInv'
  <2>1. PICK n \in 0 .. MaxIov : lens \in [1 .. n -> Lengths]
    BY DEF O!Vectors
  <2>2. n \in Nat /\ lens \in Seq(Nat) /\ Len(lens) = n
    <3>1. n \in Nat /\ Lengths \subseteq Nat
      BY LibsplAssumption DEF LibsplAssumption, O!UioAssumption
    <3>2. lens \in [1 .. n -> Nat]
      BY <2>1, <3>1
    <3> QED
      BY <3>1, <3>2
  <2>3. /\ iov' = lens /\ resid' = SumFunctionOnSet(lens, 1 .. Len(lens)) /\ uioAt' = "ready"
        /\ loffset' = loffset /\ loffset = 0
    BY <1>2, SumsSame DEF O!Setup, UioInv
  <2>4. Bytes(Len(iov))' = resid'
    BY <2>3 DEF Bytes
  <2>5. resid' \in Nat
    <3>1. IsFiniteSet(1 .. Len(lens)) /\ \A j \in 1 .. Len(lens) : lens[j] \in Nat
      BY <2>2, FS_Interval
    <3> QED
      BY <2>3, <3>1, SumNat
  <2> QED
    BY <2>2, <2>3, <2>4, <2>5 DEF UioInv
<1>3. ASSUME iov' = iov PROVE \A i : Bytes(i)' = Bytes(i)
  BY <1>3 DEF Bytes
<1>4. ASSUME NEW o \in 0 .. O!Total + 1, O!Lookup(o) PROVE UioInv'
  <2>1. /\ iov' = iov /\ loffset' = loffset /\ resid' = resid /\ uioAt' = "loop"
        /\ asked' = o /\ off' = o /\ vec_idx' = 0
    BY <1>4 DEF O!Lookup
  <2>2. o \in Nat
    <3>1. O!Total = Bytes(Len(iov))
      BY SumsSame DEF O!Total, O!Upto, Bytes
    <3>2. Len(iov) \in Nat /\ Bytes(Len(iov)) \in Nat
      BY <1>1, BytesFacts
    <3> QED
      BY <3>1, <3>2
  <2>3. Bytes(0) = 0 /\ Len(iov) \in Nat
    BY <1>1, BytesFacts
  <2>4. Bytes(vec_idx)' = 0 /\ Bytes(Len(iov))' = Bytes(Len(iov))
    BY <2>1, <2>3 DEF Bytes
  <2> QED
    BY <1>1, <2>1, <2>2, <2>3, <2>4 DEF UioInv
<1>5. CASE O!zfs_uio_index_at_offset
  <2>1. /\ iov' = iov /\ loffset' = loffset /\ resid' = resid /\ asked' = asked /\ uioAt = "loop"
        /\ Bytes(Len(iov))' = Bytes(Len(iov))
    BY <1>5 DEF O!zfs_uio_index_at_offset, Bytes
  <2>2. asked \in Nat /\ off \in Nat /\ vec_idx \in 0 .. Len(iov) /\ Bytes(vec_idx) + off = asked
    BY <2>1 DEF UioInv
  <2>3. CASE O!LoopTest
    <3> DEFINE w == vec_idx + 1
    <3>1. vec_idx < Len(iov) /\ off >= iov[w] /\ off' = off - iov[w] /\ vec_idx' = w /\ uioAt' = uioAt
      BY <1>5, <2>3 DEF O!zfs_uio_index_at_offset, O!LoopTest
    <3>2. iov[w] \in Nat /\ w \in 0 .. Len(iov) /\ Bytes(w) = Bytes(vec_idx) + iov[w]
          /\ Bytes(vec_idx) \in Nat
      BY <1>1, <2>2, <3>1, BytesFacts
    <3>3. Bytes(vec_idx)' = Bytes(w)
      BY <2>1, <3>1 DEF Bytes
    <3> HIDE DEF w
    <3>4. off' \in Nat /\ Bytes(vec_idx)' + off' = asked
      BY <2>2, <3>1, <3>2, <3>3
    <3> QED
      BY <1>1, <2>1, <2>2, <3>1, <3>2, <3>4 DEF UioInv
  <2>4. CASE ~O!LoopTest
    <3>1. off' = off /\ vec_idx' = vec_idx /\ uioAt' = "found"
      BY <1>5, <2>4 DEF O!zfs_uio_index_at_offset
    <3>2. Bytes(vec_idx)' = Bytes(vec_idx) /\ ~O!LoopTest'
      BY <2>1, <2>4, <3>1 DEF Bytes, O!LoopTest
    <3> QED
      BY <1>1, <2>1, <2>2, <3>1, <3>2 DEF UioInv
  <2> QED
    BY <2>3, <2>4
<1>6. CASE O!zfs_uio_iov_at_index
  <2>1. /\ iov' = iov /\ loffset' = loffset /\ resid' = resid /\ asked' = asked /\ off' = off
        /\ vec_idx' = vec_idx /\ uioAt = "found" /\ uioAt' = "taken"
    BY <1>6 DEF O!zfs_uio_iov_at_index
  <2>2. vec_idx < Len(iov) => len' = iov[vec_idx + 1]
    BY <1>6 DEF O!zfs_uio_iov_at_index
  <2>3. \A i : Bytes(i)' = Bytes(i)
    BY <1>3, <2>1
  <2>4. Bytes(vec_idx)' = Bytes(vec_idx) /\ Bytes(Len(iov))' = Bytes(Len(iov))
    BY <2>1 DEF Bytes
  <2>5. ~O!LoopTest'
    BY <2>1 DEF UioInv, O!LoopTest
  <2> QED
    BY <2>1, <2>2, <2>4, <2>5 DEF UioInv
<1>7. ASSUME NEW size \in Sizes, O!zfs_uio_advance(size) PROVE UioInv'
  <2>1. /\ iov' = iov /\ asked' = asked /\ off' = off /\ vec_idx' = vec_idx /\ len' = len
        /\ uioAt' = uioAt /\ uioAt # "new"
        /\ loffset' = loffset + size /\ resid' = resid - size
    BY <1>7 DEF O!zfs_uio_advance, O!caller
  <2>2. size \in Int
    BY LibsplAssumption DEF LibsplAssumption, O!UioAssumption
  <2>3. Bytes(vec_idx)' = Bytes(vec_idx) /\ Bytes(Len(iov))' = Bytes(Len(iov))
        /\ O!LoopTest' = O!LoopTest
    BY <2>1 DEF Bytes, O!LoopTest
  <2>4. loffset' \in Int /\ resid' \in Int /\ loffset' + resid' = Bytes(Len(iov))
    <3>1. Len(iov) \in Nat /\ Bytes(Len(iov)) \in Nat
      BY <1>1, BytesFacts
    <3> QED
      BY <1>1, <2>1, <2>2, <3>1
  <2> QED
    BY <1>1, <2>1, <2>3, <2>4 DEF UioInv
<1>8. CASE UNCHANGED O!vars
  BY <1>8 DEF O!vars, UioInv, Bytes, O!LoopTest
<1> QED
  BY <1>2, <1>4, <1>5, <1>6, <1>7, <1>8 DEF O!Next

LEMMA UioFinds == ASSUME UioInv PROVE LookupFindsTheByte
<1>1. \A i : O!Upto(i) = Bytes(i)
  BY SumsSame DEF O!Upto, Bytes
<1>2. O!Total = Bytes(Len(iov))
  BY <1>1 DEF O!Total
<1>3. loffset + resid = O!Total
  BY <1>2 DEF UioInv
<1>4. ASSUME uioAt \in {"found", "taken"}
      PROVE  /\ Bytes(vec_idx) + off = asked
             /\ vec_idx = Len(iov) <=> asked >= Bytes(Len(iov))
             /\ uioAt = "taken" /\ asked < Bytes(Len(iov)) =>
                  len - off > 0 /\ asked + (len - off) = Bytes(vec_idx + 1)
                    /\ Bytes(vec_idx + 1) <= Bytes(Len(iov))
  <2>1. /\ iov \in Seq(Nat) /\ asked \in Nat /\ off \in Nat /\ vec_idx \in 0 .. Len(iov)
        /\ Bytes(vec_idx) + off = asked
    BY <1>4 DEF UioInv
  <2>2. Bytes(vec_idx) \in Nat /\ Len(iov) \in Nat
    BY <2>1, BytesFacts
  <2>3. CASE vec_idx < Len(iov)
    <3> DEFINE w == vec_idx + 1
    <3>1. iov[w] \in Nat /\ w \in 0 .. Len(iov) /\ Bytes(w) = Bytes(vec_idx) + iov[w]
      BY <2>1, <2>3, BytesFacts
    <3>2. Bytes(w) <= Bytes(Len(iov)) /\ Bytes(w) \in Nat /\ Bytes(Len(iov)) \in Nat
      BY <2>1, <2>2, <3>1, BytesFacts
    <3>3. off < iov[w]
      BY <1>4, <2>1, <2>3, <3>1 DEF UioInv, O!LoopTest
    <3>0. uioAt = "taken" => len = iov[w]
      BY <2>3 DEF UioInv
    <3> HIDE DEF w
    <3>4. /\ asked < Bytes(Len(iov))
          /\ iov[w] - off > 0 /\ asked + (iov[w] - off) = Bytes(w)
      <4>1. Bytes(vec_idx) + iov[w] <= Bytes(Len(iov))
        BY <3>1, <3>2
      <4>2. /\ Bytes(vec_idx) + off < Bytes(Len(iov)) /\ iov[w] - off > 0
            /\ Bytes(vec_idx) + off + (iov[w] - off) = Bytes(vec_idx) + iov[w]
        <5> DEFINE b == Bytes(vec_idx)
                   z == iov[w]
                   all == Bytes(Len(iov))
        <5>1. b \in Nat /\ off \in Nat /\ z \in Nat /\ all \in Nat /\ off < z /\ b + z <= all
          BY <2>1, <2>2, <3>1, <3>2, <3>3, <4>1
        <5> HIDE DEF b, z, all
        <5>2. b + off < all /\ z - off > 0 /\ b + off + (z - off) = b + z
          BY <5>1
        <5> QED
          BY <5>2 DEF b, z, all
      <4> QED
        BY <2>1, <3>1, <4>2, Zenon
    <3>5. ~(vec_idx = Len(iov)) /\ ~(asked >= Bytes(Len(iov)))
      BY <2>1, <2>2, <2>3, <3>2, <3>4
    <3>6. ASSUME uioAt = "taken"
          PROVE  len - off > 0 /\ asked + (len - off) = Bytes(w)
      BY <3>0, <3>4, <3>6
    <3> QED
      BY <2>1, <3>2, <3>5, <3>6 DEF w
  <2>4. CASE vec_idx = Len(iov)
    <3>1. asked >= Bytes(Len(iov)) /\ ~(asked < Bytes(Len(iov)))
      BY <2>1, <2>2, <2>4
    <3> QED
      BY <2>1, <2>4, <3>1
  <2> QED
    BY <2>1, <2>2, <2>3, <2>4
<1> QED
  BY <1>1, <1>2, <1>3, <1>4 DEF LookupFindsTheByte, O!LookupFindsTheByte

\* For vectors of any number of buffers of any size, empty ones included, and
\* offsets up to one past the end: zfs_uio_index_at_offset() finds the buffer and
\* the rest of the offset, what zfs_uio_iov_at_index() then gives reaches from the
\* offset to the end of that buffer, and whatever sizes zfs_uio_advance() is called
\* with, uio_loffset and uio_resid add up to the length of the vector.
THEOREM UioOfLibspl == Spec => []LookupFindsTheByte
<1>1. Init => UioInv
  BY UioInit DEF Init
<1>2. UioInv /\ [Next]_vars => UioInv'
  BY PartSteps, UioStep
<1> QED
  BY <1>1, <1>2, UioFinds, PTL DEF Spec

(***************************************************************************)
(* byteorder.h, for words of any bytes.  Each macro is described by what   *)
(* it does to the n bytes of a word: it leaves them or it reverses them.   *)
(***************************************************************************)
\* The n low bytes of x, the most significant first.
Flip(n, x) == [i \in 1 .. n |-> x[n + 1 - i]]

\* n bytes of the memory m from a on, and m with b put there.
Get(m, a, n) == [i \in 1 .. n |-> m[a + i - 1]]
Put(m, a, n, b) == [i \in DOMAIN m |-> IF i \in a .. a + n - 1 THEN b[i - a + 1] ELSE m[i]]

\* Bytes one after the other.
LEMMA Joined ==
  ASSUME NEW n \in Nat, NEW x \in [1 .. n -> Nat], NEW y \in [1 .. n -> Nat]
  PROVE  x \o y = [i \in 1 .. n + n |-> IF i <= n THEN x[i] ELSE y[i - n]]
<1> DEFINE r == x \o y
<1>1. x \in Seq(Nat) /\ y \in Seq(Nat) /\ Len(x) = n /\ Len(y) = n
  OBVIOUS
<1>2. /\ r \in Seq(Nat) /\ Len(r) = Len(x) + Len(y)
      /\ \A i \in 1 .. Len(x) + Len(y) :
           r[i] = IF i <= Len(x) THEN x[i] ELSE y[i - Len(x)]
  BY <1>1, ConcatProperties, Zenon
<1> HIDE DEF r
<1>3. r = [i \in 1 .. n + n |-> IF i <= n THEN x[i] ELSE y[i - n]]
  BY <1>1, <1>2
<1> QED
  BY <1>3 DEF r

\* A part of a word, or of memory.
LEMMA Cut ==
  ASSUME NEW m, NEW a \in Nat, NEW z \in Nat, a <= z, \A i \in a .. z : m[i] \in Nat
  PROVE  /\ SubSeq(m, a, z) = Get(m, a, z - a + 1)
         /\ Get(m, a, z - a + 1) \in [1 .. z - a + 1 -> Nat]
<1> DEFINE r == SubSeq(m, a, z)
<1>1. a \in Int /\ z \in Int /\ \A i \in a .. z : m[i] \in Nat
  OBVIOUS
<1>2. r \in Seq(Nat)
  BY <1>1, SubSeqProperties, Zenon
<1>3. Len(r) = IF a <= z THEN z - a + 1 ELSE 0
  BY <1>1, SubSeqProperties, Zenon
<1>4. \A i \in 1 .. z - a + 1 : r[i] = m[a + i - 1]
  BY <1>1, SubSeqProperties
<1> HIDE DEF r
<1>5. Len(r) = z - a + 1 /\ r = [i \in 1 .. Len(r) |-> r[i]]
  BY <1>1, <1>2, <1>3
<1>6. r = Get(m, a, z - a + 1)
  BY <1>1, <1>4, <1>5 DEF Get
<1>7. Get(m, a, z - a + 1) \in [1 .. z - a + 1 -> Nat]
  BY DEF Get
<1> QED
  BY <1>6, <1>7, Zenon DEF r

\* x >> 8 * k drops the k low bytes.
LEMMA ShrIs ==
  ASSUME NEW n \in Nat, NEW k \in Nat, k < n, NEW x \in [1 .. n -> Nat]
  PROVE  /\ B!Shr(x, k) = [i \in 1 .. n - k |-> x[k + i]]
         /\ B!Shr(x, k) \in [1 .. n - k -> Nat]
<1>1. Len(x) = n /\ k + 1 \in Nat /\ k + 1 <= n /\ n - (k + 1) + 1 = n - k
  OBVIOUS
<1>2. \A i \in k + 1 .. n : x[i] \in Nat
  OBVIOUS
<1>3. SubSeq(x, k + 1, n) = Get(x, k + 1, n - (k + 1) + 1)
  BY <1>1, <1>2, Cut, Zenon
<1>4. B!Shr(x, k) = Get(x, k + 1, n - k)
  BY <1>1, <1>3, Zenon DEF B!Shr
<1>5. Get(x, k + 1, n - k) = [i \in 1 .. n - k |-> x[k + i]]
  BY DEF Get
<1>6. [i \in 1 .. n - k |-> x[k + i]] \in [1 .. n - k -> Nat]
  OBVIOUS
<1> QED
  BY <1>4, <1>5, <1>6, Zenon

\* BSWAP of a word is the BSWAP of its halves, exchanged.
LEMMA FlipHalves ==
  ASSUME NEW n \in Nat \ {0}, NEW l \in Nat, n + n <= l, NEW x \in [1 .. l -> Nat]
  PROVE  /\ B!Shr(x, n) \in [1 .. l - n -> Nat] /\ l - n \in Nat /\ n <= l - n /\ n <= l
         /\ Flip(n, B!Shr(x, n)) \o Flip(n, x) = Flip(n + n, x)
<1> DEFINE h == B!Shr(x, n)
<1>1. n \in Nat /\ n < l /\ l - n \in Nat /\ n <= l - n
  OBVIOUS
<1>0. h = [i \in 1 .. l - n |-> x[n + i]] /\ h \in [1 .. l - n -> Nat]
  BY <1>1, ShrIs, Zenon
<1> HIDE DEF h
<1>2. Flip(n, h) \in [1 .. n -> Nat] /\ Flip(n, x) \in [1 .. n -> Nat]
  BY <1>0 DEF Flip
<1>3. Flip(n, h) \o Flip(n, x)
        = [i \in 1 .. n + n |-> IF i <= n THEN Flip(n, h)[i] ELSE Flip(n, x)[i - n]]
  BY <1>2, Joined, Zenon
<1>4. [i \in 1 .. n + n |-> IF i <= n THEN Flip(n, h)[i] ELSE Flip(n, x)[i - n]]
        = Flip(n + n, x)
  BY <1>0 DEF Flip
<1>5. n <= l
  OBVIOUS
<1> QED
  BY <1>0, <1>1, <1>3, <1>4, <1>5, Zenon DEF h

\* BSWAP_n() reverses the n low bytes, whatever is above them.
LEMMA SwapIs ==
  ASSUME NEW l \in Nat, NEW x \in [1 .. l -> Nat]
  PROVE  \A n \in {1, 2, 4, 8} : n <= l => B!BSWAP(n, x) = Flip(n, x)
<1>1. ASSUME NEW k \in Nat, NEW y \in [1 .. k -> Nat], 1 <= k
      PROVE  B!BSWAP_8(y) = Flip(1, y)
  <2>1. 1 \in Nat /\ 1 <= 1 /\ 1 - 1 + 1 = 1 /\ \A i \in 1 .. 1 : y[i] \in Nat
    BY <1>1
  <2>2. SubSeq(y, 1, 1) = Get(y, 1, 1 - 1 + 1)
    BY <2>1, Cut, Zenon
  <2>3. Get(y, 1, 1) = Flip(1, y)
    BY DEF Get, Flip
  <2> QED
    BY <2>1, <2>2, <2>3, Zenon DEF B!BSWAP_8
<1>2. ASSUME NEW k \in Nat, NEW y \in [1 .. k -> Nat], 2 <= k
      PROVE  B!BSWAP_16(y) = Flip(2, y)
  <2>1. 1 \in Nat \ {0} /\ 1 + 1 <= k /\ 1 + 1 = 2
    BY <1>2
  <2>2. B!BSWAP_8(B!Shr(y, 1)) = Flip(1, B!Shr(y, 1)) /\ B!BSWAP_8(y) = Flip(1, y)
    <3>1. /\ B!Shr(y, 1) \in [1 .. k - 1 -> Nat]
          /\ k - 1 \in Nat /\ 1 <= k - 1 /\ 1 <= k
      BY <2>1, FlipHalves, Zenon
    <3> QED
      BY <1>1, <3>1, Zenon
  <2>3. Flip(1, B!Shr(y, 1)) \o Flip(1, y) = Flip(2, y)
    BY <2>1, FlipHalves, Zenon
  <2> QED
    BY <2>2, <2>3, Zenon DEF B!BSWAP_16
<1>3. ASSUME NEW k \in Nat, NEW y \in [1 .. k -> Nat], 4 <= k
      PROVE  B!BSWAP_32(y) = Flip(4, y)
  <2>1. 2 \in Nat \ {0} /\ 2 + 2 <= k /\ 2 + 2 = 4
    BY <1>3
  <2>2. B!BSWAP_16(B!Shr(y, 2)) = Flip(2, B!Shr(y, 2)) /\ B!BSWAP_16(y) = Flip(2, y)
    <3>1. /\ B!Shr(y, 2) \in [1 .. k - 2 -> Nat]
          /\ k - 2 \in Nat /\ 2 <= k - 2 /\ 2 <= k
      BY <2>1, FlipHalves, Zenon
    <3> QED
      BY <1>2, <3>1, Zenon
  <2>3. Flip(2, B!Shr(y, 2)) \o Flip(2, y) = Flip(4, y)
    BY <2>1, FlipHalves, Zenon
  <2> QED
    BY <2>2, <2>3, Zenon DEF B!BSWAP_32
<1>4. ASSUME NEW k \in Nat, NEW y \in [1 .. k -> Nat], 8 <= k
      PROVE  B!BSWAP_64(y) = Flip(8, y)
  <2>1. 4 \in Nat \ {0} /\ 4 + 4 <= k /\ 4 + 4 = 8
    BY <1>4
  <2>2. B!BSWAP_32(B!Shr(y, 4)) = Flip(4, B!Shr(y, 4)) /\ B!BSWAP_32(y) = Flip(4, y)
    <3>1. /\ B!Shr(y, 4) \in [1 .. k - 4 -> Nat]
          /\ k - 4 \in Nat /\ 4 <= k - 4 /\ 4 <= k
      BY <2>1, FlipHalves, Zenon
    <3> QED
      BY <1>3, <3>1, Zenon
  <2>3. Flip(4, B!Shr(y, 4)) \o Flip(4, y) = Flip(8, y)
    BY <2>1, FlipHalves, Zenon
  <2> QED
    BY <2>2, <2>3, Zenon DEF B!BSWAP_64
<1> QED
  BY <1>1, <1>2, <1>3, <1>4 DEF B!BSWAP

\* htons() and htonl() where the host is little-endian.
LEMMA HtonIs ==
  ASSUME NEW l \in Nat, NEW n \in Nat \ {0}, n <= l, NEW x \in [1 .. l -> Nat]
  PROVE  B!hton(FALSE, n, x) = Flip(n, x)
<1>0. 1 \in Nat /\ n \in Nat /\ 1 <= n /\ \A i \in 1 .. n : x[i] \in Nat
  OBVIOUS
<1>1. SubSeq(x, 1, n) = Get(x, 1, n - 1 + 1)
  BY <1>0, Cut, Zenon
<1> DEFINE s == SubSeq(x, 1, n)
<1>2. s = [i \in 1 .. n |-> x[i]]
  <2>1. Get(x, 1, n - 1 + 1) = [i \in 1 .. n |-> x[i]]
    BY DEF Get
  <2> QED
    BY <1>1, <2>1, Zenon
<1>3. B!hton(FALSE, n, x) = B!Reverse(s)
  BY Zenon DEF B!hton, B!BMASK
<1> HIDE DEF s
<1>4. s \in [1 .. n -> Nat]
  BY <1>2
<1>5. Len(s) = n
  BY <1>4
<1>6. B!Reverse(s) = Flip(n, x)
  BY <1>2, <1>5 DEF B!Reverse, Flip
<1> QED
  BY <1>3, <1>6, Zenon

Orders == {"be", "le"}

\* The register that, stored, has its bytes in the order ord.
Registered(big, ord, n, x) == IF big <=> (ord = "be") THEN x ELSE Flip(n, x)

\* What the conversions do to a register of n bytes, on either machine.
LEMMA ConvertIs ==
  ASSUME NEW n \in B!Width, NEW x \in [1 .. n -> Nat], NEW big \in BOOLEAN,
         NEW ord \in Orders, NEW method \in B!Methods(ord, n), method # "bytes"
  PROVE  /\ B!Convert(big, ord, n, method, x) = Registered(big, ord, n, x)
         /\ method = "net" /\ n = 8 => B!ntohll(big, x) = B!htonll(big, x)
<1>1. n \in {1, 2, 4, 8} /\ n \in Nat \ {0} /\ n <= n /\ n \in Nat
  BY DEF B!Width
<1>2. B!BSWAP(n, x) = Flip(n, x)
  BY <1>1, SwapIs, Zenon
<1>3. B!BMASK(n, x) = x
  <2>1. 1 \in Nat /\ 1 <= n /\ n - 1 + 1 = n /\ \A i \in 1 .. n : x[i] \in Nat
    BY <1>1
  <2>2. SubSeq(x, 1, n) = Get(x, 1, n - 1 + 1)
    BY <1>1, <2>1, Cut, Zenon
  <2>3. Get(x, 1, n) = x
    BY <1>1 DEF Get
  <2> QED
    BY <2>1, <2>2, <2>3, Zenon DEF B!BMASK
<1>4. CASE method = "swap"
  BY <1>2, <1>3, <1>4 DEF B!Convert, B!BE, B!LE, Registered, Orders
<1>5. B!hton(big, n, x) = IF big THEN x ELSE Flip(n, x)
  <2>1. B!hton(FALSE, n, x) = Flip(n, x)
    BY <1>1, HtonIs, Zenon
  <2> QED
    BY <2>1, Zenon DEF B!hton
<1>6. ASSUME n = 8
      PROVE  B!htonll(big, x) = IF big THEN x ELSE Flip(n, x)
  <2>1. 4 \in Nat \ {0} /\ 4 + 4 <= n /\ 4 + 4 = 8 /\ 4 <= n
    BY <1>6
  <2>2. /\ B!Shr(x, 4) \in [1 .. n - 4 -> Nat] /\ n - 4 \in Nat /\ 4 <= n - 4
        /\ Flip(4, B!Shr(x, 4)) \o Flip(4, x) = Flip(4 + 4, x)
    BY <1>1, <2>1, FlipHalves, Zenon
  <2>3. B!hton(FALSE, 4, B!Shr(x, 4)) = Flip(4, B!Shr(x, 4))
    BY <2>1, <2>2, HtonIs, Zenon
  <2>4. B!hton(FALSE, 4, x) = Flip(4, x)
    BY <1>1, <2>1, HtonIs, Zenon
  <2>5. CASE big
    BY <2>5, Zenon DEF B!htonll
  <2>6. CASE ~big
    <3>1. big = FALSE
      BY <2>6
    <3> QED
      BY <1>6, <2>1, <2>2, <2>3, <2>4, <3>1, Zenon DEF B!htonll
  <2> QED
    BY <2>5, <2>6
<1>7. CASE method = "net"
  <2>1. ord = "be"
    BY <1>7 DEF B!Methods
  <2>2. B!Convert(big, ord, n, method, x)
          = IF n = 8 THEN B!htonll(big, x) ELSE B!hton(big, n, x)
    BY <1>7 DEF B!Convert
  <2>3. B!ntohll(big, x) = B!htonll(big, x)
    BY Zenon DEF B!ntohll, B!htonll
  <2> QED
    BY <1>5, <1>6, <2>1, <2>2, <2>3 DEF Registered
<1>8. method \in {"swap", "net"}
  BY DEF B!Methods
<1> QED
  BY <1>4, <1>7, <1>8

\* A word flipped twice is as it was.
LEMMA FlipTwice ==
  ASSUME NEW n \in Nat, NEW x \in [1 .. n -> Nat]
  PROVE  Flip(n, x) \in [1 .. n -> Nat] /\ Flip(n, Flip(n, x)) = x
BY DEF Flip

\* The bytes of a word in the order that ord names.
Ordered(ord, n, x) == IF ord = "le" THEN x ELSE Flip(n, x)

\* A memory: anything may be in its cells.
Memory(m) == m = [i \in B!Cells |-> m[i]]

\* A write of two halves, in either order of bytes, is a write of the whole.
WritesHalves(m, a, n, x) ==
  /\ Put(Put(m, a + n, n, Flip(n, x)), a, n, Flip(n, B!Shr(x, n)))
       = Put(m, a, n + n, Flip(n + n, x))
  /\ Put(Put(m, a, n, x), a + n, n, B!Shr(x, n)) = Put(m, a, n + n, x)

LEMMA PutHalves ==
  ASSUME NEW m, Memory(m), NEW a \in Nat,
         NEW n \in Nat \ {0}, NEW l \in Nat, n + n <= l, NEW x \in [1 .. l -> Nat]
  PROVE  WritesHalves(m, a, n, x)
<1> DEFINE h == B!Shr(x, n)
           T == {m[i] : i \in B!Cells}
           C == B!Cells
<1>1. n \in Nat /\ n < l /\ a \in Int
  OBVIOUS
<1>2. h = [i \in 1 .. l - n |-> x[n + i]]
  BY <1>1, ShrIs, Zenon
<1>3. C \in SUBSET Int
  BY DEF B!Cells
<1>4. m \in [C -> T]
  <2> HIDE DEF B!Cells
  <2> QED
    BY DEF Memory
<1> HIDE DEF h, T, C
<1>5. Put(Put(m, a + n, n, Flip(n, x)), a, n, Flip(n, h)) = Put(m, a, n + n, Flip(n + n, x))
  BY <1>1, <1>2, <1>3, <1>4 DEF Put, Flip
<1>6. Put(Put(m, a, n, x), a + n, n, h) = Put(m, a, n + n, x)
  BY <1>1, <1>2, <1>3, <1>4 DEF Put
<1> QED
  BY <1>5, <1>6, Zenon DEF h, WritesHalves

LEMMA PutType ==
  ASSUME NEW m, Memory(m), NEW a, NEW n, NEW b
  PROVE  Memory(Put(m, a, n, b))
<1>1. DOMAIN m = B!Cells
  BY DEF Memory
<1> HIDE DEF B!Cells
<1> QED
  BY <1>1 DEF Put, Memory

\* BE_OUTn() and LE_OUTn() put the n low bytes of a word at a and the cells after
\* it, in their order, and nothing anywhere else.
LEMMA OutIs ==
  ASSUME NEW n \in B!Width, NEW m, Memory(m), NEW a \in Nat,
         NEW x \in [1 .. n -> Nat], NEW ord \in Orders
  PROVE  B!Out(ord, n, m, a, x) = Put(m, a, n, Ordered(ord, n, x))
<1>1. ASSUME NEW k \in Nat, NEW y \in [1 .. k -> Nat], 1 <= k, NEW q, Memory(q),
             NEW c \in Nat
      PROVE  /\ B!BE_OUT8(q, c, y) = Put(q, c, 1, Flip(1, y))
             /\ B!LE_OUT8(q, c, y) = Put(q, c, 1, y)
  <2>1. q = [i \in B!Cells |-> q[i]] /\ B!Cells \subseteq Int
    BY <1>1 DEF Memory, B!Cells
  <2>2. [q EXCEPT ![c] = y[1]] = Put(q, c, 1, y)
    BY <2>1 DEF Put
  <2>3. Put(q, c, 1, y) = Put(q, c, 1, Flip(1, y))
    BY <1>1, <2>1 DEF Put, Flip
  <2> QED
    BY <2>2, <2>3, Zenon DEF B!BE_OUT8, B!LE_OUT8
<1>2. ASSUME NEW k \in Nat, NEW y \in [1 .. k -> Nat], 2 <= k, NEW q, Memory(q),
             NEW c \in Nat
      PROVE  /\ B!BE_OUT16(q, c, y) = Put(q, c, 2, Flip(2, y))
             /\ B!LE_OUT16(q, c, y) = Put(q, c, 2, y)
  <2> DEFINE z == B!Shr(y, 1)
             be == Put(q, c + 1, 1, Flip(1, y))
             le == Put(q, c, 1, y)
  <2>1. 1 \in Nat \ {0} /\ 1 + 1 <= k /\ 1 <= k /\ c + 1 \in Nat
    BY <1>2
  <2>2. z \in [1 .. k - 1 -> Nat] /\ k - 1 \in Nat /\ 1 <= k - 1
    BY <2>1, FlipHalves, Zenon
  <2>3. Memory(be) /\ Memory(le)
    BY <1>2, PutType, Zenon
  <2>4. WritesHalves(q, c, 1, y)
    BY <1>2, <2>1, PutHalves, Zenon
  <2>5. B!BE_OUT8(q, c + 1, y) = be /\ B!LE_OUT8(q, c, y) = le
    BY <1>1, <1>2, <2>1, Zenon
  <2>6. /\ Put(be, c, 1, Flip(1, z)) = Put(q, c, 1 + 1, Flip(1 + 1, y))
        /\ Put(le, c + 1, 1, z) = Put(q, c, 1 + 1, y)
    BY <2>4, Zenon DEF WritesHalves
  <2> HIDE DEF z, be, le
  <2>7. B!BE_OUT8(be, c, z) = Put(be, c, 1, Flip(1, z))
    BY <1>1, <2>2, <2>3, Zenon
  <2>8. B!LE_OUT8(le, c + 1, z) = Put(le, c + 1, 1, z)
    BY <1>1, <2>1, <2>2, <2>3, Zenon
  <2>9. 1 + 1 = 2
    OBVIOUS
  <2> QED
    BY <2>4, <2>5, <2>6, <2>7, <2>8, <2>9, Zenon DEF B!BE_OUT16, B!LE_OUT16, z
<1>3. ASSUME NEW k \in Nat, NEW y \in [1 .. k -> Nat], 4 <= k, NEW q, Memory(q),
             NEW c \in Nat
      PROVE  /\ B!BE_OUT32(q, c, y) = Put(q, c, 4, Flip(4, y))
             /\ B!LE_OUT32(q, c, y) = Put(q, c, 4, y)
  <2> DEFINE z == B!Shr(y, 2)
             be == Put(q, c + 2, 2, Flip(2, y))
             le == Put(q, c, 2, y)
  <2>1. 2 \in Nat \ {0} /\ 2 + 2 <= k /\ 2 <= k /\ c + 2 \in Nat
    BY <1>3
  <2>2. z \in [1 .. k - 2 -> Nat] /\ k - 2 \in Nat /\ 2 <= k - 2
    BY <2>1, FlipHalves, Zenon
  <2>3. Memory(be) /\ Memory(le)
    BY <1>3, PutType, Zenon
  <2>4. WritesHalves(q, c, 2, y)
    BY <1>3, <2>1, PutHalves, Zenon
  <2>5. B!BE_OUT16(q, c + 2, y) = be /\ B!LE_OUT16(q, c, y) = le
    BY <1>2, <1>3, <2>1, Zenon
  <2>6. /\ Put(be, c, 2, Flip(2, z)) = Put(q, c, 2 + 2, Flip(2 + 2, y))
        /\ Put(le, c + 2, 2, z) = Put(q, c, 2 + 2, y)
    BY <2>4, Zenon DEF WritesHalves
  <2> HIDE DEF z, be, le
  <2>7. B!BE_OUT16(be, c, z) = Put(be, c, 2, Flip(2, z))
    BY <1>2, <2>2, <2>3, Zenon
  <2>8. B!LE_OUT16(le, c + 2, z) = Put(le, c + 2, 2, z)
    BY <1>2, <2>1, <2>2, <2>3, Zenon
  <2>9. 2 + 2 = 4
    OBVIOUS
  <2> QED
    BY <2>4, <2>5, <2>6, <2>7, <2>8, <2>9, Zenon DEF B!BE_OUT32, B!LE_OUT32, z
<1>4. ASSUME NEW k \in Nat, NEW y \in [1 .. k -> Nat], 8 <= k, NEW q, Memory(q),
             NEW c \in Nat
      PROVE  /\ B!BE_OUT64(q, c, y) = Put(q, c, 8, Flip(8, y))
             /\ B!LE_OUT64(q, c, y) = Put(q, c, 8, y)
  <2> DEFINE z == B!Shr(y, 4)
             be == Put(q, c + 4, 4, Flip(4, y))
             le == Put(q, c, 4, y)
  <2>1. 4 \in Nat \ {0} /\ 4 + 4 <= k /\ 4 <= k /\ c + 4 \in Nat
    BY <1>4
  <2>2. z \in [1 .. k - 4 -> Nat] /\ k - 4 \in Nat /\ 4 <= k - 4
    BY <2>1, FlipHalves, Zenon
  <2>3. Memory(be) /\ Memory(le)
    BY <1>4, PutType, Zenon
  <2>4. WritesHalves(q, c, 4, y)
    BY <1>4, <2>1, PutHalves, Zenon
  <2>5. B!BE_OUT32(q, c + 4, y) = be /\ B!LE_OUT32(q, c, y) = le
    BY <1>3, <1>4, <2>1, Zenon
  <2>6. /\ Put(be, c, 4, Flip(4, z)) = Put(q, c, 4 + 4, Flip(4 + 4, y))
        /\ Put(le, c + 4, 4, z) = Put(q, c, 4 + 4, y)
    BY <2>4, Zenon DEF WritesHalves
  <2> HIDE DEF z, be, le
  <2>7. B!BE_OUT32(be, c, z) = Put(be, c, 4, Flip(4, z))
    BY <1>3, <2>2, <2>3, Zenon
  <2>8. B!LE_OUT32(le, c + 4, z) = Put(le, c + 4, 4, z)
    BY <1>3, <2>1, <2>2, <2>3, Zenon
  <2>9. 4 + 4 = 8
    OBVIOUS
  <2> QED
    BY <2>4, <2>5, <2>6, <2>7, <2>8, <2>9, Zenon DEF B!BE_OUT64, B!LE_OUT64, z
<1>5. n \in Nat /\ n \in {1, 2, 4, 8}
  BY DEF B!Width
<1>6. CASE n = 1
  <2>1. x \in [1 .. 1 -> Nat] /\ 1 \in Nat /\ 1 <= 1
    BY <1>6
  <2>2. /\ B!BE_OUT8(m, a, x) = Put(m, a, 1, Flip(1, x))
        /\ B!LE_OUT8(m, a, x) = Put(m, a, 1, x)
    BY <1>1, <2>1, Zenon
  <2> QED
    BY <1>6, <2>2 DEF B!Out, Ordered, Orders
<1>7. CASE n = 2
  <2>1. x \in [1 .. 2 -> Nat] /\ 2 \in Nat /\ 2 <= 2
    BY <1>7
  <2>2. /\ B!BE_OUT16(m, a, x) = Put(m, a, 2, Flip(2, x))
        /\ B!LE_OUT16(m, a, x) = Put(m, a, 2, x)
    BY <1>2, <2>1, Zenon
  <2> QED
    BY <1>7, <2>2 DEF B!Out, Ordered, Orders
<1>8. CASE n = 4
  <2>1. x \in [1 .. 4 -> Nat] /\ 4 \in Nat /\ 4 <= 4
    BY <1>8
  <2>2. /\ B!BE_OUT32(m, a, x) = Put(m, a, 4, Flip(4, x))
        /\ B!LE_OUT32(m, a, x) = Put(m, a, 4, x)
    BY <1>3, <2>1, Zenon
  <2> QED
    BY <1>8, <2>2 DEF B!Out, Ordered, Orders
<1>9. CASE n = 8
  <2>1. x \in [1 .. 8 -> Nat] /\ 8 \in Nat /\ 8 <= 8
    BY <1>9
  <2>2. /\ B!BE_OUT64(m, a, x) = Put(m, a, 8, Flip(8, x))
        /\ B!LE_OUT64(m, a, x) = Put(m, a, 8, x)
    BY <1>4, <2>1, Zenon
  <2> QED
    BY <1>9, <2>2 DEF B!Out, Ordered, Orders
<1> QED
  BY <1>5, <1>6, <1>7, <1>8, <1>9

\* BE_INn() and LE_INn() fetch the n bytes at a and after it, in their order.
LEMMA InIs ==
  ASSUME NEW n \in B!Width, NEW m, NEW a \in Nat, \A i \in a .. a + n - 1 : m[i] \in Nat,
         NEW ord \in Orders
  PROVE  B!In(ord, n, m, a) = Ordered(ord, n, Get(m, a, n))
<1> DEFINE Octets(c, l) == \A i \in c .. c + l - 1 : m[i] \in Nat
<1>1. ASSUME NEW c \in Nat, Octets(c, 1)
      PROVE  /\ B!BE_IN8(m, c) = Flip(1, Get(m, c, 1))
             /\ B!LE_IN8(m, c) = Get(m, c, 1)
  BY DEF B!BE_IN8, B!LE_IN8, Get, Flip
<1>2. ASSUME NEW c \in Nat, Octets(c, 2)
      PROVE  /\ B!BE_IN16(m, c) = Flip(2, Get(m, c, 2))
             /\ B!LE_IN16(m, c) = Get(m, c, 2)
  <2> DEFINE lo == Get(m, c, 1)
             hi == Get(m, c + 1, 1)
  <2>1. c + 1 \in Nat /\ Octets(c, 1) /\ Octets(c + 1, 1) /\ 1 \in Nat
    BY <1>2
  <2>2. /\ lo \in [1 .. 1 -> Nat] /\ hi \in [1 .. 1 -> Nat]
        /\ Flip(1, lo) \in [1 .. 1 -> Nat] /\ Flip(1, hi) \in [1 .. 1 -> Nat]
    BY <2>1 DEF Get, Flip
  <2>3. /\ B!BE_IN8(m, c) = Flip(1, lo) /\ B!BE_IN8(m, c + 1) = Flip(1, hi)
        /\ B!LE_IN8(m, c) = lo /\ B!LE_IN8(m, c + 1) = hi
    <3> HIDE DEF Bytes
    <3> QED
      BY <1>1, <2>1, Zenon
  <2>4. Flip(1, hi) \o Flip(1, lo) = [i \in 1 .. 1 + 1 |->
          IF i <= 1 THEN Flip(1, hi)[i] ELSE Flip(1, lo)[i - 1]]
    <3> HIDE DEF lo, hi
    <3> QED
      BY <2>1, <2>2, Joined, Zenon
  <2>5. lo \o hi = [i \in 1 .. 1 + 1 |-> IF i <= 1 THEN lo[i] ELSE hi[i - 1]]
    <3> HIDE DEF lo, hi
    <3> QED
      BY <2>1, <2>2, Joined, Zenon
  <2>6. [i \in 1 .. 1 + 1 |-> IF i <= 1 THEN Flip(1, hi)[i] ELSE Flip(1, lo)[i - 1]]
          = Flip(2, Get(m, c, 2))
    BY DEF Flip, Get
  <2>7. [i \in 1 .. 1 + 1 |-> IF i <= 1 THEN lo[i] ELSE hi[i - 1]] = Get(m, c, 2)
    BY DEF Get
  <2> QED
    BY <2>3, <2>4, <2>5, <2>6, <2>7, Zenon DEF B!BE_IN16, B!LE_IN16
<1>3. ASSUME NEW c \in Nat, Octets(c, 4)
      PROVE  /\ B!BE_IN32(m, c) = Flip(4, Get(m, c, 4))
             /\ B!LE_IN32(m, c) = Get(m, c, 4)
  <2> DEFINE lo == Get(m, c, 2)
             hi == Get(m, c + 2, 2)
  <2>1. c + 2 \in Nat /\ Octets(c, 2) /\ Octets(c + 2, 2) /\ 2 \in Nat
    BY <1>3
  <2>2. /\ lo \in [1 .. 2 -> Nat] /\ hi \in [1 .. 2 -> Nat]
        /\ Flip(2, lo) \in [1 .. 2 -> Nat] /\ Flip(2, hi) \in [1 .. 2 -> Nat]
    BY <2>1 DEF Get, Flip
  <2>3. /\ B!BE_IN16(m, c) = Flip(2, lo) /\ B!BE_IN16(m, c + 2) = Flip(2, hi)
        /\ B!LE_IN16(m, c) = lo /\ B!LE_IN16(m, c + 2) = hi
    <3> HIDE DEF Bytes
    <3> QED
      BY <1>2, <2>1, Zenon
  <2>4. Flip(2, hi) \o Flip(2, lo) = [i \in 1 .. 2 + 2 |->
          IF i <= 2 THEN Flip(2, hi)[i] ELSE Flip(2, lo)[i - 2]]
    <3> HIDE DEF lo, hi
    <3> QED
      BY <2>1, <2>2, Joined, Zenon
  <2>5. lo \o hi = [i \in 1 .. 2 + 2 |-> IF i <= 2 THEN lo[i] ELSE hi[i - 2]]
    <3> HIDE DEF lo, hi
    <3> QED
      BY <2>1, <2>2, Joined, Zenon
  <2>6. [i \in 1 .. 2 + 2 |-> IF i <= 2 THEN Flip(2, hi)[i] ELSE Flip(2, lo)[i - 2]]
          = Flip(4, Get(m, c, 4))
    BY DEF Flip, Get
  <2>7. [i \in 1 .. 2 + 2 |-> IF i <= 2 THEN lo[i] ELSE hi[i - 2]] = Get(m, c, 4)
    BY DEF Get
  <2> QED
    BY <2>3, <2>4, <2>5, <2>6, <2>7, Zenon DEF B!BE_IN32, B!LE_IN32
<1>4. ASSUME NEW c \in Nat, Octets(c, 8)
      PROVE  /\ B!BE_IN64(m, c) = Flip(8, Get(m, c, 8))
             /\ B!LE_IN64(m, c) = Get(m, c, 8)
  <2> DEFINE lo == Get(m, c, 4)
             hi == Get(m, c + 4, 4)
  <2>1. c + 4 \in Nat /\ Octets(c, 4) /\ Octets(c + 4, 4) /\ 4 \in Nat
    BY <1>4
  <2>2. /\ lo \in [1 .. 4 -> Nat] /\ hi \in [1 .. 4 -> Nat]
        /\ Flip(4, lo) \in [1 .. 4 -> Nat] /\ Flip(4, hi) \in [1 .. 4 -> Nat]
    BY <2>1 DEF Get, Flip
  <2>3. /\ B!BE_IN32(m, c) = Flip(4, lo) /\ B!BE_IN32(m, c + 4) = Flip(4, hi)
        /\ B!LE_IN32(m, c) = lo /\ B!LE_IN32(m, c + 4) = hi
    <3> HIDE DEF Bytes
    <3> QED
      BY <1>3, <2>1, Zenon
  <2>4. Flip(4, hi) \o Flip(4, lo) = [i \in 1 .. 4 + 4 |->
          IF i <= 4 THEN Flip(4, hi)[i] ELSE Flip(4, lo)[i - 4]]
    <3> HIDE DEF lo, hi
    <3> QED
      BY <2>1, <2>2, Joined, Zenon
  <2>5. lo \o hi = [i \in 1 .. 4 + 4 |-> IF i <= 4 THEN lo[i] ELSE hi[i - 4]]
    <3> HIDE DEF lo, hi
    <3> QED
      BY <2>1, <2>2, Joined, Zenon
  <2>6. [i \in 1 .. 4 + 4 |-> IF i <= 4 THEN Flip(4, hi)[i] ELSE Flip(4, lo)[i - 4]]
          = Flip(8, Get(m, c, 8))
    BY DEF Flip, Get
  <2>7. [i \in 1 .. 4 + 4 |-> IF i <= 4 THEN lo[i] ELSE hi[i - 4]] = Get(m, c, 8)
    BY DEF Get
  <2> QED
    BY <2>3, <2>4, <2>5, <2>6, <2>7, Zenon DEF B!BE_IN64, B!LE_IN64
<1>5. n \in {1, 2, 4, 8} /\ Octets(a, n)
  BY DEF B!Width
<1> HIDE DEF Bytes
<1>6. CASE n = 1
  <2>1. /\ B!BE_IN8(m, a) = Flip(1, Get(m, a, 1))
        /\ B!LE_IN8(m, a) = Get(m, a, 1)
    BY <1>1, <1>5, <1>6, Zenon
  <2> QED
    BY <1>6, <2>1 DEF B!In, Ordered, Orders
<1>7. CASE n = 2
  <2>1. /\ B!BE_IN16(m, a) = Flip(2, Get(m, a, 2))
        /\ B!LE_IN16(m, a) = Get(m, a, 2)
    BY <1>2, <1>5, <1>7, Zenon
  <2> QED
    BY <1>7, <2>1 DEF B!In, Ordered, Orders
<1>8. CASE n = 4
  <2>1. /\ B!BE_IN32(m, a) = Flip(4, Get(m, a, 4))
        /\ B!LE_IN32(m, a) = Get(m, a, 4)
    BY <1>3, <1>5, <1>8, Zenon
  <2> QED
    BY <1>8, <2>1 DEF B!In, Ordered, Orders
<1>9. CASE n = 8
  <2>1. /\ B!BE_IN64(m, a) = Flip(8, Get(m, a, 8))
        /\ B!LE_IN64(m, a) = Get(m, a, 8)
    BY <1>4, <1>5, <1>9, Zenon
  <2> QED
    BY <1>9, <2>1 DEF B!In, Ordered, Orders
<1> QED
  BY <1>5, <1>6, <1>7, <1>8, <1>9

\* What was put is there.
LEMMA GetPut ==
  ASSUME NEW m, Memory(m), NEW n \in Nat, NEW a \in Nat, a .. a + n - 1 \subseteq B!Cells,
         NEW b \in [1 .. n -> Nat]
  PROVE  /\ Get(Put(m, a, n, b), a, n) = b
         /\ \A i \in a .. a + n - 1 : Put(m, a, n, b)[i] \in Nat
<1> DEFINE p == Put(m, a, n, b)
<1>1. DOMAIN m = B!Cells
  BY DEF Memory
<1> HIDE DEF B!Cells
<1>2. \A i \in a .. a + n - 1 : p[i] = b[i - a + 1]
  BY <1>1 DEF Put
<1> HIDE DEF p
<1>3. Get(p, a, n) = b
  <2>1. \A i \in 1 .. n : p[a + i - 1] = b[i]
    <3>1. \A i \in 1 .. n : a + i - 1 \in a .. a + n - 1 /\ (a + i - 1) - a + 1 = i
      OBVIOUS
    <3> QED
      BY <1>2, <3>1
  <2> QED
    BY <2>1 DEF Get
<1>4. \A i \in a .. a + n - 1 : p[i] \in Nat
  <2>1. \A i \in a .. a + n - 1 : i - a + 1 \in 1 .. n
    OBVIOUS
  <2> QED
    BY <1>2, <2>1
<1> QED
  BY <1>3, <1>4, Zenon DEF p

\* A load and a store of the machine.
LEMMA NativeIs ==
  ASSUME NEW n \in B!Width, NEW big \in BOOLEAN, NEW m, NEW a \in Nat
  PROVE  /\ \A x \in [1 .. n -> Nat] :
              B!NativeStore(big, m, a, x) = Put(m, a, n, IF big THEN Flip(n, x) ELSE x)
         /\ (\A i \in a .. a + n - 1 : m[i] \in Nat) =>
              B!NativeLoad(big, n, m, a)
                = IF big THEN Flip(n, Get(m, a, n)) ELSE Get(m, a, n)
<1>1. n \in Nat \ {0}
  BY DEF B!Width
<1>2. ASSUME NEW x \in [1 .. n -> Nat]
      PROVE  Len(x) = n /\ B!Reverse(x) = Flip(n, x)
             /\ B!Native(big, x) = IF big THEN Flip(n, x) ELSE x
  <2>1. Len(x) = n
    BY <1>1
  <2>2. B!Reverse(x) = Flip(n, x)
    BY <1>1, <2>1 DEF B!Reverse, Flip
  <2> QED
    BY <2>1, <2>2, Zenon DEF B!Native
<1>3. ASSUME NEW x \in [1 .. n -> Nat]
      PROVE  B!NativeStore(big, m, a, x) = Put(m, a, n, IF big THEN Flip(n, x) ELSE x)
  <2>1. Len(x) = n /\ B!Native(big, x) = IF big THEN Flip(n, x) ELSE x
    BY <1>2
  <2> QED
    BY <2>1, Zenon DEF B!NativeStore, Put
<1>4. ASSUME \A i \in a .. a + n - 1 : m[i] \in Nat
      PROVE  B!NativeLoad(big, n, m, a)
               = IF big THEN Flip(n, Get(m, a, n)) ELSE Get(m, a, n)
  <2> DEFINE z == a + n - 1
             g == Get(m, a, n)
  <2>1. z \in Nat /\ a <= z /\ z - a + 1 = n /\ (\A i \in a .. z : m[i] \in Nat)
    BY <1>1, <1>4
  <2>2. SubSeq(m, a, z) = g /\ g \in [1 .. n -> Nat]
    <3> HIDE DEF z
    <3>1. /\ SubSeq(m, a, z) = Get(m, a, z - a + 1)
          /\ Get(m, a, z - a + 1) \in [1 .. z - a + 1 -> Nat]
      BY <2>1, Cut, Zenon
    <3> QED
      BY <2>1, <3>1, Zenon
  <2> HIDE DEF g
  <2>3. B!Native(big, g) = IF big THEN Flip(n, g) ELSE g
    BY <1>2, <2>2, Zenon
  <2> QED
    BY <2>2, <2>3, Zenon DEF B!NativeLoad, g
<1> QED
  BY <1>3, <1>4

\* What every state of a transfer has: the value is in its place in the order that
\* was named, the cells around it are as they were, and so is what was read.
ByteInv ==
  /\ stage \in {"empty", "written", "read"}
  /\ stage = "empty" => buf = [i \in B!Cells |-> Pad]
  /\ stage # "empty" =>
       /\ order \in Orders /\ at \in {1, 2, 3}
       /\ Len(value) \in B!Width /\ value \in [1 .. Len(value) -> Nat]
       /\ buf = Put([i \in B!Cells |-> Pad], at, Len(value),
                    Ordered(order, Len(value), value))
  /\ stage = "read" => got = value

LEMMA ByteInit == ASSUME B!Init PROVE ByteInv
BY DEF B!Init, ByteInv

\* The memory after a write, and the word after a read.
Stored(big, ord, n, method, m, a, x) ==
  IF method = "bytes" THEN B!Out(ord, n, m, a, x)
  ELSE B!NativeStore(big, m, a, B!Convert(big, ord, n, method, x))
Loaded(big, n, method, m, a) ==
  IF method = "bytes" THEN B!In(order, n, m, a)
  ELSE B!Unconvert(big, n, method, B!NativeLoad(big, n, m, a))

\* Whatever the method and the machine, a write puts the bytes in their order.
LEMMA WriteIs ==
  ASSUME NEW n \in B!Width, NEW x \in [1 .. n -> Nat], NEW big \in BOOLEAN,
         NEW ord \in Orders, NEW a \in Nat, NEW method \in B!Methods(ord, n),
         NEW m, Memory(m)
  PROVE  Stored(big, ord, n, method, m, a, x) = Put(m, a, n, Ordered(ord, n, x))
<1>1. CASE method = "bytes"
  <2>1. B!Out(ord, n, m, a, x) = Put(m, a, n, Ordered(ord, n, x))
    BY OutIs, Zenon
  <2> QED
    BY <1>1, <2>1, Zenon DEF Stored
<1>2. CASE method # "bytes"
  <2> DEFINE y == B!Convert(big, ord, n, method, x)
  <2>1. n \in Nat
    BY DEF B!Width
  <2>2. Flip(n, x) \in [1 .. n -> Nat] /\ Flip(n, Flip(n, x)) = x
    BY <2>1, FlipTwice, Zenon
  <2>3. y = Registered(big, ord, n, x)
    BY <1>2, ConvertIs, Zenon
  <2> HIDE DEF y
  <2>4. y \in [1 .. n -> Nat]
    BY <2>2, <2>3, Zenon DEF Registered
  <2>5. B!NativeStore(big, m, a, y) = Put(m, a, n, IF big THEN Flip(n, y) ELSE y)
    BY <2>4, NativeIs, Zenon
  <2>6. (IF big THEN Flip(n, y) ELSE y) = Ordered(ord, n, x)
    BY <2>2, <2>3 DEF Ordered, Registered, Orders
  <2> QED
    BY <1>2, <2>5, <2>6, Zenon DEF y, Stored
<1> QED
  BY <1>1, <1>2

\* Whatever the method and the machine, a read of bytes in their order is the word.
LEMMA ReadIs ==
  ASSUME NEW n \in B!Width, NEW x \in [1 .. n -> Nat], NEW big \in BOOLEAN,
         order \in Orders, NEW a \in Nat, NEW method \in B!Methods(order, n),
         NEW m, \A i \in a .. a + n - 1 : m[i] \in Nat,
         Get(m, a, n) = Ordered(order, n, x)
  PROVE  Loaded(big, n, method, m, a) = x
<1>1. n \in Nat
  BY DEF B!Width
<1>2. Flip(n, x) \in [1 .. n -> Nat] /\ Flip(n, Flip(n, x)) = x
  BY <1>1, FlipTwice, Zenon
<1>3. CASE method = "bytes"
  <2>1. B!In(order, n, m, a) = Ordered(order, n, Get(m, a, n))
    BY InIs, Zenon
  <2>2. Ordered(order, n, Ordered(order, n, x)) = x
    BY <1>2, Zenon DEF Ordered, Orders
  <2> QED
    BY <1>3, <2>1, <2>2, Zenon DEF Loaded
<1>4. CASE method # "bytes"
  <2> DEFINE y == B!NativeLoad(big, n, m, a)
  <2>1. y = IF big THEN Flip(n, Get(m, a, n)) ELSE Get(m, a, n)
    BY NativeIs, Zenon
  <2> HIDE DEF y
  <2>2. y = Registered(big, order, n, x)
    BY <1>2, <2>1 DEF Ordered, Registered, Orders
  <2>3. y \in [1 .. n -> Nat] /\ Registered(big, order, n, y) = x
    BY <1>2, <2>2 DEF Registered
  <2>5. /\ B!Convert(big, order, n, method, y) = Registered(big, order, n, y)
        /\ method = "net" /\ n = 8 => B!ntohll(big, y) = B!htonll(big, y)
    BY <1>4, <2>3, ConvertIs, Zenon
  <2>6. B!Unconvert(big, n, method, y) = B!Convert(big, order, n, method, y)
    BY <2>5 DEF B!Unconvert, B!Convert
  <2> QED
    BY <1>4, <2>3, <2>5, <2>6, Zenon DEF y, Loaded
<1> QED
  BY <1>3, <1>4

\* Every step of a transfer keeps the invariant.
LEMMA ByteStep == ASSUME ByteInv, [B!Next]_(B!vars) PROVE ByteInv'
<1> DEFINE pad == [i \in B!Cells |-> Pad]
<1>1. Memory(pad)
  BY DEF Memory
<1>2. ASSUME NEW big \in BOOLEAN, NEW ord \in {"be", "le"}, NEW n \in B!Width,
             NEW a \in {1, 2, 3}, NEW x \in B!Values(n), NEW method \in B!Methods(ord, n),
             B!Write(big, ord, n, x, a, method)
      PROVE  ByteInv'
  <2>1. n \in Nat /\ a \in Nat /\ ord \in Orders
    BY DEF B!Width, Orders
  <2>2. x \in Seq(Nat) /\ Len(x) = n
    BY LibsplAssumption DEF LibsplAssumption, B!ByteorderAssumption, B!Values
  <2>3. x \in [1 .. n -> Nat] /\ Len(x) = n
    BY <2>2
  <2>4. /\ stage = "empty" /\ stage' = "written" /\ order' = ord /\ value' = x /\ at' = a
        /\ buf' = Stored(big, ord, n, method, buf, a, x)
    BY <1>2, Zenon DEF B!Write, Stored
  <2>5. buf = pad
    BY <2>4 DEF ByteInv
  <2> HIDE DEF pad
  <2>6. buf' = Put(pad, a, n, Ordered(ord, n, x))
    <3>1. Stored(big, ord, n, method, pad, a, x) = Put(pad, a, n, Ordered(ord, n, x))
      BY <1>1, <2>1, <2>3, WriteIs
    <3> QED
      BY <2>4, <2>5, <3>1, Zenon
  <2> QED
    BY <2>1, <2>3, <2>4, <2>6 DEF ByteInv, pad
<1>3. ASSUME NEW big \in BOOLEAN, NEW method \in B!Methods(order, Len(value)),
             B!Read(big, method)
      PROVE  ByteInv'
  <2> DEFINE n == Len(value)
  <2>1. /\ stage = "written" /\ stage' = "read" /\ UNCHANGED <<order, value, at, buf>>
        /\ got' = Loaded(big, n, method, buf, at)
    BY <1>3, Zenon DEF B!Read, Loaded
  <2>2. /\ order \in Orders /\ at \in {1, 2, 3} /\ n \in B!Width /\ value \in [1 .. n -> Nat]
        /\ buf = Put(pad, at, n, Ordered(order, n, value))
    BY <2>1 DEF ByteInv
  <2>3. n \in Nat /\ at \in Nat /\ at .. at + n - 1 \subseteq B!Cells
    <3>1. n \in {1, 2, 4, 8} /\ at \in {1, 2, 3}
      BY <2>2 DEF B!Width
    <3> HIDE DEF n
    <3> QED
      BY <3>1 DEF B!Cells
  <2> DEFINE b == Ordered(order, n, value)
  <2>4. b \in [1 .. n -> Nat]
    BY <2>2, <2>3, FlipTwice DEF Ordered
  <2> HIDE DEF n, b, pad
  <2>5. /\ Get(buf, at, n) = b
        /\ \A i \in at .. at + n - 1 : buf[i] \in Nat
    BY <1>1, <2>2, <2>3, <2>4, GetPut, Zenon DEF b
  <2>6. method \in B!Methods(order, n)
    BY DEF n
  <2>7. got' = value
    <3>1. Loaded(big, n, method, buf, at) = value
      BY <2>2, <2>3, <2>5, <2>6, ReadIs DEF b
    <3> QED
      BY <2>1, <3>1, Zenon
  <2> QED
    BY <2>1, <2>7 DEF ByteInv
<1>4. CASE UNCHANGED B!vars
  BY <1>4 DEF B!vars, ByteInv
<1> QED
  BY <1>2, <1>3, <1>4, Zenon DEF B!Next

\* What the invariant says of the bytes and of what is read from them.
LEMMA ByteExact == ASSUME ByteInv PROVE B!ReadsWhatWasWritten /\ B!WritesItsBytes
<1>1. B!ReadsWhatWasWritten
  BY DEF ByteInv, B!ReadsWhatWasWritten
<1>2. ASSUME stage # "empty", NEW i \in B!Cells
      PROVE  buf[i] = IF i \in at .. at + Len(value) - 1
                      THEN (IF order = "le" THEN value ELSE B!Reverse(value))[i - at + 1]
                      ELSE Pad
  <2> DEFINE n == Len(value)
             pad == [j \in B!Cells |-> Pad]
             b == Ordered(order, n, value)
  <2>1. n \in B!Width /\ value \in [1 .. n -> Nat] /\ buf = Put(pad, at, n, b)
    BY <1>2 DEF ByteInv
  <2>2. b = IF order = "le" THEN value ELSE B!Reverse(value)
    BY <2>1 DEF Ordered, B!Reverse, Flip, B!Width
  <2>3. DOMAIN pad = B!Cells /\ pad[i] = Pad
    OBVIOUS
  <2> HIDE DEF n, pad, b
  <2>4. buf[i] = IF i \in at .. at + n - 1 THEN b[i - at + 1] ELSE Pad
    BY <2>1, <2>3 DEF Put
  <2> QED
    BY <2>2, <2>4, Zenon DEF n
<1> QED
  BY <1>1, <1>2, Zenon DEF B!WritesItsBytes

\* For words of 8, 16, 32 or 64 bits with any bytes, from one of three places on,
\* on machines of either byte order, whichever of the macros each side uses: what
\* is written is read again, in the order that was named, and no byte beside it is
\* touched.
THEOREM ByteorderOfLibspl == Spec => [](ReadsWhatWasWritten /\ WritesItsBytes)
<1>1. Init => ByteInv
  BY ByteInit DEF Init
<1>2. ByteInv /\ [Next]_vars => ByteInv'
  BY PartSteps, ByteStep
<1>3. ByteInv => ReadsWhatWasWritten /\ WritesItsBytes
  BY ByteExact DEF ReadsWhatWasWritten, WritesItsBytes
<1> QED
  BY <1>1, <1>2, <1>3, PTL DEF Spec

(***************************************************************************)
(* The wrappers of stack.h and stat.h                                      *)
(***************************************************************************)
\* thr_stksegment() with whatever the C library answers.
LEMMA StackIs ==
  ASSUME NEW env, NEW sp
  PROVE  LET r == S!thr_stksegment(env, sp)
         IN  /\ r.rc = 0 <=> env.getattr = 0 /\ env.getstack = 0
             /\ r.sp = IF r.rc = 0
                       THEN [ss_sp |-> env.low + env.size, ss_size |-> env.size,
                             ss_flags |-> 0]
                       ELSE sp
<1>1. CASE env.getattr # 0
  BY <1>1 DEF S!thr_stksegment, S!stack_getbounds
<1>2. CASE env.getattr = 0 /\ env.getstack # 0
  BY <1>2 DEF S!thr_stksegment, S!stack_getbounds
<1>3. CASE env.getattr = 0 /\ env.getstack = 0
  <2>1. S!stack_getbounds(env, sp)
          = [rc |-> 0, sp |-> [ss_sp |-> env.low, ss_size |-> env.size, ss_flags |-> 0]]
    BY <1>3 DEF S!stack_getbounds
  <2> QED
    BY <1>3, <2>1 DEF S!thr_stksegment
<1> QED
  BY <1>1, <1>2, <1>3

\* fstat64_blk() with whatever the C library answers.
LEMMA StatIs ==
  ASSUME NEW env, env.fstat \in {0, -1}, NEW st
  PROVE  LET r == S!fstat64_blk(env, st)
         IN  /\ r.rc = 0 <=> env.fstat = 0 /\ (env.blk => env.ioctl = 0)
             /\ r.st = IF env.fstat # 0 THEN st
                       ELSE [blk |-> env.blk, st_size |-> IF r.rc = 0 THEN env.bytes ELSE 0]
<1>1. CASE env.fstat = -1
  BY <1>1 DEF S!fstat64_blk
<1>2. CASE env.fstat = 0 /\ ~env.blk
  BY <1>2 DEF S!fstat64_blk, S!Filled
<1>3. CASE env.fstat = 0 /\ env.blk /\ env.ioctl # 0
  BY <1>3 DEF S!fstat64_blk, S!Filled
<1>4. CASE env.fstat = 0 /\ env.blk /\ env.ioctl = 0
  <2>1. ASSUME NEW b, NEW e
        PROVE  [[blk |-> b, st_size |-> 0] EXCEPT !.st_size = e] = [blk |-> b, st_size |-> e]
    OBVIOUS
  <2>2. S!Filled(env) = [blk |-> env.blk, st_size |-> 0]
    BY <1>4, Zenon DEF S!Filled
  <2>3. S!fstat64_blk(env, st)
          = [rc |-> 0, st |-> [S!Filled(env) EXCEPT !.st_size = env.bytes]]
    BY <1>4 DEF S!fstat64_blk
  <2>4. S!fstat64_blk(env, st)
          = [rc |-> 0, st |-> [blk |-> env.blk, st_size |-> env.bytes]]
    BY <2>1, <2>2, <2>3, Zenon
  <2> QED
    BY <1>4, <2>4
<1> QED
  BY <1>1, <1>2, <1>3, <1>4

\* A call of either leaves an answer that can be relied on.
LEMMA WrapperStep == ASSUME S!WrappersHonest, [S!Next]_(S!vars) PROVE S!WrappersHonest'
<1>1. ASSUME NEW env \in S!StackEnv, S!CallStack(env)
      PROVE  S!WrappersHonest'
  <2>1. call' = [fn |-> "stack", env |-> env] /\ ret' = S!thr_stksegment(env, S!Untouched)
    BY <1>1 DEF S!CallStack
  <2> QED
    BY <2>1, StackIs DEF S!WrappersHonest, S!Untouched
<1>2. ASSUME NEW env \in S!StatEnv, S!CallStat(env)
      PROVE  S!WrappersHonest'
  <2>1. call' = [fn |-> "stat", env |-> env] /\ ret' = S!fstat64_blk(env, S!Unfilled)
    BY <1>2 DEF S!CallStat
  <2>2. env.fstat \in {0, -1}
    BY DEF S!StatEnv
  <2> QED
    BY <2>1, <2>2, StatIs DEF S!WrappersHonest, S!Unfilled
<1>3. ASSUME call'.fn \notin {"stack", "stat"}
      PROVE  S!WrappersHonest'
  BY <1>3 DEF S!WrappersHonest
<1>4. CASE \E w, wa \in S!Widths, fn \in S!PlainFns, lp \in BOOLEAN :
             \E x, y \in S!Of(w), a \in S!Powers(wa) : S!CallPlain(fn, x, w, y, a, wa, lp)
  BY <1>3, <1>4 DEF S!CallPlain, S!PlainFns
<1>5. CASE \E w \in S!Widths, fn \in S!TypedFns :
             \E x, y \in S!Of(w), a \in S!Powers(w) : S!CallTyped(fn, x, y, a, w)
  BY <1>3, <1>5 DEF S!CallTyped, S!TypedFns
<1>6. CASE \E fn \in S!AssertFns, ndebug, wide64, ok \in BOOLEAN, op \in {"==", "<", ">="} :
             \E l, r \in Operands, assert \in IF fn \in S!VerifyFns THEN BOOLEAN ELSE {TRUE} :
               S!CallAssert(fn, assert, ndebug, wide64, ok, l, op, r)
  BY <1>3, <1>6 DEF S!CallAssert
<1>7. CASE \/ \E format \in {16, 8} : S!CallLabel(format)
           \/ \E s \in {"mboot", "devid"} : S!CallSector(s)
           \/ \E c \in 0 .. S!Byte4 - 1 : S!CallChecksum(c)
  BY <1>3, <1>7 DEF S!CallLabel, S!CallSector, S!CallChecksum
<1>8. CASE UNCHANGED S!vars
  BY <1>8 DEF S!vars, S!WrappersHonest
<1> QED
  BY <1>1, <1>2, <1>4, <1>5, <1>6, <1>7, <1>8, Zenon DEF S!Next

\* Whichever of the calls behind a wrapper fails: it reports success exactly when
\* all of them succeeded, with the high end of the stack or the size of the file or
\* the device.  A thr_stksegment() that fails leaves the caller's structure alone;
\* an fstat64_blk() does so only when fstat64() fails, and leaves a block device
\* with the size 0 when the ioctl() does.
THEOREM WrappersOfLibspl == Spec => []WrappersHonest
<1>1. Init => S!WrappersHonest
  BY DEF Init, S!Init, S!Nothing, S!WrappersHonest
<1>2. S!WrappersHonest /\ [Next]_vars => (S!WrappersHonest)'
  BY PartSteps, WrapperStep
<1> QED
  BY <1>1, <1>2, PTL DEF Spec, WrappersHonest

(***************************************************************************)
(* assert.h, for types of any size                                         *)
(***************************************************************************)
\* Quotient and remainder of an integer of either sign.
LEMMA IntDivMod ==
  ASSUME NEW m \in Nat, m > 0, NEW n \in Int
  PROVE  n \div m \in Int /\ n % m \in 0 .. m - 1 /\ n = (n \div m) * m + (n % m)
OBVIOUS

\* Of m integers in a row one is a multiple of m away from n.
LEMMA OneValue ==
  ASSUME NEW m \in Nat, m > 0, NEW low \in Int, NEW n \in Int,
         NEW v \in low .. low + m - 1, (v - n) % m = 0,
         NEW r \in low .. low + m - 1, (r - n) % m = 0
  PROVE  v = r
<1>1. v \in Int /\ r \in Int /\ v - n \in Int /\ r - n \in Int /\ -m < v - r /\ v - r < m
  OBVIOUS
<1> DEFINE p == (v - n) \div m
           q == (r - n) \div m
<1>2. p \in Int /\ v - n = p * m /\ q \in Int /\ r - n = q * m
  BY <1>1, IntDivMod
<1> HIDE DEF p, q
<1> DEFINE d == p - q
<1>3. d \in Int /\ v - r = d * m
  BY <1>1, <1>2
<1> HIDE DEF d
<1>4. ASSUME d >= 1 PROVE d * m >= m
  BY <1>3, <1>4
<1>5. ASSUME d <= -1 PROVE d * m <= -m
  BY <1>3, <1>5
<1>6. d = 0
  BY <1>1, <1>3, <1>4, <1>5
<1> QED
  BY <1>1, <1>3, <1>6

\* What an integer is in a type.
LEMMA ValueIs ==
  ASSUME NEW m \in Nat, m > 0, NEW low \in Int, NEW n \in Int,
         NEW r \in low .. low + m - 1, (r - n) % m = 0
  PROVE  S!ValueIn([low |-> low, size |-> m], n) = {r}
<1>1. \A v \in low .. low + m - 1 : (v - n) % m = 0 => v = r
  BY OneValue
<1> QED
  BY <1>1 DEF S!ValueIn

\* A remainder is a multiple away.
LEMMA RemainderAway ==
  ASSUME NEW m \in Nat, m > 0, NEW n \in Int
  PROVE  ((n % m) - n) % m = 0
<1> DEFINE z == n % m
           q == n \div m
<1>1. q \in Int /\ z \in Int /\ n = q * m + z
  BY IntDivMod
<1> HIDE DEF z, q
<1>2. z - n = (-q) * m /\ -q \in Int
  BY <1>1
<1>3. ASSUME NEW k \in Int PROVE (k * m) % m = 0
  OBVIOUS
<1>4. (z - n) % m = 0
  BY <1>2, <1>3
<1> QED
  BY <1>4 DEF z

\* The conversion to an unsigned type of m values.
LEMMA ConvertedUnsigned ==
  ASSUME NEW m \in Nat, m > 0, NEW n \in Int
  PROVE  S!ValueIn([low |-> 0, size |-> m], n) = {n % m}
<1> DEFINE z == n % m
<1>1. z \in 0 .. m - 1 /\ (z - n) % m = 0
  BY IntDivMod, RemainderAway
<1> HIDE DEF z
<1>2. 0 \in Int /\ z \in 0 .. 0 + m - 1
  BY <1>1
<1>3. S!ValueIn([low |-> 0, size |-> m], n) = {z}
  BY <1>1, <1>2, ValueIs, Zenon
<1> QED
  BY <1>3 DEF z

\* The conversion to a signed type of m values, the lowest of them -h.
LEMMA Converted ==
  ASSUME NEW m \in Nat, m > 0, NEW h \in Nat, NEW n \in Int
  PROVE  S!ValueIn([low |-> -h, size |-> m], n) = {((n + h) % m) - h}
<1> DEFINE z == (n + h) % m
           r == z - h
<1>1. n + h \in Int /\ -h \in Int
  OBVIOUS
<1>2. z \in 0 .. m - 1 /\ (z - (n + h)) % m = 0
  BY <1>1, IntDivMod, RemainderAway
<1> HIDE DEF z
<1>3. r \in -h .. -h + m - 1 /\ r - n = z - (n + h)
  BY <1>2
<1>4. (r - n) % m = 0
  BY <1>2, <1>3
<1> HIDE DEF r
<1>5. S!ValueIn([low |-> -h, size |-> m], n) = {r}
  BY <1>1, <1>3, <1>4, ValueIs
<1> QED
  BY <1>5 DEF r, z

\* The sizes of the types.
LEMMA TypeSizes ==
  /\ S!Half64 \in Nat /\ Mod64 = 2 * S!Half64 /\ Mod32 \in Nat
  /\ 2 < Mod32 /\ Mod32 <= S!Half64
<1>1. Mod64 \in Nat /\ Mod32 \in Nat /\ 2 < Mod32
  BY LibsplAssumption DEF LibsplAssumption, S!SplAssertAssumption
<1>2. PICK half \in 0 .. Mod64 : Mod64 = 2 * half /\ Mod32 <= half
  BY LibsplAssumption DEF LibsplAssumption, S!SplAssertAssumption
<1>3. half \in Nat /\ S!Half64 = half
  BY <1>1, <1>2 DEF S!Half64
<1> QED
  BY <1>1, <1>2, <1>3

\* Each macro compares the values that its operands have in its type.
LEMMA VerdictIs ==
  ASSUME NEW c, c.macro \in S!AssertFns, c.l \in Operands, c.r \in Operands
  PROVE  S!Verdict(c.macro, c.lp64, c.l, c.op, c.r) <=> S!Holds(c)
<1> DEFINE H64 == S!Half64
           At(n) == S!ValueIn(S!TypeOf(c), n)
<1>1. /\ H64 \in Nat /\ Mod64 = 2 * H64 /\ Mod32 \in Nat /\ 2 < Mod32 /\ Mod32 <= H64
      /\ Mod64 \in Nat /\ Mod64 > 0
  BY TypeSizes
<1>2. \A n \in Operands : n \in Int /\ -H64 <= n /\ n < Mod64
  BY <1>1, LibsplAssumption DEF LibsplAssumption, S!ShimsAssumption
<1> HIDE DEF H64
<1>3. c.l \in Int /\ c.r \in Int
  BY <1>2
<1>4. CASE c.macro = "VERIFY"
  BY <1>4 DEF S!Verdict, S!Holds, S!VERIFY
<1>5. CASE c.macro = "VERIFY3B"
  <2>1. S!TypeOf(c) = [low |-> 0, size |-> Mod32]
    BY <1>5 DEF S!TypeOf
  <2>2. At(c.l) = {S!boolean_t(c.l)} /\ At(c.r) = {S!boolean_t(c.r)}
    BY <1>1, <1>3, <2>1, ConvertedUnsigned DEF S!boolean_t
  <2> HIDE DEF At
  <2> QED
    BY <1>5, <2>2 DEF S!Verdict, S!Holds, S!VERIFY3B, At
<1>6. CASE c.macro = "VERIFY3S"
  <2>1. S!TypeOf(c) = [low |-> -H64, size |-> Mod64]
    BY <1>6 DEF S!TypeOf, H64
  <2>2. At(c.l) = {S!int64(c.l)} /\ At(c.r) = {S!int64(c.r)}
    BY <1>1, <1>3, <2>1, Converted DEF S!int64, H64
  <2> HIDE DEF At
  <2> QED
    BY <1>6, <2>2 DEF S!Verdict, S!Holds, S!VERIFY3S, At
<1>7. CASE c.macro = "VERIFY3U"
  <2>1. S!TypeOf(c) = [low |-> 0, size |-> Mod64]
    BY <1>7 DEF S!TypeOf
  <2>2. At(c.l) = {S!uint64(c.l)} /\ At(c.r) = {S!uint64(c.r)}
    BY <1>1, <1>3, <2>1, ConvertedUnsigned DEF S!uint64
  <2> HIDE DEF At
  <2> QED
    BY <1>7, <2>2 DEF S!Verdict, S!Holds, S!VERIFY3U, At
<1>8. S!ModPtr(c.lp64) \in Nat /\ S!ModPtr(c.lp64) > 0
  BY <1>1 DEF S!ModPtr
<1>9. ASSUME c.macro \in {"VERIFY3P", "VERIFY0P"}
      PROVE  At(c.l) = {S!uintptr(c.lp64, c.l)} /\ At(c.r) = {S!uintptr(c.lp64, c.r)}
  <2>1. S!TypeOf(c) = [low |-> 0, size |-> S!ModPtr(c.lp64)]
    BY <1>9 DEF S!TypeOf
  <2> QED
    BY <1>3, <1>8, <2>1, ConvertedUnsigned DEF S!uintptr
<1>10. CASE c.macro = "VERIFY3P"
  <2> HIDE DEF At
  <2> QED
    BY <1>9, <1>10 DEF S!Verdict, S!Holds, S!VERIFY3P, At
<1>11. CASE c.macro = "VERIFY0P"
  <2> HIDE DEF At
  <2> QED
    BY <1>9, <1>11 DEF S!Verdict, S!Holds, S!VERIFY0P, At
<1>12. CASE c.macro = "VERIFY0"
  <2>1. ASSUME NEW n \in Int, -H64 <= n, n < Mod64 PROVE n % Mod64 = 0 <=> n = 0
    <3>1. CASE n < 0
      <4>1. n + Mod64 \in 1 .. Mod64 - 1
        BY <1>1, <2>1, <3>1
      <4>2. n % Mod64 = n + Mod64
        BY <1>1, <3>1, <4>1
      <4> QED
        BY <1>1, <3>1, <4>1, <4>2
    <3>2. CASE n >= 0
      BY <1>1, <2>1, <3>2
    <3> QED
      BY <2>1, <3>1, <3>2
  <2>2. S!uint64(c.l) = 0 <=> c.l = 0
    BY <1>2, <2>1 DEF S!uint64
  <2> QED
    BY <1>12, <2>2 DEF S!Verdict, S!Holds, S!VERIFY0
<1>13. CASE c.macro = "IMPLY"
  BY <1>13 DEF S!Verdict, S!Holds, S!IMPLY
<1>14. CASE c.macro = "EQUIV"
  BY <1>14 DEF S!Verdict, S!Holds, S!EQUIV
<1> QED
  BY <1>4, <1>5, <1>6, <1>7, <1>10, <1>11, <1>12, <1>13, <1>14 DEF S!AssertFns, S!VerifyFns

\* What each call is recorded as.
LEMMA OtherCalls ==
  ASSUME [S!Next]_(S!vars)
  PROVE  \/ \E fn \in S!AssertFns, ndebug, wide64, ok \in BOOLEAN, op \in {"==", "<", ">="} :
              \E l, r \in Operands,
                 assert \in IF fn \in S!VerifyFns THEN BOOLEAN ELSE {TRUE} :
                S!CallAssert(fn, assert, ndebug, wide64, ok, l, op, r)
         \/ \E c \in 0 .. S!Byte4 - 1 : S!CallChecksum(c)
         \/ call'.fn \notin {"assert", "checksum"}
         \/ UNCHANGED <<call, ret>>
<1>1. ASSUME \E w, wa \in S!Widths, fn \in S!PlainFns, lp \in BOOLEAN :
               \E x, y \in S!Of(w), a \in S!Powers(wa) : S!CallPlain(fn, x, w, y, a, wa, lp)
      PROVE  call'.fn \notin {"assert", "checksum"}
  BY <1>1 DEF S!CallPlain, S!PlainFns
<1>2. ASSUME \E w \in S!Widths, fn \in S!TypedFns :
               \E x, y \in S!Of(w), a \in S!Powers(w) : S!CallTyped(fn, x, y, a, w)
      PROVE  call'.fn \notin {"assert", "checksum"}
  BY <1>2 DEF S!CallTyped, S!TypedFns
<1>3. ASSUME \/ \E env \in S!StackEnv : S!CallStack(env)
             \/ \E env \in S!StatEnv : S!CallStat(env)
             \/ \E format \in {16, 8} : S!CallLabel(format)
             \/ \E s \in {"mboot", "devid"} : S!CallSector(s)
      PROVE  call'.fn \notin {"assert", "checksum"}
  BY <1>3 DEF S!CallStack, S!CallStat, S!CallLabel, S!CallSector
<1>4. CASE UNCHANGED S!vars
  BY <1>4 DEF S!vars
<1> QED
  BY <1>1, <1>2, <1>3, <1>4, Zenon DEF S!Next

\* A call of an assertion goes on or stops as its comparison says.
LEMMA AssertStep == ASSUME S!StopsWhenFalse, [S!Next]_(S!vars) PROVE S!StopsWhenFalse'
<1>1. CASE \E fn \in S!AssertFns, ndebug, wide64, ok \in BOOLEAN, op \in {"==", "<", ">="} :
             \E l, r \in Operands, assert \in IF fn \in S!VerifyFns THEN BOOLEAN ELSE {TRUE} :
               S!CallAssert(fn, assert, ndebug, wide64, ok, l, op, r)
  <2>1. PICK fn \in S!AssertFns, ndebug \in BOOLEAN, wide64 \in BOOLEAN, ok \in BOOLEAN,
             op \in {"==", "<", ">="} :
               \E l, r \in Operands, assert \in IF fn \in S!VerifyFns THEN BOOLEAN ELSE {TRUE} :
                 S!CallAssert(fn, assert, ndebug, wide64, ok, l, op, r)
    BY <1>1, Zenon
  <2>2. PICK l \in Operands, r \in Operands :
          \E assert \in IF fn \in S!VerifyFns THEN BOOLEAN ELSE {TRUE} :
            S!CallAssert(fn, assert, ndebug, wide64, ok, l, op, r)
    BY <2>1, Zenon
  <2>3. PICK assert \in IF fn \in S!VerifyFns THEN BOOLEAN ELSE {TRUE} :
          S!CallAssert(fn, assert, ndebug, wide64, ok, l, op, r)
    BY <2>2, Zenon
  <2> DEFINE c == [fn |-> "assert", macro |-> fn, off |-> assert /\ ndebug, lp64 |-> wide64,
                   ok |-> ok, l |-> l, op |-> op, r |-> r]
             v == S!Verdict(fn, wide64, l, op, r)
  <2>4. call' = c
    BY <2>3 DEF S!CallAssert
  <2>5. ret' = S!libspl_assertf(ok, IF assert THEN S!ASSERT(ndebug, v) ELSE v)
    BY <2>3 DEF S!CallAssert
  <2>6. /\ c.macro = fn /\ c.lp64 = wide64 /\ c.l = l /\ c.op = op /\ c.r = r /\ c.ok = ok
        /\ c.off = (assert /\ ndebug)
    OBVIOUS
  <2>7. assert \in BOOLEAN
    OBVIOUS
  <2> HIDE DEF c
  <2>8. v <=> S!Holds(c)
    <3>1. c.macro \in S!AssertFns /\ c.l \in Operands /\ c.r \in Operands
      BY <2>6
    <3> QED
      BY <2>6, <3>1, VerdictIs
  <2> HIDE DEF v
  <2>9. ret' = IF c.off \/ S!Holds(c) THEN "goes on"
               ELSE IF c.ok THEN "reported" ELSE "aborted"
    <3>1. CASE c.off \/ S!Holds(c)
      <4>1. IF assert THEN S!ASSERT(ndebug, v) ELSE v
        BY <2>6, <2>8, <3>1 DEF S!ASSERT
      <4> QED
        BY <2>5, <3>1, <4>1 DEF S!libspl_assertf
    <3>2. CASE ~(c.off \/ S!Holds(c))
      <4>1. ~(IF assert THEN S!ASSERT(ndebug, v) ELSE v)
        BY <2>6, <2>8, <3>2 DEF S!ASSERT
      <4> QED
        BY <2>5, <2>6, <3>2, <4>1 DEF S!libspl_assertf
    <3> QED
      BY <3>1, <3>2
  <2> QED
    BY <2>4, <2>9 DEF S!StopsWhenFalse, S!Holds, S!TypeOf, S!ValueIn, S!Compare, S!ModPtr,
       S!Half64
<1>2. ASSUME call'.fn # "assert" PROVE S!StopsWhenFalse'
  BY <1>2 DEF S!StopsWhenFalse
<1>3. CASE \E c \in 0 .. S!Byte4 - 1 : S!CallChecksum(c)
  BY <1>2, <1>3 DEF S!CallChecksum
<1>4. CASE UNCHANGED <<call, ret>>
  BY <1>4 DEF S!StopsWhenFalse, S!Holds, S!TypeOf, S!ValueIn, S!Compare, S!ModPtr,
     S!Half64
<1>5. CASE call'.fn \notin {"assert", "checksum"}
  BY <1>2, <1>5
<1> QED
  BY <1>1, <1>3, <1>4, <1>5, OtherCalls, Zenon

\* In either build, whatever the size of the types and for any operands of 64 bits,
\* signed or not: a comparison macro stops the program exactly when the comparison
\* is false between the values that both operands have in its type, also where the
\* conversion changes them, and VERIFY0() lets no error code through, the negative
\* ones included.
THEOREM AssertionsOfLibspl == Spec => []StopsWhenFalse
<1>1. Init => S!StopsWhenFalse
  <2>1. Init => call.fn # "assert"
    BY DEF Init, S!Init, S!Nothing
  <2> QED
    BY <2>1, Zenon DEF S!StopsWhenFalse
<1>2. S!StopsWhenFalse /\ [Next]_vars => (S!StopsWhenFalse)'
  BY PartSteps, AssertStep
<1> QED
  BY <1>1, <1>2, PTL DEF Spec, StopsWhenFalse

(***************************************************************************)
(* dklabel.h: the checksum of a device id, for bytes of any size           *)
(***************************************************************************)
\* A number below a square has two digits.
LEMMA TwoDigits ==
  ASSUME NEW b \in Nat, b > 0, NEW n \in Nat, n < b * b
  PROVE  /\ (n \div b) % b = n \div b /\ n \div b \in 0 .. b - 1 /\ n % b \in 0 .. b - 1
         /\ n = (n \div b) * b + (n % b)
<1>1. n \div b \in Nat /\ n % b \in 0 .. b - 1 /\ n = (n \div b) * b + (n % b)
  BY DivMod
<1>2. n \div b < b
  <2>1. n \div b >= b <=> n >= b * b
    BY DivReaches
  <2> QED
    BY <1>1, <2>1
<1>3. ASSUME NEW q \in Nat, q < b PROVE q % b = q
  BY <1>3
<1> QED
  BY <1>1, <1>2, <1>3

\* The four bytes of a word give the word again, up to its sign.
LEMMA ChecksumIs ==
  ASSUME NEW c \in 0 .. S!Byte4 - 1
  PROVE  S!DKD_GETCHKSUM(S!DKD_FORMCHKSUM(c)) % S!Byte4 = c
<1> DEFINE w == S!Byte2
           h == S!hiword(c)
           l == S!loword(c)
<1>1. Byte \in Nat /\ Byte > 1
  BY LibsplAssumption DEF LibsplAssumption, S!DiskLabelAssumption
<1>2. w \in Nat /\ w > 0 /\ w = Byte * Byte
  BY <1>1 DEF S!Byte2
<1>3. w * w \in Nat /\ w * w > 0 /\ S!Byte4 = w * w
  BY <1>2 DEF S!Byte4
<1>4. c \in Nat /\ c < w * w
  BY <1>3
<1>5. h = c \div w /\ h \in 0 .. w - 1 /\ l \in 0 .. w - 1 /\ c = h * w + l
  <2> HIDE DEF w
  <2>1. (c \div w) % w = c \div w /\ c \div w \in 0 .. w - 1 /\ c % w \in 0 .. w - 1
        /\ c = (c \div w) * w + (c % w)
    BY <1>2, <1>4, TwoDigits
  <2>2. h = (c \div w) % w /\ l = c % w
    BY DEF S!hiword, S!loword, w
  <2> QED
    BY <2>1, <2>2
<1>6. ASSUME NEW n \in Nat, n < w
      PROVE  /\ n = S!hibyte(n) * Byte + S!lobyte(n)
             /\ S!hibyte(n) \in Nat /\ S!lobyte(n) \in Nat
  BY <1>1, <1>2, <1>6, TwoDigits DEF S!hibyte, S!lobyte
<1> DEFINE p == S!hibyte(h)
           q == S!lobyte(h)
           r == S!hibyte(l)
           s == S!lobyte(l)
           n == p * (Byte * w) + q * w + r * Byte + s
<1>7. S!DKD_FORMCHKSUM(c) = <<p, q, r, s>>
  BY DEF S!DKD_FORMCHKSUM
<1>8. S!DKD_GETCHKSUM(<<p, q, r, s>>)
        = IF n >= S!Byte4 \div 2 THEN n - S!Byte4 ELSE n
  BY DEF S!DKD_GETCHKSUM
<1> HIDE DEF w, h, l
<1>9. p \in Nat /\ q \in Nat /\ r \in Nat /\ s \in Nat /\ h = p * Byte + q /\ l = r * Byte + s
  BY <1>2, <1>5, <1>6
<1> HIDE DEF p, q, r, s
<1>10. n = c
  <2>1. (p * Byte + q) * w = p * (Byte * w) + q * w
    BY <1>1, <1>2, <1>9
  <2>2. h * w = p * (Byte * w) + q * w
    BY <1>9, <2>1
  <2>3. p * (Byte * w) \in Nat /\ q * w \in Nat /\ r * Byte \in Nat
    BY <1>1, <1>2, <1>9
  <2> QED
    BY <1>5, <1>9, <2>2, <2>3
<1> HIDE DEF n
<1>11. ASSUME NEW m \in Nat, m > 0, c < m
       PROVE  c % m = c /\ (c - m) % m = c
  BY <1>4, <1>11
<1>12. S!Byte4 \in Nat /\ S!Byte4 > 0 /\ c < S!Byte4
  BY <1>3
<1>13. c % S!Byte4 = c /\ (c - S!Byte4) % S!Byte4 = c
  BY <1>11, <1>12
<1> QED
  BY <1>7, <1>8, <1>10, <1>13

\* The checksum of a device id comes back from its bytes, once it is unsigned again.
THEOREM ChecksumOfLibspl == Spec => []ChecksumKept
<1>1. Init => S!ChecksumKept
  BY DEF Init, S!Init, S!Nothing, S!ChecksumKept
<1>2. ASSUME S!ChecksumKept, [S!Next]_(S!vars) PROVE (S!ChecksumKept)'
  <2>1. ASSUME NEW c \in 0 .. S!Byte4 - 1, S!CallChecksum(c) PROVE (S!ChecksumKept)'
    <3>1. call'.c = c /\ ret' = S!DKD_GETCHKSUM(S!DKD_FORMCHKSUM(c))
      BY <2>1 DEF S!CallChecksum
    <3> QED
      BY <3>1, ChecksumIs DEF S!ChecksumKept
  <2>2. ASSUME call'.fn # "checksum" PROVE (S!ChecksumKept)'
    BY <2>2 DEF S!ChecksumKept
  <2>3. CASE \E fn \in S!AssertFns, ndebug, wide64, ok \in BOOLEAN, op \in {"==", "<", ">="} :
               \E l, r \in Operands,
                  assert \in IF fn \in S!VerifyFns THEN BOOLEAN ELSE {TRUE} :
                 S!CallAssert(fn, assert, ndebug, wide64, ok, l, op, r)
    BY <2>2, <2>3 DEF S!CallAssert
  <2>4. CASE UNCHANGED <<call, ret>>
    BY <1>2, <2>4 DEF S!ChecksumKept
  <2>5. CASE call'.fn \notin {"assert", "checksum"}
    BY <2>2, <2>5
  <2> QED
    BY <1>2, <2>1, <2>3, <2>4, <2>5, OtherCalls, Zenon
<1>3. S!ChecksumKept /\ [Next]_vars => (S!ChecksumKept)'
  BY PartSteps, <1>2
<1> QED
  BY <1>1, <1>3, PTL DEF Spec, ChecksumKept
==============================================================================
