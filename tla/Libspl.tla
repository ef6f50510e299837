-------------------------------- MODULE Libspl --------------------------------
(***************************************************************************)
(* The compatibility headers under surgeon/compat as one specification.    *)
(* Their parts share no state, so a behaviour exercises one part and the   *)
(* others stay as they are: the state spaces add instead of multiplying.   *)
(***************************************************************************)
EXTENDS Integers, Sequences

CONSTANTS Targets, Machines,                   \* instruction sets
          Thread, WordMod, MaxHold,            \* atomics
          Producer, MaxRounds, None,           \* barriers
          Caller, Chunk, NULL, Nobody,         \* umem: Caller are its threads
          Words, Pad,                          \* byte order
          Kilo, MaxSec,                        \* clocks
          Lengths, MaxIov, Behind, Sizes, MaxOffset,    \* uio
          Narrow, Wide, Mod64, Mod32, Byte,    \* macros without state
          Operands, Errnos, Extents

VARIABLES
  part,
  phase, target, macros, machine, probe, result, fault,
  use, lp64, word, bits, slot, wide, pc, loc, todo, hold, freed, printed,
  protocol, mem, locked, storeBuf, ahead, barPc, reg, rounds,
  owner, content, made, cached, cache, request, memPc, ptr, aborted,
  stage, order, value, at, buf, got,
  wall, mono, hrtime, hrestime,
  iov, loffset, resid, asked, off, vec_idx, len, uioAt,
  call, ret

xVars == <<phase, target, macros, machine, probe, result, fault>>
aVars == <<use, lp64, word, bits, slot, wide, pc, loc, todo, hold, freed, printed>>
mVars == <<protocol, mem, locked, storeBuf, ahead, barPc, reg, rounds>>
uVars == <<owner, content, made, cached, cache, request, memPc, ptr, aborted>>
bVars == <<stage, order, value, at, buf, got>>
hVars == <<wall, mono, hrtime, hrestime>>
oVars == <<iov, loffset, resid, asked, off, vec_idx, len, uioAt>>
sVars == <<call, ret>>
vars == <<part, xVars, aVars, mVars, uVars, bVars, hVars, oVars, sVars>>

X == INSTANCE Simd
A == INSTANCE Atomics
M == INSTANCE Membar WITH buf <- storeBuf, pc <- barPc
U == INSTANCE Umem WITH Thread <- Caller, call <- request, pc <- memPc
B == INSTANCE Byteorder
H == INSTANCE Hrtime
O == INSTANCE Uio WITH at <- uioAt
S == INSTANCE Shims

ASSUME LibsplAssumption ==
  /\ A!AtomicsAssumption /\ M!MembarAssumption /\ U!UmemAssumption
  /\ B!ByteorderAssumption /\ H!HrtimeAssumption /\ O!UioAssumption
  /\ S!SplAssertAssumption /\ S!DiskLabelAssumption /\ S!ShimsAssumption

Parts == {"simd", "atomics", "membar", "umem", "byteorder", "time", "uio", "shims"}

\* The parts other than simd do not depend on the target.
SomeTarget == CHOOSE t \in Targets : TRUE

Init ==
  /\ part \in Parts
  /\ X!Init /\ (part # "simd" => target = SomeTarget)
  /\ A!Init /\ M!Init /\ U!Init /\ B!Init /\ H!Init /\ O!Init /\ S!Init

Next ==
  /\ UNCHANGED part
  /\ \/ /\ part = "simd" /\ X!Next
        /\ UNCHANGED <<aVars, mVars, uVars, bVars, hVars, oVars, sVars>>
     \/ /\ part = "atomics" /\ A!Next
        /\ UNCHANGED <<xVars, mVars, uVars, bVars, hVars, oVars, sVars>>
     \/ /\ part = "membar" /\ M!Next
        /\ UNCHANGED <<xVars, aVars, uVars, bVars, hVars, oVars, sVars>>
     \/ /\ part = "umem" /\ U!Next
        /\ UNCHANGED <<xVars, aVars, mVars, bVars, hVars, oVars, sVars>>
     \/ /\ part = "byteorder" /\ B!Next
        /\ UNCHANGED <<xVars, aVars, mVars, uVars, hVars, oVars, sVars>>
     \/ /\ part = "time" /\ H!Next
        /\ UNCHANGED <<xVars, aVars, mVars, uVars, bVars, oVars, sVars>>
     \/ /\ part = "uio" /\ O!Next
        /\ UNCHANGED <<xVars, aVars, mVars, uVars, bVars, hVars, sVars>>
     \/ /\ part = "shims" /\ S!Next
        /\ UNCHANGED <<xVars, aVars, mVars, uVars, bVars, hVars, oVars>>

\* Only the allocator needs fairness: a thread that is inside a call goes on.
Spec == Init /\ [][Next]_vars /\ U!Fairness

(***************************************************************************)
(* The properties of the parts                                             *)
(***************************************************************************)
\* isa_defs.h tells the truth: it accepts every target that its last comment
\* lists, and a build it accepts has the byte order and the data model of the
\* target, the probes of its instruction set and the label format that
\* dklabel.h needs, however the compiler spells its predefined macros.
BuildIsTrue == X!BuildIsTrue

\* xgetbv() is "an illegal instruction" where CPUID does not announce it, and
\* no probe executes it there.
NoIllegalInstruction == X!NoIllegalInstruction

\* When a probe says yes, the operating system saves the registers of its family
\* and no AVX-512 probe says yes without AVX512F: a disabled register state or an
\* old highest leaf never slips through.  Every probe but the two of Misread, which
\* test another bit than their own, says yes only where the processor announces
\* the instruction set it is named for.
ProbeIsSound == X!ProbeIsSound

\* The thread that sees a reference count go to zero is one and only one,
\* however the drops interleave: the object is freed once, never while
\* somebody still holds it, and never forgotten.
FreedExactlyOnce == A!FreedExactlyOnce

\* No update of a shared word is lost: the count is the sum of the references,
\* the flags are those of the threads that set them, and what the threads
\* exchange is neither lost nor duplicated.
NoLostUpdate == A!NoLostUpdate

\* cmn_err_once() prints once: no two threads pass its test, and when a call
\* has returned the message has been printed or is about to be.
PrintedOnce == A!PrintedOnce

\* A 64-bit load never returns half of one store and half of another, also
\* where registers have 32 bits.
NeverTorn == A!NeverTorn

\* "the lock protects its data": one thread at a time is between the two
\* exclusive bit operations, and no increment made there is lost, although
\* the processor delays stores and loads ahead.
LockProtects == M!LockProtects

\* "the data is not sampled until after the available flag has been seen":
\* a consumer that has seen the flag reads what the producer wrote before.
DataBehindFlag == M!DataBehindFlag

\* UMEM_NOFAIL, "Never fails": such a call returns memory or does not return;
\* only kmem_alloc() has no such promise.
NofailReturnsMemory == U!NofailReturnsMemory

\* umem_zalloc() returns zeroes also in a chunk that others have used before.
ZallocIsZeroed == U!ZallocIsZeroed

\* Constructor and destructor run in turn on each chunk, on memory that still
\* belongs to the caller: nothing goes back to the heap with a constructed
\* object in it, and no object is constructed twice.
MadeInTurn == U!MadeInTurn

\* The retry loop of UMEM_NOFAIL ends once there is room for good, and an
\* alignment that can never succeed does not keep it spinning.
NofailEnds == U!NofailEnds

\* What one machine writes, another reads, whatever the byte order of either
\* and whether BE_OUT/LE_OUT, BE_n/LE_n or htonll() was used on the way.
ReadsWhatWasWritten == B!ReadsWhatWasWritten

\* A write puts the bytes in the order it names and touches no byte beside.
WritesItsBytes == B!WritesItsBytes

\* gethrtime() never goes back, also across the carry into seconds, and does
\* not follow the wall clock when that is set.
HrtimeMonotone == H!HrtimeMonotone

\* A timeout expires at the same moment whichever unit it is tested in: the
\* conversion from nanoseconds never reports a unit that is not over yet.
NeverEarly == H!NeverEarly

\* The lookup finds the byte: what was passed and the rest make the offset that
\* was asked for, and the index leaves the vector exactly for an offset past the
\* end, which a caller must test before it asks for the buffer.  Of the buffer
\* it is then given len - off bytes are left, at least one, and they end where
\* the buffer ends, inside the vector: a caller that uses no more of them does
\* not overrun it.  Nothing in uio.h keeps a caller from advancing further, but
\* the count of what is done and what is left stays the length of the vector.
LookupFindsTheByte == O!LookupFindsTheByte

\* The typed macros are right for every value of their type, at both ends of
\* its range; the plain ones where they may be used, which for IS_P2ALIGNED()
\* takes an alignment that fits into a pointer.
P2Exact == S!P2Exact

\* A comparison macro stops the program exactly when the comparison is false
\* between the values that both operands have in its type: the operands
\* themselves where the type has them, and otherwise, for a negative operand of
\* VERIFY3U() or a wide one of VERIFY3P() on an ILP32 build, what is left modulo
\* the size of the type.  VERIFY0() lets no error code through, and ASSERT()
\* under NDEBUG, and nothing else, never stops.
StopsWhenFalse == S!StopsWhenFalse

\* A wrapper reports success exactly when every call behind it succeeded: then
\* the stack ends at its high address and the size is that of the file or the
\* device.  A failing thr_stksegment() leaves the caller's structure as it was,
\* and so does fstat64_blk() when fstat64() fails; when the ioctl() fails the
\* structure has been filled, with the size 0, and only the result tells that
\* this is not the size of the device.
WrappersHonest == S!WrappersHonest

\* "sizeof (struct dk_label) should be 512": each structure fills its sector
\* and no more, with what identifies it in the last bytes and the partition
\* table where the BIOS looks for it, gaps the compiler leaves included.
SectorsFilled == S!SectorsFilled

\* The checksum of a device id comes back from its four bytes, once it is
\* unsigned again: the shift of the first byte reaches the sign.
ChecksumKept == S!ChecksumKept
=============================================================================
