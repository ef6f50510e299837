SPECIFICATION Spec
CONSTANTS
  Targets <- AllTargets
  Machines <- AllMachines
  Thread = {1, 2, 3}
  WordMod = 16
  MaxHold = 4
  Producer = 1
  MaxRounds = 3
  None = None
  Caller = {t1, t2}
  Chunk = {c1, c2}
  NULL = NULL
  Nobody = Nobody
  Words <- AllWords
  Pad = 99
  Kilo = 2
  MaxSec = 1
  Lengths = {0, 1, 2}
  MaxIov = 3
  Behind = {0, 7}
  Sizes <- AllSizes
  MaxOffset = 8
  Narrow = 2
  Wide = 4
  Mod64 = 16
  Mod32 = 4
  Byte = 4
  Operands <- AllOperands
  Errnos = {12, 22}
  Extents = {0, 3, 9}
INVARIANTS
  BuildIsTrue NoIllegalInstruction ProbeIsSound
  FreedExactlyOnce NoLostUpdate PrintedOnce NeverTorn
  LockProtects DataBehindFlag
  NofailReturnsMemory ZallocIsZeroed MadeInTurn
  ReadsWhatWasWritten WritesItsBytes
  NeverEarly
  LookupFindsTheByte
  P2Exact StopsWhenFalse WrappersHonest SectorsFilled ChecksumKept
PROPERTIES
  NofailEnds
  HrtimeMonotone
CHECK_DEADLOCK FALSE
