# zhaxx: a TLA+ model of the scanner, the surgeon and its libspl headers

zhaxx repairs a ZFS pool whose Meta Object Set (MOS) refers to objects that are
dead or gone.  `scan/zhaxx-scan` reads the MOS through `zdb` and writes a repair
plan; `surgeon/zhaxx.c` imports the pool in user space and applies the plan in
one transaction group (txg).  The surgeon is compiled with the libspl headers kept
under `surgeon/compat`.  This directory models both tools and the headers that
hold code, checks them with TLC on small instances, and proves with TLAPS the safety
of the surgeon, of the hand-over from the scanner to it, and of most of the headers,
for every pool, every plan, every number of threads and every interleaving.

## 1. Inventory

| Part | State it keeps | Operations | Interacts with |
|---|---|---|---|
| MOS and libzpool (external) | objects: type, readability, ZAP entries, bonus fields; the last synced txg | `zap_lookup/update/remove`, `dmu_object_info`, `dmu_bonus_hold`, `dmu_object_free`, `spa_errlog_sync` | everything below |
| plan format, `parse_plan` (zhaxx.c:113-267) | `g_ops[]`, `g_nops` | one line at a time; one bad line refuses the plan | written by the scanner, read by the surgeon |
| plan operations, `check_op` and `apply_sync` (zhaxx.c:273-458) | none | precondition and effect of the five kinds | MOS |
| surgeon process, `main`, `do_import` (zhaxx.c:463-666) | phase, counters, `err`; the imported pool and its in-memory error log | parse, prompt, import, open, clear the log, check, sync task in two passes, verify, close, export | `txg_sync` thread of libzpool, the kernel's own ZFS, the operator |
| dump sources, `ZdbSource`, `DumpDirSource`, `parse_obj_dump` (zhaxx-scan:54-182) | cache of dumps | fetch and parse one object | `zdb`, captured files |
| checks and plan, `Scanner` (zhaxx-scan:191-549) | visited directories, findings, plan lines | error log, scan cursor, DSL walk, clones, orphan removal, dedupe | dump sources |
| workflow (docs/triage.md) | the pool over time | scan, commit, scan again | both tools |
| libspl: `isa_defs.h`, `simd.h` | the macros of a build; what a processor and its operating system announce | one branch per instruction set; `zfs_*_available()` | compiler, libzpool |
| libspl: `atomic.h`, `cmn_err.h` | words shared by threads | read-modify-write, barriers, 64-bit loads and stores, `cmn_err_once` | every thread of libzpool |
| libspl: `umem.h`, `kmem.h` | the heap, object caches | allocate, zero, align, free; cache create, destroy, allocate, free | libc, constructors of libzpool |
| libspl: `byteorder.h`, `time.h`, `uio.h` | a buffer; two clocks; a scatter list | reads and writes in a byte order; `gethrtime`; lookup and advance | libzpool |
| libspl: `sysmacros.h`, `assert.h`, `stack.h`, `stat.h`, `dklabel.h`, `fdisk.h` | none | powers of two, assertions, wrappers of libc calls, structures for the disk | libzpool |

Not modelled: `build.sh`; the layout of the report, the JSON file and `--capture`;
the tests, which were read as documentation (the pool of `MCTriage` is scenario A
of `tests/fixtures.py`, scaled down to 16 objects); and the headers that only
declare: `kstat.h`, `dkio.h`, `acl.h`, `libshare.h`, `list.h`, `mnttab.h`, `mhd.h` and
others hold types, constants and `extern` declarations whose bodies are in
OpenZFS, `wmsum.h` and `xdr.h` rename or stub such calls, `asm_linkage.h` is for
assembler, and `build.sh` puts only `compat/os/linux` on the include path, not
`compat/os/freebsd`.

What is hard here.  The precondition check of `main` runs while `txg_sync` may
write, and is repeated inside the txg; a failure there has only `abort()` to stop
it; a stale error log in memory can hang `txg_sync` and with it the sync task and
the export; object ids are recycled between the scan, the check and the commit;
the kernel may hold the pool; the scanner takes every dump at another moment and
may lose one; a damaged namespace may be cyclic; the two tools have a parser and
a printer of the plan that must agree.  In the headers it is what one machine, one
build or one thread cannot show: 27 targets and any processor, three threads on
one word and stores that leave a processor late, a full heap, the other byte
order, the ends of integer types, a clock that is set back.  `PROJECT.json` lists these hazards at
their lines.

What makes each part correct:

* surgeon: all of a confirmed plan or nothing reaches the disk, from a state in
  which every precondition held in that very txg (`AllOrNothing`); nothing is
  freed under another type (`FreesOnlyMatchingType`); the exit status is true
  (`ExitStatusHonest`); a run ends (`RunEnds`);
* scanner: its walk ends (`ScanEnds`), a clean report is true
  (`CleanIsConsistent`), it frees nothing that merely has a recycled id
  (`NeverFreesWrongType`);
* both together: the surgeon accepts the plan (`PlanAccepted`), its parser refuses no
  line of the scanner (`LinesParse`), it frees only what the scanner saw
  (`FreesWhatWasSeen`) and only as its contract says (`RepairsByContract`), the repair makes
  no new damage (`NoNewDangling`, `HealthyKept`, `CountsAgree`) and leaves none
  (`RescanClean`);
* headers: an accepted build is what its target is (`BuildIsTrue`), and a probe
  promises no instruction that would fault or lose registers
  (`NoIllegalInstruction`, `ProbeIsSound`; two probes promise one that may not be
  there, see section 3); no update, reference, message or half of
  a word is lost between threads (`FreedExactlyOnce`, `NoLostUpdate`, `PrintedOnce`,
  `NeverTorn`), also when the processor reorders (`LockProtects`, `DataBehindFlag`);
  the allocator keeps UMEM_NOFAIL, zeroes and the turns of constructors
  (`NofailReturnsMemory`, `NofailEnds`, `ZallocIsZeroed`, `MadeInTurn`); what is
  written is read back on any machine (`ReadsWhatWasWritten`, `WritesItsBytes`,
  `SectorsFilled`, `ChecksumKept`); time does not go back and timeouts do not fire
  early (`HrtimeMonotone`, `NeverEarly`); arithmetic, assertions and wrappers say
  the truth at every boundary (`LookupFindsTheByte`, `P2Exact`, `StopsWhenFalse`,
  `WrappersHonest`).

## 2. Modules

    Mos <- PlanFile <- RepairOps <- AtomicRepair            (abstract)
                          ^  ^----- Surgeon <- MCSurgeon    (implements AtomicRepair)
                          |            ^------ SurgeonProofs -> RepairOpsProofs
           PlanFile <- Scanner <- Triage <- MCTriage        (Triage also extends RepairOps,
                                    ^------ TriageProofs     and implements AtomicRepair)

    Isa <- CpuFeatures <- Simd ---------------------.
    Atomics, Membar, Umem, Byteorder, Hrtime, Uio --+--> Libspl <- MCLibspl
    Sysmacros, SplAssert, Wrappers, DiskLabel <- Shims -'   (Libspl instantiates all)

    Libspl <- LibsplProofs -> AtomicsProofs -> Sums, MembarProofs, UmemProofs

* **Mos** - an image of the MOS is a function from object ids to the state of a
  slot: type, `io` (FALSE when reading gives EIO), ZAP entries as sequences of
  64-bit words, bonus fields.  The `*_err` operators return the errno that the
  code tests.  `ErrlogHangs` says when `spa_errlog_sync` blocks.
* **PlanFile** - a line is the record of its tokens.  The text of a number is an
  integer, since the scanner can print a negative one; `kv_u64` wraps it as
  `strtoull` does.  A key is a sequence of words; `kv_str` keeps the first word of
  an unquoted one.  `BadLine` holds every refusal of `parse_plan`.
* **RepairOps** - `check_op`, `apply_err`, `apply_op`, and `PlanTrail`, the images a
  plan goes through (a recursive function, so that it can be proved about).
* **AtomicRepair** - the contract of the surgeon: arm a plan, then repair in one
  step or disarm; everything others do to the pool is counted in `drift`.
* **Surgeon** - one action per step of `main`, `do_import` and `apply_sync`; `pc`
  names the phase, `disk` is the last synced txg and `mos` what the process sees.
  `TxgCommit` makes `mos` durable.  `Finish` is the end of the process, by `return`,
  `abort()` or a kill, and drops all that libzpool had in memory.  Around it:
  `ErrlogSync` and `PoolTxg` (the `txg_sync` thread), `KernelImport`, `KernelWrite`,
  `KernelExport`, and `Crash` at any point.
* **Scanner** - the recursion of the Python code is an agenda of calls.  The call
  at its head first fetches the dumps it reads (`Reads`), one per step in the order
  of the code, so that losses and changes of the pool fall between any two dumps;
  then it runs (`Outcome`) and yields plan lines, findings and further calls.
  `Fetch` also models a timeout and a missing file; `ZdbNotFound` is `sys.exit`.
  `Filter` is `SelectSeq` as a recursive function over a set: the provers know nothing
  of `SelectSeq`.
* **Triage** - scanner, then a commit as `AtomicRepair` allows it (`Surgeon` is
  proved to implement that), then the scanner again.  `AR` maps it back to
  `AtomicRepair`: a plan is armed while a report that parses awaits the operator.
* **Isa**, **CpuFeatures**, **Simd** - a build is the set of macros that are defined;
  one operator per branch of `isa_defs.h`.  `CpuFeatures` holds the tables of
  `simd.h`, a register being the set of its bits that are 1.  `Simd` compiles a
  target, starts it on a machine and runs each probe in its steps: CPUID, the test
  of OSXSAVE, XGETBV, or the auxiliary vector.
* **Atomics** - each operation of `atomic.h` is one step on a shared word, the load
  and store of 64 bits are as many steps as the build makes of them, and threads
  use them as the header's comments say: reference counts, flags, exchange.
  `cmn_err_once` is the macro of `cmn_err.h`.
* **Membar** - a processor that keeps stores in a buffer and drains it in any order,
  and that may load ahead; the four barriers restrict both.  Two protocols use
  them, the bit lock and the data behind a flag.
* **Umem** - chunks of a heap that may be full, with the bytes left in them, whether
  an object is constructed in them, and the calls of `umem.h` in their steps:
  each attempt of the retry loop, `memset`, constructor, destructor, `free`.
* **Byteorder**, **Hrtime**, **Uio** - one small state machine per header: a buffer
  written on one machine and read on another; the two clocks; a scatter list.  `Uio`
  checks no more than `uio.h` does: `zfs_uio_iov_at_index` gives the whole length of a
  buffer, or of what lies behind the vector (`Behind`), and `zfs_uio_advance` takes any
  size, so `uio_resid` may become negative.
* **Sysmacros**, **SplAssert**, **Wrappers**, **DiskLabel**, **Shims** - the code without
  state as operators.  Integers keep their width, and a cast to `uintptr_t` has that of
  the data model of the build.  The two wrappers are given the structure of their caller
  and say what is in it afterwards.  `DiskLabel` lays structures out as a C compiler
  does.  `Shims` makes the calls, and holds each answer against what it means.
* **Libspl** - all headers in one specification.  They share no state, so a
  behaviour exercises one of them and the state spaces add up.

What the abstraction leaves out: wording and layout; the truncation of keys and
lines at 255 and 511 bytes; the regular expressions over zdb's text (a dump of an
unreadable object shows its bonus fields or nothing; an error printed before the
object header is left out); case folding of type names; whether the labels say
exported after a failed export.  Assumed of the outside: libzpool's calls return
the errnos of `Mos`; a bonus buffer is long enough for `ds_num_children`; the
kernel does not import a pool that the surgeon holds for writing; a read-only
import sees the txg of its import; the kernel imports nothing between the activity check
(zhaxx.c:489) and `spa_import` (502), which `Import` takes as one step; zdb prints `num_children` of every readable
dataset.  The bodies behind `atomic.h` are outside this repository: an operation is
atomic, and a barrier does what its comment says.

## 3. Runs

| Run | Instance | Result |
|---|---|---|
| `surgeon_safety` | 3 objects, 5 types, 6 keys, words mod 16, `MAX_OPS` 2, nine plan files, 2 runs, 1 change by others, `FairSpec` | `TypeOK`, `SurgeonInv`, `ExitStatusHonest`, `AllOrNothing`, `FreesOnlyMatchingType`, `RunEnds` hold; 32,082 states |
| `triage_repair` | 16 objects, 432 pools, 2 scans with a commit between | the seven workflow properties hold; 56,682 states |
| `scan_torn` | a cyclic namespace, 1 lost dump, 1 change during the scan or before the commit, `FairTSpec` | `PlanAccepted`, `LinesParse`, `FreesWhatWasSeen` and `ScanEnds` hold; 4,445 states |
| `libspl` | 27 targets, 1586 machines, 3 threads, 2 callers of the allocator, widths of 2 and 4 bits | the 23 properties of the headers hold; 324,818 states |

Bounds.  The nine plans cover all five kinds, a plan longer than `MAX_OPS`, a
refused line, an empty plan, a negative number, a key with a space, a free after
which a later operation fails, and a type without a name; `MAX_OPS` = 2 makes both
passes loop and the limit reachable; one change by others is enough to fall
between any two steps, and two runs to meet what a crashed or repeated run left.
The 432 pools of `triage_repair` are all combinations of both error-log states
(sound, recycled, gone), per-objset logs, three scan cursors, four kinds of extra
namespace entries (none, dangling, recycled, cyclic) and a live or dead clone;
two scans are one repair and its rescan.  `CHECK_DEADLOCK FALSE` in the triage
runs: an operator may stop after any scan.  The surgeon's runs check deadlock
too; there the kernel can always import or export, so `RunEnds` is what shows
that a run is not stuck.

In `libspl`: the targets are the spellings of predefined macros by gcc and clang on
every instruction set the header lists, and some it must refuse; the machines
have every combination of the CPUID bits that the probes tell apart (bits that no
probe separates form one group), highest leaf 1 or 7, and three register states.
Three threads and at most four references let two drops race while a third
holds; a shared word is taken modulo 16; three rounds let a lock be taken,
released and taken again.  Two chunks and two callers make the heap full and let
a chunk change hands dirty.  A unit of time is `Kilo` = 2 of the next, and the
clocks run to the end of second 1, over every carry.  Scatter lists have up to three
buffers of length 0 to 2, offsets go to one past their end, and advances by
4 or by -1 (`Sizes`) go up to `MaxOffset` = 8 either way, past the end of the longest, 6;
behind the vector is an `iov_len` of 0 or 7.  The words (`Words`) are all those of 1 and 2
bytes over 0, 1 and 255, and of 4 and 8 bytes the rising and the falling one, whose bytes
all differ.  The wide type has 4 bits and the narrow one 2: every
value, both ends and every alignment; a pointer has the narrow width on an ILP32
build, where `IS_P2ALIGNED` cuts an alignment of 4 or 8 to 0 and calls everything aligned,
so `P2Exact` claims it only of alignments that a pointer can hold.  The types that an
assertion converts to have 16 and 4 values, a char of the checksum 4 (`Mod64`, `Mod32`,
`Byte`); its operands go from below the signed to the top of the unsigned type, so each
conversion meets operands that it changes.  A call of the C library fails with one of two
errnos, and addresses and sizes are 0, 3 and 9 (`Errnos`, `Extents`).  `CHECK_DEADLOCK FALSE`: a call that has
answered is the end.

Fairness.  `FairSpec` asks weak fairness of `Advance`, the steps of `main` and of the
sync task, which are threads of a running process; nothing is asked of the
operator, the kernel or the pool.  `RunEnds` starts at the check with `txg_sync`
alive: before the log is cleared (zhaxx.c:603) `txg_sync` may already hang, which
the code cannot prevent.  `FairTSpec` asks weak fairness of the one process that
the scanner is.  In `Libspl` only the allocator has fairness: weak, for each thread
that is inside a call, which is a running thread; `NofailEnds` then assumes that
there is room for good from some time on, because the loop has no other end.

Every property of these runs has a mutant in `PROJECT.json`: a definition changed
as a plausible bug would change the code, under which TLC finds the property
violated.

### Where the code departs from what it says

Each of these runs checks one property that a document, comment or message of the
repository states, and TLC finds it violated:

| Run | Property | What happens |
|---|---|---|
| `noop_writes` | `NoopIsNoop` | `zap_zero` of an absent key is announced as "no-op (ok)" and creates the key |
| `post_verify` | `PostVerifyClean` | "Verification (post-apply)" checks the preconditions again, so a `zap_set` that worked is reported as FAIL |
| `lost_dump` | `HealthyKept` | a timeout or a missing dump of a directory passes for a free slot; the plan drops a healthy dataset from the namespace |
| `two_orphans` | `CountsAgree` | two dead clones of one snapshot: their `bonus_set` lines are equal and one is deduplicated |
| `dead_root` | `RescanClean` | the head of the root directory is dead: the plan frees the root directory that `root_dataset` names |
| `spaced_name` | `NoNewDangling` | a name with a space is printed without quotes and read back short; the entry stays, its directory is freed |
| `stale_clones` | `CleanIsConsistent` | snapshots are never visited, so their `next_clones` may dangle in a report without findings |
| `recycled_props` | `NeverFreesWrongType` | an orphan's reference that was recycled is freed with the type found there |

Three more, without a run of their own.  The row of AVX512VL in `cpuid_features[]`
(simd.h:154) has the bit of AVX512ER, so that `zfs_avx512vl_available()`, "Check if AVX512VL
instruction set is available", says yes on a processor with AVX512ER and without AVX512VL.
On arm `zfs_sha256_available()`, "Check if SHA2 is available", tests a bit of AT_HWCAP2 in
AT_HWCAP (simd.h:508).  The model keeps both probes as they are; `ProbeIsSound` holds them
(`Misread`) only to what is true of them: the registers are saved, and AVX512F is there.
Without the exception TLC finds it violated by either.  And when zdb cannot be found,
or the directory of dumps is missing, `sys.exit` with a message gives status 1
(zhaxx-scan:153, 576), which the head of the file reserves for findings (`ZdbNotFound`
in `Scanner`).

More, met on the way and kept in the model as the code has them: an orphan with
live child datasets loses them, since its child map is freed with it, and the
rescan is clean (`HealthyKept` fails on such a pool; no document promises
otherwise, so the pools of `MCTriage` leave it out).  `fstat64_blk` has filled the structure of
its caller when its ioctl fails (stat.h:44), with the size 0; `WrappersHonest` says so.
`kmem_alloc` (kmem.h:38) drops KM_SLEEP, so `NofailReturnsMemory` says nothing of it.

`RescanClean` asks for no *critical* finding where docs/triage.md promises none at
all: INFO lines on a sound error log remain by design.

## 4. Proofs

The theorems hold for all values of the constants that satisfy the named
assumptions: any set of objects, types and keys, any word size, any set of pools
and plan files, any number of threads and chunks, any bounds.

The assumptions are what the code fixes and TLC evaluates them in every run.  For the
scanner: the names it reads are keys, `SCAN_WORDS` is at most `SCAN_MAX_WORDS` (24 and
32 in the code), a ZAP has fewer names than there are 64-bit words, and the fields
that the walk follows are fields.  For the headers: the threads are finitely many,
NULL is neither a chunk nor a cache, the wide integer type has an even number of
values (`Mod64`) and at least twice those of the narrow one (`Mod32`, more than 2), a
char has more than one (`Byte`), words are sequences of naturals (`Words`), a size that is
advanced by is an integer (`Sizes`), and an operand of an assertion is an integer of 64
bits, signed or not (`Operands`).  What the theorems
on the plan and on the report ask of the pool is a hypothesis of each, named below; `MCTriage`
has TLC evaluate that all of its 432 pools satisfy it (`PoolsShaped`, `PoolsTyped`,
`PoolsFollowed`), dead, recycled, dangling and cyclic ones included.  Only `Contained`
leaves 54 of them out (`PoolsContained`), in which an entry of the child map names the
properties of an orphan, as a recycled id may, and a pool in which an orphan has a child.

### The surgeon (`RepairOpsProofs`, `SurgeonProofs`)

* **Operators.**  `ParseOpType`, `ApplyType`: parsing yields an operation, and
  applying one yields an image.  `ApplyFrame`: an operation changes only the object
  it names, and its type only by `free`.  `PlanTrailDef`: the equations of the
  recursive function `PlanTrail`; the prover cannot use the library's induction
  theorems with an operator parameter, so they are proved by a least
  counterexample (`NatMin`).
* **`TypeCorrect`** - `Spec => []TypeOK`.
* **`InvariantHolds`** - `Spec => []SurgeonInv`.  Neither the exit status nor the
  refinement is inductive alone.  What is missing is that nobody else writes while
  the pool is held, so that memory and disk agree outside the second pass
  (`OneWriter`); in which phases the pool is held and by what mode (`HeldWhere`);
  how `err` tells whether the plan has been applied (`Outcome`); and how far each
  pass has come (`Pass1Inv`: the operations checked so far hold on the disk;
  `Pass2Inv`: memory is `PlanTrail` of the disk at `i - 1`, all of it was checked,
  and only named objects differ).  TLC checks the same invariant.
* **`ExitStatusIsHonest`** and **`TypeGuardOfFree`** follow from it.
* **`SurgeonIsAllOrNothing`** - `Spec => AR!Spec`, with `pool <- disk`, and a plan
  armed from the operator's YES to the end of the sync task.  `TxgCommit` is the
  only step mapped to `Repair`; `Pass2Inv` at `i = Len(ops) + 1` gives its three
  conjuncts.
* **`RetryIsHarmless`** - `Spec => [][CommitSettles]_vars`.  A commit leaves exactly what
  the plan says of the disk before it, and the commit of a plan whose result is
  already there changes nothing: the operator may repeat a run that crashed with
  the commit or after it.  `PlanIdempotent` says the same of any plan and any pool: the last
  operation on a key or a field writes a value that does not depend on what was there
  (`SlotOverwritten`), and what no operation names stays.

### Scanner and workflow (`TriageProofs`)

`TriageInv` relates the cache, the agenda, the plan and the pool of a scan.  A dump
shows something only of an object that exists (`CacheInv`); a call for a name in a
map is made from a dump that has the name (`AgendaInv`); every line of the plan is
one that `parse_plan` takes and is *grounded*, that is, the dumps that made the scanner
write it are in the cache and show the type, the name or the field it relies on
(`OpsInv`); and while nobody else has changed the pool, each dump that shows an object
is a dump of that pool (`CacheTrue`).  Without the first two a line could name no
object or no type; without the last two a plan has nothing to do with the pool.
The invariant is preserved because a dump is taken once per scan (`FetchKeeps`).
There is one lemma per check for what it reads (`...Reads`) and one for what it
yields (`...Yields`).

* **`EveryLineParses`** - `TSpec => []LinesParse`.
* **`FreedAsSeen`** - `TSpec => FreesWhatWasSeen`.  `TrailFrame` shows that a type is
  lost only by a `free` of the plan; `check_op` has compared its type with the pool,
  and `OpsInv` ties it to the dump.
* **`ShapedPlanAccepted`** - as long as the pool is as it was scanned, and with any dumps
  lost, the surgeon accepts the plan: the parser takes it, every `check_op` holds and no
  `VERIFY0` fires.  The hypothesis `Shaped(pool)` leaves out what makes it false: names
  of several words (run `spaced_name`), objects whose type has no name, error logs that
  cannot be read, and references to an object of the wrong kind, such as a child map
  that names what a plan writes to; a plan longer than `MAX_OPS` is left out too.  By
  `TrailApplies` it is enough that each line fits the pool alone (`LineFits`), since no
  line of such a plan writes to what another frees.
* **`FreesPartsOnly`** - where no id in the fields of a dataset was recycled (`RefsTyped`;
  run `recycled_props` shows the other case), the plan frees nothing but error logs
  and parts of datasets (`NeverFreesWrongType`).  The types of directories are among
  those of the parts, which `PoolsTyped` evaluates too.
* **`CleanReportIsTrue`** - a report without findings is true, also when dumps were lost:
  every directory below the root can be read and is one, so is its head, and no
  reference that the walk follows dangles (`CleanWalk`).  If the pool has no other
  references that dangle (`FollowsAll`; run `stale_clones` shows such a one), the pool is
  consistent (`CleanIsConsistent`).  The invariant is `WalkInv`: while there are no
  findings, each visited directory is clean up to calls that are still on the agenda.
  At the end the agenda is empty, so the visited directories are closed under
  entering children, and they cover all that is below the root.  The hypothesis
  `ZapOrBonus` is that an object holds either a ZAP or a bonus that zdb prints.
* **`ContainedRepairIsClean`** - `TSpec /\ [][SureCommit]_tvars => NoNewDangling`: as long as
  each plan is committed to the pool that was scanned, with no dump lost, and that pool is
  `Shaped` and `Contained`, a repair leaves no new reference dangling.  `Contained` says
  that no readable object refers to an error log or to a part of an orphan, except the
  orphan itself and, for its directory, the child map above it; the dead head is not
  freed and may be referred to.  A plan only drops references (`TrailDrops`), so one that
  dangles anew names what was freed.  The invariant is `CoverInv`: what the plan frees is
  an error log or a part of an orphan (`OrphanCovers`), of which the plan frees the directory
  too and removes each name that the dump of the child map above it shows; hence `NoLoss`,
  that without lost dumps every dump taken is one of the pool.  Run `spaced_name`
  shows why the names must be single words, which is part of `Shaped`.
* **`WorkflowKeepsContract`** - `TSpec => AR!Spec`.  The step to `Arm` needs the
  type of the plan, hence `OpsInv`; `Commit` is `Repair`.  No run has it as a property:
  `Commit` is written after the contract, and the theorem is what joins the two.

### The headers (`Sums`, `AtomicsProofs`, `MembarProofs`, `UmemProofs`, `LibsplProofs`)

Each part is proved alone and carried over to `Libspl`.  **`PartsImplemented`** shows
that a behaviour of `Libspl` is one of each part: a step of one part leaves the
variables of the others alone.  `LibsplProofs` then instantiates the proof module of a
part with the variables of `Libspl` and cites its theorem.

* **`AtomicsOfLibspl`** - `FreedExactlyOnce`, `NoLostUpdate`, `PrintedOnce`, `NeverTorn`.
  The reference count is the *sum* of what all threads hold and still have to
  drop (`RefsInv`), so the thread that sees zero is the last one; the flags word and
  the exchanged word have such invariants too (`FlagsInv`, `SwapInv`).  `Sums` has the
  lemmas on `SumFunctionOnSet` that this takes: what changing one summand does, and
  that a sum of naturals is zero only if all are.  They are proved by a smallest set
  that is a counterexample.
* **`MembarOfLibspl`** - `LockProtects`, `DataBehindFlag`.  The invariant says which
  stores may still be in a buffer at each step of the two protocols, and that only
  the holder of the lock has any to the protected word.
* **`UmemOfLibspl`** - `NofailReturnsMemory`, `ZallocIsZeroed`, `MadeInTurn`.  A chunk that
  a call has obtained belongs to that thread alone, and where the call is tells
  what is in the chunk.
* **`SimdOfLibspl`** - `NoIllegalInstruction`, `ProbeIsSound`, for any targets and any
  machines: the answers a probe has so far are those of the machine, and it has come
  to XGETBV only past OSXSAVE (`SimdInv`).  That a yes means saved registers, and AVX512F
  for its family, is proved of every probe; that the processor has what the probe is named
  for, of all but the two of `Misread`, of which it is
  false (simd.h:154, 508).
* **`TimeOfLibspl`** (`NeverEarly`), **`HrtimeForward`** (`HrtimeMonotone`, an action
  property), for any ratio of the units.
* **`UioOfLibspl`** - `LookupFindsTheByte`, for vectors of any length: the bytes passed so
  far are the sum of the buffers passed (`UioInv`).  It does not say that a transfer stays
  in the vector: that is up to the caller, who must test the index and use no more than
  the rest of the buffer.
* **`ByteorderOfLibspl`** - `ReadsWhatWasWritten`, `WritesItsBytes`, for words of 1, 2, 4 and 8
  bytes, which may be any naturals, at three places of a buffer of 12: the buffer is the empty one with the bytes of the value
  put at one place, in the order of the writer (`ByteInv`), and each pair of conversions
  undoes itself.
* **`WrappersOfLibspl`** - `WrappersHonest`: whatever the calls behind a wrapper return, it reports
  success exactly when all of them did, and the structure of the caller is then and
  otherwise what the property says: a case for each call that may fail.
* **`AssertionsOfLibspl`** - `StopsWhenFalse`, for integer types of any size and any operands of
  64 bits: what `%` makes of an operand is the one value of the type that is a multiple of
  its size away (`OneValue`, `Converted`), which is how the property names it.
* **`ChecksumOfLibspl`** - `ChecksumKept`, for bytes of any size: four digits in base `Byte`, each
  shifted back from the sign of a char.

TLC found the invariants of `Atomics`, `Membar`, `Umem` and `Triage`, `WalkInv` and `CoverInv` among
them, to hold on small instances before they were proved.

### Only model-checked

* `RunEnds`, `ScanEnds`, `NofailEnds`: liveness under fairness is out of the prover's reach.
* `RescanClean`, `HealthyKept`, `CountsAgree`: false of arbitrary pools, as the
  violation runs of section 3 show, so they are claims about the pools of `MCTriage`.
  What is proved of `PlanAccepted`, `NeverFreesWrongType`, `CleanIsConsistent` and
  `NoNewDangling` is what their hypotheses leave; of every pool, without any, `LinesParse` and `FreesWhatWasSeen`.
* `BuildIsTrue`: it is about what the targets are, and TLC goes through all of them.
* `P2Exact`: it needs facts about `2^n` for a variable `n` and about bits, which the
  provers do not have.
* `SectorsFilled`: folds over the fields of structures that are given.

## 5. Plan

Done: `Mos`, `PlanFile`, `RepairOps`, `AtomicRepair`, `Surgeon` with their proofs;
`Scanner` and `Triage` with their runs and the proofs of the hand-over; the headers
with their runs and the proofs above.  Next, in this order:

1. Proofs: `NoNewDangling` of pools in which a child map also names parts of an orphan
   that are no directory, since `check_child` removes such names; `HealthyKept`.
2. `Scanner`: zdb errors before the object header; `--capture` and the offline scan
   of a captured directory.
3. `Triage`: a count below the number of clones (the wrap of a negative value), a
   snapshot with several clones of which some live, plans longer than `MAX_OPS`.
