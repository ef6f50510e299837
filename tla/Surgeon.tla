------------------------------- MODULE Surgeon -------------------------------
(***************************************************************************)
(* surgeon/zhaxx: one process that reads a plan, imports the pool through  *)
(* libzpool, checks every precondition and, with --commit, applies the     *)
(* plan in a sync task.  Inside the process main() and the txg_sync thread *)
(* of libzpool run concurrently; outside it the kernel may hold the pool,  *)
(* change it, and recycle object ids.  The process may die at any point    *)
(* and be started again, with the same plan or another.                    *)
(*                                                                         *)
(* disk is the MOS of the last synced txg.  mos is the MOS the process     *)
(* sees; what a sync task has written reaches disk only with its txg.      *)
(***************************************************************************)
EXTENDS RepairOps

CONSTANTS InitImages,  \* images of the pool at the start
          Drift,       \* the states others may leave in each object slot
          PlanFiles,   \* plan files an operator may pass: sequences of lines
          MosDir,      \* object 1, the MOS directory
          MaxRuns,     \* bound: runs of the surgeon
          MaxDrift     \* bound: changes of the pool by others

ASSUME SurgeonAssumption ==
  /\ InitImages \subseteq Image
  /\ Drift \in [Obj -> SUBSET ObjState]
  /\ PlanFiles \subseteq Seq(Line)
  /\ MosDir \in Obj /\ {<<"errlog_last">>, <<"errlog_scrub">>} \subseteq Key
  /\ MaxRuns \in Nat /\ MaxDrift \in Nat

VARIABLES
  \* the pool
  disk,     \* MOS image of the last synced txg
  kernel,   \* the kernel has the pool imported
  \* libzpool inside the process
  held,     \* "no", "ro" or "rw": how the process has the pool imported
  mos,      \* spa_meta_objset
  errlog,   \* spa_errlog_last and spa_errlog_scrub
  hung,     \* txg_sync is stuck in spa_errlog_sync
  \* the process
  pc, file, commit, ops, i, nfail, err, exit,
  vfail,    \* the post-apply verification printed a FAIL
  \* history and bounds
  applied,  \* the plan of this run has reached the disk
  runs, drift

poolVars == <<disk, kernel>>
spaVars == <<held, mos, errlog, hung>>
jobVars == <<file, commit, ops>>
vars == <<poolVars, spaVars, pc, jobVars, i, nfail, err, exit, vfail,
          applied, runs, drift>>

Blank == [o \in Obj |-> FreeSlot]
NoErrlog == [last |-> 0, scrub |-> 0]

\* What spa_load() puts in memory from the MOS directory.
ErrlogWord(m, key) ==
  IF zap_lookup_err(m, MosDir, <<key>>, 1) = "ok" THEN m[MosDir].zap[<<key>>][1]
  ELSE 0

Init ==
  /\ disk \in InitImages /\ kernel = FALSE
  /\ held = "no" /\ mos = Blank /\ errlog = NoErrlog /\ hung = FALSE
  /\ pc = "idle" /\ file = <<>> /\ commit = FALSE /\ ops = <<>>
  /\ i = 1 /\ nfail = 0 /\ err = 0 /\ exit = "none" /\ vfail = FALSE
  /\ applied = FALSE /\ runs = 0 /\ drift = 0

(***************************************************************************)
(* main(): arguments, parse_plan(), the prompt                             *)
(***************************************************************************)
\* The process is gone, and with it everything libzpool kept in memory.
Finish(code) ==
  /\ pc' = "idle" /\ exit' = code /\ i' = 1 /\ nfail' = 0 /\ err' = 0
  /\ held' = "no" /\ mos' = Blank /\ errlog' = NoErrlog /\ hung' = FALSE

Goto(label) ==
  /\ pc' = label /\ i' = 1
  /\ UNCHANGED <<poolVars, jobVars, exit, applied, runs, drift>>

Start(f, c) ==
  /\ pc = "idle" /\ runs < MaxRuns
  /\ pc' = "parse" /\ file' = f /\ commit' = c /\ ops' = <<>>
  /\ i' = 1 /\ exit' = "none" /\ vfail' = FALSE
  /\ applied' = FALSE /\ runs' = runs + 1
  /\ UNCHANGED <<poolVars, spaVars, nfail, err, drift>>

\* Bad arguments, or a plan file that cannot be opened.
CannotStart ==
  /\ pc = "parse" /\ i = 1 /\ ops = <<>>
  /\ Finish("2")
  /\ UNCHANGED <<poolVars, jobVars, vfail, applied, runs, drift>>

\* The array g_ops[] has no room for one more operation.
PlanFull == Len(ops) >= MaxOps

ParseLine ==
  /\ pc = "parse" /\ i <= Len(file)
  /\ LET l == file[i]
         skip == l.kind \in Ignored
         bad == ~skip /\ (PlanFull \/ BadLine(l))
     IN  \/ /\ bad
            /\ Finish("2")
            /\ UNCHANGED ops
         \/ /\ ~bad
            /\ i' = i + 1
            /\ ops' = IF skip THEN ops ELSE Append(ops, ParseOp(l))
            /\ UNCHANGED <<spaVars, pc, nfail, err, exit>>
  /\ UNCHANGED <<poolVars, file, commit, vfail, applied, runs, drift>>

ParseDone ==
  /\ pc = "parse" /\ i > Len(file)
  /\ \/ /\ ops = <<>>
        /\ Finish("0")
        /\ UNCHANGED <<poolVars, jobVars, applied, runs, drift>>
     \/ /\ ops # <<>>
        /\ Goto(IF commit THEN "prompt" ELSE "import")
        /\ UNCHANGED <<spaVars, nfail, err>>
  /\ UNCHANGED vfail

Confirm ==
  /\ pc = "prompt" /\ Goto("import")
  /\ UNCHANGED <<spaVars, nfail, err, vfail>>

Decline ==
  /\ pc = "prompt" /\ Finish("1")
  /\ UNCHANGED <<poolVars, jobVars, vfail, applied, runs, drift>>

(***************************************************************************)
(* do_import(), spa_open() and the in-memory error log                     *)
(***************************************************************************)
\* Mutant: can_be_active is TRUE whatever the mode.
Import_CanBeActive ==
  /\ pc = "import"
  /\ held' = IF commit THEN "rw" ELSE "ro"
  /\ mos' = disk
  /\ errlog' = [last |-> ErrlogWord(disk, "errlog_last"),
                scrub |-> ErrlogWord(disk, "errlog_scrub")]
  /\ Goto("open")
  /\ UNCHANGED <<hung, nfail, err, vfail>>

\* can_be_active = readonly: a commit does not take a pool that is active.  The
\* test of zpool_find_config() and spa_import() are one step: the kernel is assumed
\* not to import the pool in between.
Import ==
  /\ pc = "import" /\ ~(commit /\ kernel)
  /\ held' = IF commit THEN "rw" ELSE "ro"
  /\ mos' = disk
  /\ errlog' = [last |-> ErrlogWord(disk, "errlog_last"),
                scrub |-> ErrlogWord(disk, "errlog_scrub")]
  /\ Goto("open")
  /\ UNCHANGED <<hung, nfail, err, vfail>>

ImportFails ==
  /\ pc = "import" /\ Finish("1")
  /\ UNCHANGED <<poolVars, jobVars, vfail, applied, runs, drift>>

Open ==
  /\ pc = "open" /\ Goto(IF commit THEN "clear" ELSE "check")
  /\ UNCHANGED <<spaVars, nfail, err, vfail>>

OpenFails ==
  /\ pc = "open" /\ Goto("export") /\ err' = 1
  /\ UNCHANGED <<spaVars, nfail, vfail>>

\* Mutant: spa_errlog_scrub is forgotten.
ClearErrlog_LastOnly ==
  /\ pc = "clear" /\ Goto("check")
  /\ errlog' = [errlog EXCEPT !.last = 0]
  /\ UNCHANGED <<held, mos, hung, nfail, err, vfail>>

ClearErrlog ==
  /\ pc = "clear" /\ Goto("check")
  /\ errlog' = NoErrlog
  /\ UNCHANGED <<held, mos, hung, nfail, err, vfail>>

(***************************************************************************)
(* The read-only precondition pass: all operations, failures are counted   *)
(***************************************************************************)
Check ==
  /\ pc = "check" /\ i <= Len(ops)
  /\ nfail' = IF check_op(mos, ops[i]) THEN nfail ELSE nfail + 1
  /\ i' = i + 1
  /\ UNCHANGED <<poolVars, spaVars, pc, jobVars, err, exit, vfail, applied,
                 runs, drift>>

\* Mutant: goto out_close without err = 1.
CheckDone_ErrNotSet ==
  /\ pc = "check" /\ i > Len(ops)
  /\ Goto(IF nfail = 0 /\ commit THEN "task" ELSE "close")
  /\ UNCHANGED <<spaVars, nfail, err, vfail>>

CheckDone ==
  /\ pc = "check" /\ i > Len(ops)
  /\ Goto(IF nfail = 0 /\ commit THEN "task" ELSE "close")
  /\ err' = IF nfail = 0 THEN 0 ELSE 1
  /\ UNCHANGED <<spaVars, nfail, vfail>>

(***************************************************************************)
(* dsl_sync_task(): apply_sync() runs in the txg_sync thread while main()  *)
(* waits.  VERIFY0() aborts the process.                                   *)
(***************************************************************************)
TaskFails ==
  /\ pc = "task" /\ Goto("close") /\ err' = 1
  /\ UNCHANGED <<spaVars, nfail, vfail>>

TaskStart ==
  /\ pc = "task" /\ ~hung /\ Goto("pass1")
  /\ UNCHANGED <<spaVars, nfail, err, vfail>>

\* Mutant: the checks of main() are trusted and not repeated in the txg.
Pass1_Trusting ==
  /\ pc = "pass1" /\ i <= Len(ops)
  /\ i' = i + 1
  /\ UNCHANGED <<poolVars, spaVars, pc, jobVars, nfail, err, exit, vfail,
                 applied, runs, drift>>

Pass1 ==
  /\ pc = "pass1" /\ i <= Len(ops)
  /\ \/ /\ ~check_op(mos, ops[i])
        /\ Finish("abort")
     \/ /\ check_op(mos, ops[i])
        /\ i' = i + 1
        /\ UNCHANGED <<spaVars, pc, nfail, err, exit>>
  /\ UNCHANGED <<poolVars, jobVars, vfail, applied, runs, drift>>

Pass1Done ==
  /\ pc = "pass1" /\ i > Len(ops) /\ Goto("pass2")
  /\ UNCHANGED <<spaVars, nfail, err, vfail>>

Pass2 ==
  /\ pc = "pass2" /\ i <= Len(ops)
  /\ \/ /\ apply_err(mos, ops[i]) # "ok"
        /\ Finish("abort")
     \/ /\ apply_err(mos, ops[i]) = "ok"
        /\ mos' = apply_op(mos, ops[i]) /\ i' = i + 1
        /\ UNCHANGED <<held, errlog, hung, pc, nfail, err, exit>>
  /\ UNCHANGED <<poolVars, jobVars, vfail, applied, runs, drift>>

\* The txg syncs and dsl_sync_task() returns 0.
TxgCommit ==
  /\ pc = "pass2" /\ i > Len(ops)
  /\ disk' = mos /\ applied' = TRUE
  /\ pc' = "verify" /\ i' = 1
  /\ UNCHANGED <<kernel, spaVars, jobVars, nfail, err, exit, vfail, runs, drift>>

(***************************************************************************)
(* The post-apply verification, whose results only go to stderr, then      *)
(* spa_close(), spa_export() and the exit status                           *)
(***************************************************************************)
Verify ==
  /\ pc = "verify" /\ i <= Len(ops)
  /\ vfail' = (vfail \/ ~check_op(mos, ops[i]))
  /\ i' = i + 1
  /\ UNCHANGED <<poolVars, spaVars, pc, jobVars, nfail, err, exit, applied,
                 runs, drift>>

VerifyDone ==
  /\ pc = "verify" /\ i > Len(ops) /\ Goto("close")
  /\ UNCHANGED <<spaVars, nfail, err, vfail>>

Close ==
  /\ pc = "close" /\ Goto("export")
  /\ UNCHANGED <<spaVars, nfail, err, vfail>>

\* A failed export is only a warning.  The export of a writable pool waits
\* for its last txg.
Export ==
  /\ pc = "export" /\ ~(held = "rw" /\ hung)
  /\ Finish(IF err = 0 THEN "0" ELSE "1")
  /\ UNCHANGED <<poolVars, jobVars, vfail, applied, runs, drift>>

(***************************************************************************)
(* Around main(): the txg_sync thread, the kernel, a crash                 *)
(***************************************************************************)
InSyncTask == pc \in {"pass1", "pass2"}

\* Housekeeping of libzpool in a txg of its own, never inside a sync task.
PoolTxg(o, s) ==
  /\ held = "rw" /\ ~InSyncTask /\ ~hung /\ drift < MaxDrift
  /\ mos' = [mos EXCEPT ![o] = s]
  /\ disk' = [disk EXCEPT ![o] = s]
  /\ drift' = drift + 1
  /\ UNCHANGED <<kernel, held, errlog, hung, pc, jobVars, i, nfail, err, exit,
                 vfail, applied, runs>>

ErrlogSync ==
  /\ held = "rw" /\ ~InSyncTask /\ ~hung
  /\ ErrlogHangs(mos, errlog.last) \/ ErrlogHangs(mos, errlog.scrub)
  /\ hung' = TRUE
  /\ UNCHANGED <<poolVars, held, mos, errlog, pc, jobVars, i, nfail, err, exit,
                 vfail, applied, runs, drift>>

KernelImport ==
  /\ held # "rw" /\ ~kernel /\ kernel' = TRUE
  /\ UNCHANGED <<disk, spaVars, pc, jobVars, i, nfail, err, exit, vfail,
                 applied, runs, drift>>

KernelExport ==
  /\ kernel /\ kernel' = FALSE
  /\ UNCHANGED <<disk, spaVars, pc, jobVars, i, nfail, err, exit, vfail,
                 applied, runs, drift>>

KernelWrite(o, s) ==
  /\ kernel /\ drift < MaxDrift
  /\ disk' = [disk EXCEPT ![o] = s]
  /\ drift' = drift + 1
  /\ UNCHANGED <<kernel, spaVars, pc, jobVars, i, nfail, err, exit, vfail,
                 applied, runs>>

Crash ==
  /\ pc # "idle" /\ Finish("killed")
  /\ UNCHANGED <<poolVars, jobVars, vfail, applied, runs, drift>>

\* The steps of the process that nothing but its own state can hold up.
Advance ==
  \/ ParseLine \/ ParseDone \/ Import \/ Open \/ ClearErrlog
  \/ Check \/ CheckDone \/ TaskStart \/ Pass1 \/ Pass1Done \/ Pass2
  \/ TxgCommit \/ Verify \/ VerifyDone \/ Close \/ Export

Fail == CannotStart \/ Decline \/ ImportFails \/ OpenFails \/ TaskFails \/ Crash

Environment ==
  \/ ErrlogSync \/ KernelImport \/ KernelExport
  \/ \E o \in Obj : \E s \in Drift[o] : PoolTxg(o, s) \/ KernelWrite(o, s)

Next ==
  \/ \E f \in PlanFiles, c \in BOOLEAN : Start(f, c)
  \/ Confirm \/ Advance \/ Fail \/ Environment

Spec == Init /\ [][Next]_vars

\* main() and txg_sync are threads of a running process.  Nothing obliges
\* the operator, the kernel or the pool to do anything.
FairSpec == Spec /\ WF_vars(Advance)

(***************************************************************************)
(* Properties                                                              *)
(***************************************************************************)
Label == {"idle", "parse", "prompt", "import", "open", "clear", "check", "task",
          "pass1", "pass2", "verify", "close", "export"}

\* Every variable stays in its domain; in particular g_nops never exceeds
\* MAX_OPS and the images stay well formed under every operation.
TypeOK ==
  /\ disk \in Image /\ kernel \in BOOLEAN
  /\ held \in {"no", "ro", "rw"} /\ mos \in Image /\ hung \in BOOLEAN
  /\ errlog \in [last : Word, scrub : Word]
  /\ pc \in Label /\ file \in Seq(Line) /\ commit \in BOOLEAN
  /\ ops \in Seq(Op) /\ Len(ops) <= MaxOps
  /\ i \in Nat \ {0} /\ nfail \in Nat /\ err \in {0, 1}
  /\ exit \in {"none", "0", "1", "2", "abort", "killed"}
  /\ vfail \in BOOLEAN /\ applied \in BOOLEAN
  /\ runs \in Nat /\ drift \in Nat

\* Between the operator's YES and the txg, the process may write the pool.
Armed ==
  commit /\ pc \in {"import", "open", "clear", "check", "task", "pass1", "pass2"}

AR == INSTANCE AtomicRepair
        WITH pool <- disk, armed <- Armed, plan <- IF Armed THEN ops ELSE <<>>

\* All or nothing: whatever the interleaving with txg_sync and the kernel, and
\* wherever the process dies, the surgeon changes the pool only by one whole
\* confirmed plan, from an image on which every precondition holds.
AllOrNothing == AR!Spec

CommitStep == pc = "pass2" /\ pc' = "verify"

CommitFrees ==
  \A o \in Obj : disk'[o] # disk[o] =>
    /\ \E j \in DOMAIN ops : ops[j].obj = o
    /\ disk'[o].type # disk[o].type =>
         \E j \in DOMAIN ops :
           ops[j].kind = "free" /\ ops[j].obj = o /\ ops[j].type = disk[o].type

\* The type guard of free: a commit changes only objects the plan names, and
\* an object loses its type only to a free whose type= is the type the object
\* still had in the txg before.
FreesOnlyMatchingType == [][CommitStep => CommitFrees]_vars

\* The exit status is honest: a commit that exits 0 has put its plan on disk,
\* one that exits 1 or 2 or aborts has not, and a dump never has.
ExitStatusHonest ==
  /\ applied => commit
  /\ pc = "idle" /\ exit \in {"1", "2", "abort"} => ~applied
  /\ pc = "idle" /\ exit = "0" /\ commit /\ ops # <<>> => applied

(***************************************************************************)
(* The inductive invariant behind the safety properties                    *)
(***************************************************************************)
\* While the process holds the pool for writing nobody else does, and outside
\* the second pass what it sees is what is on disk.
OneWriter == held = "rw" => ~kernel /\ (pc # "pass2" => mos = disk)

BeforeImport == {"idle", "parse", "prompt", "import"}

HeldWhere ==
  /\ held = IF pc \in BeforeImport THEN "no" ELSE IF commit THEN "rw" ELSE "ro"
  /\ pc \in {"prompt", "clear", "task", "pass1", "pass2", "verify"} => commit
  /\ pc \notin {"idle", "parse"} => ops # <<>>

\* How err and exit tell whether the plan has reached the disk.
Outcome ==
  /\ applied => commit /\ pc \in {"verify", "close", "export", "idle"}
  /\ pc \in {"task", "pass1", "pass2"} => err = 0
  /\ pc = "verify" => applied /\ err = 0
  /\ pc \in {"close", "export"} /\ commit => (applied <=> err = 0)
  /\ ExitStatusHonest

Pass1Inv == pc = "pass1" => \A j \in DOMAIN ops : j < i => check_op(disk, ops[j])

\* In the second pass the whole plan holds on the disk, i - 1 operations have
\* been applied in memory, and they have touched only what they name.
Pass2Inv ==
  pc = "pass2" =>
    /\ PlanHolds(ops, disk)
    /\ i <= Len(ops) + 1
    /\ mos = PlanTrail(ops, disk)[i - 1]
    /\ \A j \in DOMAIN ops :
         j < i => apply_err(PlanTrail(ops, disk)[j - 1], ops[j]) = "ok"
    /\ \A o \in Obj :
         /\ mos[o] # disk[o] => \E j \in DOMAIN ops : ops[j].obj = o
         /\ mos[o].type # disk[o].type =>
              /\ mos[o].type = NoType
              /\ \E j \in DOMAIN ops : ops[j].kind = "free" /\ ops[j].obj = o

\* One writer, the phase of the run, its outcome so far, and how far each pass
\* of apply_sync() has come: together they are preserved by every step.
SurgeonInv == OneWriter /\ HeldWhere /\ Outcome /\ Pass1Inv /\ Pass2Inv

\* Once the in-memory error log is cleared and txg_sync is alive, the run
\* comes to an end: a stale log cannot hang the sync task or the export.
RunEnds == (pc = "check" /\ ~hung) ~> (pc = "idle")

\* What check_op() calls "no-op (ok)" leaves the MOS alone when it is applied.
NoopIsNoop ==
  pc = "pass2" /\ i = 1 =>
    \A j \in DOMAIN ops : ReportedNoop(mos, ops[j]) =>
      apply_err(mos, ops[j]) = "ok" /\ apply_op(mos, ops[j]) = mos

\* The "Verification (post-apply)" of a plan that was applied reports no FAIL.
PostVerifyClean == pc = "close" /\ applied => ~vfail
==============================================================================
