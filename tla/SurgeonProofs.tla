---------------------------- MODULE SurgeonProofs ----------------------------
(***************************************************************************)
(* Proofs about the surgeon, for every pool, plan file, number of runs and *)
(* number of changes by others: type correctness, the inductive invariant, *)
(* and from it the exit status, the type guard of free and the refinement  *)
(* of AtomicRepair.                                                        *)
(***************************************************************************)
EXTENDS Surgeon, RepairOpsProofs

\* What spa_load() reads from the MOS directory is a 64-bit word.
LEMMA ErrlogWordType ==
  ASSUME NEW m \in Image, NEW key \in {"errlog_last", "errlog_scrub"}
  PROVE  ErrlogWord(m, key) \in Word
<1>1. m[MosDir].zap[<<key>>] \in Seq(Word)
  BY SurgeonAssumption DEF Image, ObjState, Zap
<1>2. ASSUME m[MosDir].zap[<<key>>] # <<>>
      PROVE  m[MosDir].zap[<<key>>][1] \in Word
  BY <1>1, <1>2
<1>3. zap_lookup_err(m, MosDir, <<key>>, 1) = "ok" => m[MosDir].zap[<<key>>] # <<>>
  BY DEF zap_lookup_err
<1>4. 0 \in Word
  BY MosAssumption DEF Word
<1> QED
  BY <1>2, <1>3, <1>4 DEF ErrlogWord
(***************************************************************************)
(* Type correctness                                                        *)
(***************************************************************************)
\* The MOS of a process that holds no pool is an image.
LEMMA BlankType == Blank \in Image
BY FreeSlotType DEF Blank, Image

\* Every variable starts in its domain.
LEMMA TypeInit == Init => TypeOK
<1>1. 0 \in Word /\ 0 \in Nat /\ 1 \in Nat \ {0}
  BY MosAssumption DEF Word
<1>2. <<>> \in Seq(Op) /\ <<>> \in Seq(Line) /\ Len(<<>>) <= MaxOps
  BY PlanFileAssumption
<1>3. NoErrlog \in [last : Word, scrub : Word] /\ InitImages \subseteq Image
  BY <1>1, SurgeonAssumption DEF NoErrlog
<1> QED
  BY <1>1, <1>2, <1>3, BlankType DEF Init, TypeOK, Label

\* What Finish leaves to prove.
LEMMA FinishType ==
  ASSUME TypeOK, NEW code \in {"0", "1", "2", "abort", "killed"}, Finish(code),
         UNCHANGED <<poolVars, file, commit, vfail, applied, runs, drift>>,
         ops' \in Seq(Op), Len(ops') <= MaxOps
  PROVE  TypeOK'
<1>1. 0 \in Word /\ 0 \in Nat /\ 1 \in Nat \ {0}
  BY MosAssumption DEF Word
<1> QED
  BY <1>1, BlankType DEF TypeOK, Finish, poolVars, Label, NoErrlog

\* What Goto leaves to prove.
LEMMA GotoType ==
  ASSUME TypeOK, NEW label \in Label, Goto(label), mos' \in Image,
         held' \in {"no", "ro", "rw"}, hung' \in BOOLEAN, err' \in {0, 1},
         errlog' \in [last : Word, scrub : Word], UNCHANGED <<nfail, vfail>>
  PROVE  TypeOK'
BY DEF TypeOK, Goto, poolVars, jobVars

\* No step of main(), txg_sync, the kernel or a crash leaves the domains.
LEMMA TypeNext == TypeOK /\ [Next]_vars => TypeOK'
<1> SUFFICES ASSUME TypeOK, [Next]_vars PROVE TypeOK'
  OBVIOUS
<1> USE DEF poolVars, spaVars, jobVars
<1>1. CASE \E f \in PlanFiles, c \in BOOLEAN : Start(f, c)
  <2> PICK f \in PlanFiles, c \in BOOLEAN : Start(f, c)
    BY <1>1
  <2>1. f \in Seq(Line) /\ <<>> \in Seq(Op) /\ Len(<<>>) <= MaxOps
    BY SurgeonAssumption, PlanFileAssumption
  <2>2. runs + 1 \in Nat /\ 1 \in Nat \ {0}
    BY DEF TypeOK
  <2> QED
    BY <2>1, <2>2 DEF Start, TypeOK, Label
<1>2. CASE ParseLine
  <2>1. PICK l : l = file[i]
    OBVIOUS
  <2>2. l \in Line
    BY <1>2, <2>1 DEF ParseLine, TypeOK
  <2>3. CASE l.kind \notin Ignored /\ (PlanFull \/ BadLine(l))
    <3>1. Finish("2") /\ UNCHANGED ops
      BY <1>2, <2>1, <2>3 DEF ParseLine
    <3> QED
      BY <1>2, <3>1, FinishType DEF ParseLine, TypeOK
  <2>4. CASE ~(l.kind \notin Ignored /\ (PlanFull \/ BadLine(l)))
    <3>1. /\ i' = i + 1
          /\ ops' = IF l.kind \in Ignored THEN ops ELSE Append(ops, ParseOp(l))
          /\ UNCHANGED <<spaVars, pc, nfail, err, exit>>
      BY <1>2, <2>1, <2>4 DEF ParseLine
    <3>2. ops' \in Seq(Op) /\ Len(ops') <= MaxOps
      BY <2>2, <2>4, <3>1, ParseOpType, PlanFileAssumption DEF TypeOK, PlanFull
    <3> QED
      BY <1>2, <3>1, <3>2 DEF ParseLine, TypeOK
  <2> QED
    BY <2>3, <2>4
<1>3. CASE ParseDone
  <2>1. CASE ops = <<>>
    BY <1>3, <2>1, FinishType DEF ParseDone, TypeOK
  <2>2. CASE ops # <<>>
    BY <1>3, <2>2, GotoType DEF ParseDone, TypeOK, Label
  <2> QED
    BY <2>1, <2>2
<1>4. CASE Import
  <2>1. ErrlogWord(disk, "errlog_last") \in Word /\ ErrlogWord(disk, "errlog_scrub") \in Word
    BY ErrlogWordType DEF TypeOK
  <2> QED
    BY <1>4, <2>1, GotoType DEF Import, TypeOK, Label
<1>5. CASE ClearErrlog
  BY <1>5, GotoType, MosAssumption DEF ClearErrlog, TypeOK, Label, NoErrlog, Word
<1>6. CASE \/ Confirm \/ Open \/ OpenFails \/ CheckDone \/ TaskFails \/ TaskStart
           \/ Pass1Done \/ VerifyDone \/ Close
  <2>1. \E label \in Label : Goto(label)
    BY <1>6 DEF Confirm, Open, OpenFails, CheckDone, TaskFails, TaskStart,
                Pass1Done, VerifyDone, Close, Label
  <2>2. UNCHANGED <<spaVars, nfail, vfail>> /\ err' \in {0, 1}
    BY <1>6 DEF Confirm, Open, OpenFails, CheckDone, TaskFails, TaskStart,
                Pass1Done, VerifyDone, Close, TypeOK
  <2> QED
    BY <2>1, <2>2, GotoType DEF TypeOK
<1>7. CASE CannotStart \/ Decline \/ ImportFails \/ Export \/ Crash
  <2>1. \E code \in {"0", "1", "2", "killed"} : Finish(code)
    BY <1>7 DEF CannotStart, Decline, ImportFails, Export, Crash
  <2>2. UNCHANGED <<poolVars, jobVars, vfail, applied, runs, drift>>
    BY <1>7 DEF CannotStart, Decline, ImportFails, Export, Crash
  <2> QED
    BY <2>1, <2>2, FinishType DEF TypeOK
<1>8. CASE Check
  BY <1>8 DEF Check, TypeOK
<1>9. CASE Pass1
  <2>1. CASE Finish("abort")
    BY <1>9, <2>1, FinishType DEF Pass1, TypeOK
  <2>2. CASE ~Finish("abort")
    BY <1>9, <2>2 DEF Pass1, TypeOK
  <2> QED
    BY <2>1, <2>2
<1>10. CASE Pass2
  <2>1. CASE Finish("abort")
    BY <1>10, <2>1, FinishType DEF Pass2, TypeOK
  <2>2. CASE ~Finish("abort")
    <3>1. ops[i] \in Op
      BY <1>10 DEF Pass2, TypeOK
    <3>2. apply_op(mos, ops[i]) \in Image
      BY <3>1, ApplyType DEF TypeOK
    <3> QED
      BY <1>10, <2>2, <3>2 DEF Pass2, TypeOK
  <2> QED
    BY <2>1, <2>2
<1>11. CASE TxgCommit
  BY <1>11 DEF TxgCommit, TypeOK, Label
<1>12. CASE Verify
  BY <1>12 DEF Verify, TypeOK
<1>13. CASE \E o \in Obj : \E s \in Drift[o] : PoolTxg(o, s) \/ KernelWrite(o, s)
  <2> PICK o \in Obj : \E s \in Drift[o] : PoolTxg(o, s) \/ KernelWrite(o, s)
    BY <1>13
  <2>1. PICK s \in Drift[o] : PoolTxg(o, s) \/ KernelWrite(o, s)
    OBVIOUS
  <2>2. s \in ObjState
    BY SurgeonAssumption
  <2>3. [mos EXCEPT ![o] = s] \in Image /\ [disk EXCEPT ![o] = s] \in Image
    BY <2>2 DEF TypeOK, Image
  <2>4. drift + 1 \in Nat
    BY DEF TypeOK
  <2> QED
    BY <2>1, <2>3, <2>4 DEF PoolTxg, KernelWrite, TypeOK
<1>14. CASE ErrlogSync \/ KernelImport \/ KernelExport
  BY <1>14 DEF ErrlogSync, KernelImport, KernelExport, TypeOK
<1>15. CASE UNCHANGED vars
  BY <1>15 DEF vars, TypeOK
<1> QED
  BY <1>1, <1>2, <1>3, <1>4, <1>5, <1>6, <1>7, <1>8, <1>9, <1>10, <1>11, <1>12,
     <1>13, <1>14, <1>15
  DEF Next, Advance, Fail, Environment

\* Type correctness of the surgeon: parse_plan() never fills more than MAX_OPS
\* slots, and check and apply keep the images of the MOS well formed.
THEOREM TypeCorrect == Spec => []TypeOK
BY TypeInit, TypeNext, PTL DEF Spec
(***************************************************************************)
(* The inductive invariant                                                 *)
(***************************************************************************)
\* The invariant holds before the first run.
LEMMA InvInit == Init => SurgeonInv
BY DEF Init, SurgeonInv, OneWriter, HeldWhere, BeforeImport, Outcome,
       ExitStatusHonest, Pass1Inv, Pass2Inv

\* An end of the process that tells the truth about applied.
LEMMA FinishInv ==
  ASSUME TypeOK, SurgeonInv, NEW code \in {"0", "1", "2", "abort", "killed"},
         Finish(code), UNCHANGED <<poolVars, commit, applied>>,
         code \in {"1", "2", "abort"} => ~applied,
         code = "0" /\ commit /\ ops' # <<>> => applied
  PROVE  SurgeonInv'
<1>1. pc' = "idle" /\ held' = "no" /\ exit' = code
  BY DEF Finish
<1>2. applied => commit
  BY DEF SurgeonInv, Outcome
<1> QED
  BY <1>1, <1>2 DEF SurgeonInv, OneWriter, HeldWhere, BeforeImport, Outcome,
     ExitStatusHonest, Pass1Inv, Pass2Inv, poolVars

\* Every step of the process and of its surroundings preserves the invariant.
LEMMA InvNext == TypeOK /\ SurgeonInv /\ [Next]_vars => SurgeonInv'
<1> SUFFICES ASSUME TypeOK, SurgeonInv, [Next]_vars PROVE SurgeonInv'
  OBVIOUS
<1> USE DEF poolVars, spaVars, jobVars
<1>1. CASE \E f \in PlanFiles, c \in BOOLEAN : Start(f, c)
  BY <1>1 DEF Start, SurgeonInv, OneWriter, HeldWhere, BeforeImport, Outcome,
     ExitStatusHonest, Pass1Inv, Pass2Inv
<1>2. CASE ParseLine
  <2>1. CASE Finish("2")
    BY <1>2, <2>1, FinishInv DEF ParseLine, SurgeonInv, Outcome
  <2>2. CASE ~Finish("2")
    BY <1>2, <2>2 DEF ParseLine, SurgeonInv, OneWriter, HeldWhere, BeforeImport,
       Outcome, ExitStatusHonest, Pass1Inv, Pass2Inv
  <2> QED
    BY <2>1, <2>2
<1>3. CASE ParseDone
  <2>1. CASE ops = <<>>
    BY <1>3, <2>1, FinishInv DEF ParseDone
  <2>2. CASE ops # <<>>
    BY <1>3, <2>2 DEF ParseDone, Goto, SurgeonInv, OneWriter, HeldWhere,
       BeforeImport, Outcome, ExitStatusHonest, Pass1Inv, Pass2Inv
  <2> QED
    BY <2>1, <2>2
<1>4. CASE CannotStart \/ Decline \/ ImportFails
  BY <1>4, FinishInv DEF CannotStart, Decline, ImportFails, SurgeonInv, Outcome
<1>5. CASE Export
  BY <1>5, FinishInv DEF Export, TypeOK, SurgeonInv, Outcome
<1>6. CASE \/ Confirm \/ Import \/ Open \/ OpenFails \/ ClearErrlog \/ CheckDone
           \/ TaskFails \/ TaskStart \/ VerifyDone \/ Close
  BY <1>6
  DEF Confirm, Import, Open, OpenFails, ClearErrlog, CheckDone, TaskFails,
      TaskStart, VerifyDone, Close, Goto, TypeOK, SurgeonInv, OneWriter,
      HeldWhere, BeforeImport, Outcome, ExitStatusHonest, Pass1Inv, Pass2Inv
<1>7. CASE Crash
  BY <1>7, FinishInv DEF Crash
<1>8. CASE Check \/ Verify
  BY <1>8 DEF Check, Verify, SurgeonInv, OneWriter, HeldWhere, BeforeImport,
     Outcome, ExitStatusHonest, Pass1Inv, Pass2Inv
<1>9. CASE Pass1
  <2>0. ~applied /\ commit /\ held = "rw" /\ mos = disk
    BY <1>9 DEF Pass1, SurgeonInv, Outcome, HeldWhere, OneWriter, BeforeImport
  <2>1. CASE ~check_op(mos, ops[i])
    BY <1>9, <2>0, <2>1, FinishInv DEF Pass1
  <2>2. CASE check_op(mos, ops[i])
    <3>1. /\ i' = i + 1 /\ pc = "pass1"
          /\ UNCHANGED <<disk, kernel, held, mos, pc, commit, ops, err, exit, applied>>
      BY <1>9, <2>2 DEF Pass1
    <3>2. Pass1Inv'
      BY <2>0, <2>2, <3>1 DEF SurgeonInv, Pass1Inv, TypeOK
    <3> QED
      BY <3>1, <3>2 DEF SurgeonInv, OneWriter, HeldWhere, BeforeImport,
         Outcome, ExitStatusHonest, Pass2Inv
  <2> QED
    BY <2>1, <2>2
<1>10. CASE Pass1Done
  <2>1. /\ pc = "pass1" /\ pc' = "pass2" /\ i > Len(ops) /\ i' = 1
        /\ UNCHANGED <<disk, kernel, held, mos, commit, ops, err, exit, applied>>
    BY <1>10 DEF Pass1Done, Goto
  <2>2. mos = disk
    BY <2>1 DEF SurgeonInv, HeldWhere, OneWriter, BeforeImport
  <2>3. PlanHolds(ops, disk)
    BY <2>1 DEF SurgeonInv, Pass1Inv, PlanHolds, TypeOK
  <2>4. PlanTrail(ops, disk)[0] = disk
    BY PlanTrailDef DEF TypeOK
  <2>5. Pass2Inv'
    BY <2>1, <2>2, <2>3, <2>4 DEF Pass2Inv, TypeOK
  <2> QED
    BY <2>1, <2>5 DEF SurgeonInv, OneWriter, HeldWhere, BeforeImport,
       Outcome, ExitStatusHonest, Pass1Inv
<1>11. CASE Pass2
  <2>0. ~applied
    BY <1>11 DEF Pass2, SurgeonInv, Outcome
  <2>1. CASE apply_err(mos, ops[i]) # "ok"
    BY <1>11, <2>0, <2>1, FinishInv DEF Pass2
  <2>2. CASE apply_err(mos, ops[i]) = "ok"
    <3>1. /\ i <= Len(ops) /\ i' = i + 1 /\ pc = "pass2"
          /\ mos' = apply_op(mos, ops[i])
          /\ UNCHANGED <<disk, kernel, held, pc, commit, ops, err, exit, applied>>
      BY <1>11, <2>2 DEF Pass2
    <3>2. i \in DOMAIN ops /\ ops[i] \in Op
      BY <3>1 DEF TypeOK
    <3>3. mos = PlanTrail(ops, disk)[i - 1]
      BY <3>1 DEF SurgeonInv, Pass2Inv
    <3>4. mos' = PlanTrail(ops, disk)[i]
      BY <3>1, <3>2, <3>3, PlanTrailDef DEF TypeOK
    <3>5. ASSUME NEW o \in Obj
          PROVE  /\ mos'[o] # disk[o] => \E j \in DOMAIN ops : ops[j].obj = o
                 /\ mos'[o].type # disk[o].type =>
                      /\ mos'[o].type = NoType
                      /\ \E j \in DOMAIN ops : ops[j].kind = "free" /\ ops[j].obj = o
      <4>1. /\ mos'[o] # mos[o] => o = ops[i].obj
            /\ mos'[o].type # mos[o].type =>
                 ops[i].kind = "free" /\ o = ops[i].obj /\ mos'[o].type = NoType
        BY <3>1, <3>2, ApplyFrame DEF TypeOK
      <4> QED
        BY <3>1, <3>2, <4>1 DEF SurgeonInv, Pass2Inv
    <3>6. ASSUME NEW j \in DOMAIN ops, j < i + 1
          PROVE  apply_err(PlanTrail(ops, disk)[j - 1], ops[j]) = "ok"
      BY <2>2, <3>1, <3>3, <3>6 DEF SurgeonInv, Pass2Inv, TypeOK
    <3>7. Pass2Inv'
      <4>1. PlanHolds(ops, disk)
        BY <3>1 DEF SurgeonInv, Pass2Inv
      <4>2. i + 1 <= Len(ops) + 1 /\ (i + 1) - 1 = i
        BY <3>1 DEF TypeOK
      <4> QED
        BY <3>1, <3>4, <3>5, <3>6, <4>1, <4>2 DEF Pass2Inv
    <3> QED
      BY <3>1, <3>7 DEF SurgeonInv, OneWriter, HeldWhere, BeforeImport,
         Outcome, ExitStatusHonest, Pass1Inv
  <2> QED
    BY <2>1, <2>2
<1>12. CASE TxgCommit
  BY <1>12 DEF TxgCommit, SurgeonInv, OneWriter, HeldWhere, BeforeImport, Outcome,
     ExitStatusHonest, Pass1Inv, Pass2Inv
<1>13. CASE \E o \in Obj : \E s \in Drift[o] : PoolTxg(o, s) \/ KernelWrite(o, s)
  <2> PICK o \in Obj : \E s \in Drift[o] : PoolTxg(o, s) \/ KernelWrite(o, s)
    BY <1>13
  <2> PICK s \in Drift[o] : PoolTxg(o, s) \/ KernelWrite(o, s)
    OBVIOUS
  <2>1. CASE PoolTxg(o, s)
    BY <2>1 DEF PoolTxg, InSyncTask, SurgeonInv, OneWriter, HeldWhere,
       BeforeImport, Outcome, ExitStatusHonest, Pass1Inv, Pass2Inv
  <2>2. CASE KernelWrite(o, s)
    BY <2>2 DEF KernelWrite, SurgeonInv, OneWriter, HeldWhere,
       BeforeImport, Outcome, ExitStatusHonest, Pass1Inv, Pass2Inv
  <2> QED
    BY <2>1, <2>2
<1>14. CASE ErrlogSync \/ KernelImport \/ KernelExport
  BY <1>14 DEF ErrlogSync, KernelImport, KernelExport, SurgeonInv, OneWriter,
     HeldWhere, BeforeImport, Outcome, ExitStatusHonest, Pass1Inv, Pass2Inv
<1>15. CASE UNCHANGED vars
  BY <1>15 DEF vars, SurgeonInv, OneWriter, HeldWhere, BeforeImport, Outcome,
     ExitStatusHonest, Pass1Inv, Pass2Inv
<1> QED
  BY <1>1, <1>2, <1>3, <1>4, <1>5, <1>6, <1>7, <1>8, <1>9, <1>10, <1>11, <1>12,
     <1>13, <1>14, <1>15
  DEF Next, Advance, Fail, Environment

\* At any moment of any run: one writer at a time, a fresh view of the pool, and
\* both passes of apply_sync() exactly as far as i says.
THEOREM InvariantHolds == Spec => []SurgeonInv
BY TypeCorrect, InvInit, InvNext, PTL DEF Spec

\* The status that main() returns says whether the plan is on disk.
THEOREM ExitStatusIsHonest == Spec => []ExitStatusHonest
<1>1. SurgeonInv => ExitStatusHonest
  BY DEF SurgeonInv, Outcome
<1> QED
  BY <1>1, InvariantHolds, PTL
(***************************************************************************)
(* The type guard of free                                                  *)
(***************************************************************************)
\* Only the end of the second pass of apply_sync() reaches the verification.
LEMMA CommitIsTxg == TypeOK /\ [Next]_vars /\ CommitStep => TxgCommit
BY DEF CommitStep, Next, Advance, Fail, Environment, vars, poolVars, spaVars, jobVars,
   Goto, Finish, Start, CannotStart, ParseLine, ParseDone, Confirm, Decline, Import,
   ImportFails, Open, OpenFails, ClearErrlog, Check, CheckDone, TaskFails,
   TaskStart, Pass1, Pass1Done, Pass2, Verify, VerifyDone, Close, Export,
   PoolTxg, ErrlogSync, KernelImport, KernelExport, KernelWrite, Crash

\* The txg of a plan frees only objects of the type their free line gives.
LEMMA FreeStep == TypeOK /\ SurgeonInv /\ [Next]_vars => (CommitStep => CommitFrees)
<1> SUFFICES ASSUME TypeOK, SurgeonInv, [Next]_vars, CommitStep,
                    NEW o \in Obj, disk'[o] # disk[o]
             PROVE  /\ \E j \in DOMAIN ops : ops[j].obj = o
                    /\ disk'[o].type # disk[o].type =>
                         \E j \in DOMAIN ops : /\ ops[j].kind = "free"
                                              /\ ops[j].obj = o
                                              /\ ops[j].type = disk[o].type
  BY DEF CommitFrees
<1>1. pc = "pass2" /\ disk' = mos
  BY CommitIsTxg DEF TxgCommit
<1>2. \E j \in DOMAIN ops : ops[j].obj = o
  BY <1>1 DEF SurgeonInv, Pass2Inv
<1>3. ASSUME disk'[o].type # disk[o].type
      PROVE  \E j \in DOMAIN ops : /\ ops[j].kind = "free" /\ ops[j].obj = o
                                  /\ ops[j].type = disk[o].type
  <2>1. mos[o].type = NoType
    BY <1>1, <1>3 DEF SurgeonInv, Pass2Inv
  <2>2. PICK j \in DOMAIN ops : ops[j].kind = "free" /\ ops[j].obj = o
    BY <1>1, <1>3 DEF SurgeonInv, Pass2Inv
  <2>3. check_op(disk, ops[j])
    BY <1>1 DEF SurgeonInv, Pass2Inv, PlanHolds, TypeOK
  <2>4. disk[o].type # NoType
    BY <1>1, <1>3, <2>1
  <2>5. dmu_object_info_err(disk, o) = "ok"
    BY <2>4 DEF dmu_object_info_err, Exists
  <2>6. type_name_matches(disk[o].type, ops[j].type)
    BY <2>2, <2>3, <2>5 DEF check_op, ReportedNoop
  <2> QED
    BY <2>2, <2>6 DEF type_name_matches
<1> QED
  BY <1>2, <1>3

\* The mandatory type check of check_op() works: whatever ids were recycled, a
\* commit frees nothing whose type is not the one in the plan.
THEOREM TypeGuardOfFree == Spec => FreesOnlyMatchingType
BY TypeCorrect, InvariantHolds, FreeStep, PTL DEF Spec, FreesOnlyMatchingType

(***************************************************************************)
(* The surgeon implements AtomicRepair                                     *)
(***************************************************************************)
\* The copies of check_op() and of the second pass that come with the instance
\* of AtomicRepair are the ones of RepairOps.
LEMMA SameOp ==
  ASSUME NEW m, NEW op
  PROVE  /\ AR!check_op(m, op) <=> check_op(m, op)
         /\ AR!apply_err(m, op) = apply_err(m, op)
         /\ AR!apply_op(m, op) = apply_op(m, op)
BY DEF EmptyZap, AR!EmptyZap, FreeSlot, AR!FreeSlot, Exists, AR!Exists,
       dmu_object_info_err, AR!dmu_object_info_err, dmu_read_err,
       AR!dmu_read_err, zap_hold_err, AR!zap_hold_err, zap_lookup_err,
       AR!zap_lookup_err, zap_update, AR!zap_update, zap_remove, AR!zap_remove,
       dmu_object_free, AR!dmu_object_free, type_name_matches,
       AR!type_name_matches, ReportedNoop, AR!ReportedNoop, ZapValueHolds,
       AR!ZapValueHolds, check_op, AR!check_op, apply_err, AR!apply_err,
       apply_op, AR!apply_op

\* So are the images a plan goes through,
LEMMA SameTrail ==
  ASSUME NEW p, NEW m
  PROVE  AR!PlanTrail(p, m) = PlanTrail(p, m)
BY SameOp DEF AR!PlanTrail, PlanTrail

\* and what it means that a plan holds and can be applied, and its result.
LEMMA SamePlan ==
  ASSUME NEW p, NEW m
  PROVE  /\ AR!PlanHolds(p, m) <=> PlanHolds(p, m)
         /\ AR!PlanApplies(p, m) <=> PlanApplies(p, m)
         /\ AR!PlanResult(p, m) = PlanResult(p, m)
BY SameOp, SameTrail
DEF AR!PlanHolds, PlanHolds, AR!PlanApplies, PlanApplies, AR!PlanResult, PlanResult
\* A pool nobody has touched is an initial pool of AtomicRepair.
LEMMA RefineInit == Init => AR!Init
BY DEF Init, AR!Init, Armed

\* A step that neither arms nor disarms the process and leaves the pool alone.
LEMMA Stutter ==
  ASSUME UNCHANGED <<disk, drift>>, Armed' <=> Armed, Armed => ops' = ops
  PROVE  UNCHANGED AR!avars
BY DEF AR!avars, Armed

\* A step that gives up before the txg.
LEMMA GiveUp ==
  ASSUME UNCHANGED <<disk, drift>>, Armed, ~Armed'
  PROVE  AR!Disarm
BY DEF AR!Disarm

\* Every step of the surgeon is a step of AtomicRepair or leaves it alone.
LEMMA RefineNext == TypeOK /\ SurgeonInv /\ [Next]_vars => [AR!Next]_AR!avars
<1> SUFFICES ASSUME TypeOK, SurgeonInv, [Next]_vars
             PROVE  AR!Next \/ UNCHANGED AR!avars
  OBVIOUS
<1> USE DEF poolVars, spaVars, jobVars
<1>1. CASE \/ \E f \in PlanFiles, c \in BOOLEAN : Start(f, c)
           \/ CannotStart \/ ParseLine \/ ParseDone \/ Decline \/ Verify
           \/ VerifyDone \/ Close \/ Export
  <2>1. UNCHANGED <<disk, drift>>
    BY <1>1 DEF Start, CannotStart, ParseLine, ParseDone, Decline, Verify,
       VerifyDone, Close, Export, Finish, Goto
  <2>2. ~Armed /\ ~Armed'
    BY <1>1 DEF Start, CannotStart, ParseLine, ParseDone, Decline, Verify,
       VerifyDone, Close, Export, Finish, Goto, Armed
  <2> QED
    BY <2>1, <2>2, Stutter
<1>2. CASE Confirm
  <2>1. ~Armed /\ Armed' /\ ops # <<>>
    BY <1>2 DEF Confirm, Goto, Armed, SurgeonInv, HeldWhere
  <2>2. UNCHANGED <<disk, drift, ops>> /\ ops \in Seq(Op)
    BY <1>2 DEF Confirm, Goto, TypeOK
  <2>3. AR!Op = Op
    BY DEF AR!Op, Op, AR!OpKind, OpKind, AR!ZapKind, ZapKind, AR!Word, Word
  <2>4. AR!Arm
    BY <2>1, <2>2, <2>3 DEF AR!Arm
  <2> QED
    BY <2>4 DEF AR!Next
<1>3. CASE \/ Import \/ ImportFails \/ Open \/ OpenFails \/ ClearErrlog \/ Check
           \/ CheckDone \/ TaskFails \/ TaskStart \/ Pass1 \/ Pass1Done \/ Pass2
           \/ Crash
  <2>1. UNCHANGED <<disk, drift, ops, commit>>
    BY <1>3 DEF Import, ImportFails, Open, OpenFails, ClearErrlog, Check,
       CheckDone, TaskFails, TaskStart, Pass1, Pass1Done, Pass2, Crash, Finish, Goto
  <2>2. Armed' => Armed
    BY <1>3 DEF Import, ImportFails, Open, OpenFails, ClearErrlog, Check,
       CheckDone, TaskFails, TaskStart, Pass1, Pass1Done, Pass2, Crash, Finish, Goto,
       Armed
  <2>3. CASE Armed /\ ~Armed'
    BY <2>1, <2>3, GiveUp DEF AR!Next
  <2>4. CASE Armed' <=> Armed
    BY <2>1, <2>4, Stutter
  <2> QED
    BY <2>2, <2>3, <2>4
<1>4. CASE TxgCommit
  <2>1. /\ pc = "pass2" /\ i > Len(ops) /\ disk' = mos /\ UNCHANGED drift
        /\ Armed /\ ~Armed'
    BY <1>4 DEF TxgCommit, Armed, SurgeonInv, HeldWhere
  <2>2. i - 1 = Len(ops)
    BY <2>1 DEF SurgeonInv, Pass2Inv, TypeOK
  <2>3. PlanHolds(ops, disk) /\ mos = PlanResult(ops, disk)
    BY <2>1, <2>2 DEF SurgeonInv, Pass2Inv, PlanResult
  <2>4. PlanApplies(ops, disk)
    BY <2>1 DEF SurgeonInv, Pass2Inv, PlanApplies, TypeOK
  <2>5. AR!Repair
    BY <2>1, <2>3, <2>4, SamePlan DEF AR!Repair
  <2> QED
    BY <2>5 DEF AR!Next
<1>5. CASE \E o \in Obj : \E s \in Drift[o] : PoolTxg(o, s) \/ KernelWrite(o, s)
  <2>1. /\ \E o \in Obj : \E s \in Drift[o] : disk' = [disk EXCEPT ![o] = s]
        /\ drift' = drift + 1 /\ UNCHANGED <<pc, commit, ops>>
    BY <1>5 DEF PoolTxg, KernelWrite
  <2>2. AR!Outside
    BY <2>1 DEF AR!Outside, Armed
  <2> QED
    BY <2>2 DEF AR!Next
<1>6. CASE ErrlogSync \/ KernelImport \/ KernelExport \/ UNCHANGED vars
  BY <1>6, Stutter DEF ErrlogSync, KernelImport, KernelExport, vars, Armed
<1> QED
  BY <1>1, <1>2, <1>3, <1>4, <1>5, <1>6 DEF Next, Advance, Fail, Environment

\* The contract of zhaxx.c, all or nothing: the surgeon changes the pool only by
\* a whole confirmed plan, in one txg, on an image where every precondition holds.
THEOREM SurgeonIsAllOrNothing == Spec => AllOrNothing
BY TypeCorrect, InvariantHolds, RefineInit, RefineNext, PTL
DEF Spec, AllOrNothing, AR!Spec
(***************************************************************************)
(* Running a plan again                                                    *)
(***************************************************************************)
\* The pool is as the plan in memory leaves a pool.
AlreadyApplied == \E m \in Image : disk = PlanResult(ops, m)

CommitSettles ==
  CommitStep => /\ disk' = PlanResult(ops, disk)
                /\ PlanResult(ops, disk') = disk'
                /\ AlreadyApplied => UNCHANGED disk

\* The txg of a plan leaves the pool settled for that plan.
LEMMA SettleStep == TypeOK /\ SurgeonInv /\ [Next]_vars => CommitSettles
<1> SUFFICES ASSUME TypeOK, SurgeonInv, [Next]_vars, CommitStep
             PROVE  /\ disk' = PlanResult(ops, disk)
                    /\ PlanResult(ops, disk') = disk'
                    /\ AlreadyApplied => UNCHANGED disk
  BY DEF CommitSettles
<1>1. pc = "pass2" /\ i > Len(ops) /\ disk' = mos
  BY CommitIsTxg DEF TxgCommit
<1>2. i - 1 = Len(ops)
  BY <1>1 DEF SurgeonInv, Pass2Inv, TypeOK
<1>3. disk' = PlanResult(ops, disk)
  BY <1>1, <1>2 DEF SurgeonInv, Pass2Inv, PlanResult
<1>4. ops \in Seq(Op) /\ disk \in Image
  BY DEF TypeOK
<1>5. PlanResult(ops, disk') = disk'
  BY <1>3, <1>4, PlanIdempotent
<1>6. ASSUME NEW m \in Image, disk = PlanResult(ops, m)
      PROVE  disk' = disk
  BY <1>3, <1>4, <1>6, PlanIdempotent
<1> QED
  BY <1>3, <1>5, <1>6 DEF AlreadyApplied

\* A retry is harmless: an operator who cannot tell whether a run of zhaxx got as
\* far as its txg may run the same plan again.  A commit does exactly what its
\* plan says, and the commit of a plan whose result is already on disk changes
\* nothing, whatever became of the run before it.
THEOREM RetryIsHarmless == Spec => [][CommitSettles]_vars
BY TypeCorrect, InvariantHolds, SettleStep, PTL DEF Spec
==============================================================================
