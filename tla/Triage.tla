------------------------------- MODULE Triage --------------------------------
(***************************************************************************)
(* The two tools under their one contract: the scanner writes a plan, the  *)
(* surgeon applies it, and the pool is scanned again.  The surgeon appears *)
(* here as AtomicRepair allows, which module Surgeon is proved to          *)
(* implement: a plan it reads is applied whole or not at all.              *)
(***************************************************************************)
EXTENDS Scanner, RepairOps

CONSTANTS RefType,     \* types whose ZAP values are object ids
          SubtreeType  \* types of the objects that make up a dataset

\* The fields that the walk follows.
DirField == {"head_dataset_obj", "child_dir_zapobj", "clones"}
LinkField == {"next_clones_obj", "prev_snap_obj", "deadlist_obj", "snapnames_zapobj"}

ASSUME TriageAssumption ==
  RefType \cup SubtreeType \subseteq Type /\ DirField \cup LinkField \subseteq Field

VARIABLE repaired  \* the surgeon has applied a plan

tvars == <<vars, repaired>>

Plan == [j \in DOMAIN ops |-> ParseOp(ops[j])]

\* parse_plan() takes every line.
Parses == Len(ops) <= MaxOps /\ \A j \in DOMAIN ops : ~BadLine(ops[j])

Accepted == Parses /\ PlanHolds(Plan, pool) /\ PlanApplies(Plan, pool)

Commit ==
  /\ mode = "done" /\ ops # <<>> /\ Accepted
  /\ pool' = PlanResult(Plan, pool)
  /\ mode' = "idle" /\ repaired' = TRUE
  /\ UNCHANGED <<cache, walkVars, exit, scans, faults, drift>>

\* The plan is refused, or the operator does not apply it.
Leave ==
  /\ mode = "done" /\ mode' = "idle"
  /\ UNCHANGED <<pool, cache, walkVars, exit, scans, faults, drift, repaired>>

TInit == Init /\ repaired = FALSE

\* A step of the scanner, or of the pool around it.
Alone(A) == A /\ UNCHANGED repaired

TNext ==
  \/ Commit \/ Leave
  \/ Alone(ScanStart) \/ Alone(Fetch) \/ Alone(Step) \/ Alone(Report)
  \/ Alone(ZdbNotFound) \/ Alone(Outside)

TSpec == TInit /\ [][TNext]_tvars

\* zhaxx-scan is one running process.
FairTSpec == TSpec /\ WF_tvars((Fetch \/ Step \/ Report) /\ UNCHANGED repaired)

(***************************************************************************)
(* The structure of the MOS that the two tools are there to keep           *)
(***************************************************************************)
ZapRefs(img, o) ==
  {<<o, k>> : k \in {n \in Key : /\ Len(img[o].zap[n]) = 1
                                 /\ img[o].type \in RefType
                                 /\ img[o].zap[n][1] # 0
                                 /\ ~Exists(img, img[o].zap[n][1])}}

BonusRefs(img, o) ==
  {<<o, <<f>> >> : f \in {g \in Field \ {"num_children"} :
     img[o].bonus[g] # 0 /\ ~Exists(img, img[o].bonus[g])}}

\* The references of readable objects to objects that do not exist.
DanglingRefs(img) ==
  UNION {ZapRefs(img, o) \cup BonusRefs(img, o) :
         o \in {p \in Obj : Readable(img, p)}}

ChildDirs(img, dir) ==
  LET map == img[dir].bonus["child_dir_zapobj"]
  IN  IF ~Readable(img, map) THEN {}
      ELSE {o \in Obj : Exists(img, o) /\ \E k \in Key : img[map].zap[k] = <<o>>}

\* The directories that can be reached from the root over child maps.
ReachableDirs(img) ==
  LET root == {o \in Obj : img[MosDir].zap[<<"root_dataset">>] = <<o>>}
      reach[n \in 0 .. 4] ==
        IF n = 0 THEN root
        ELSE reach[n - 1] \cup UNION {ChildDirs(img, d) : d \in reach[n - 1]}
  IN  reach[4]

HealthyDirs(img) ==
  {d \in ReachableDirs(img) : /\ Readable(img, d) /\ img[d].type = "DSL directory"
                              /\ Readable(img, img[d].bonus["head_dataset_obj"])}

\* The surplus of ds_num_children over the clones a snapshot lists.
Surplus(img, snap) ==
  LET zap == img[snap].bonus["next_clones_obj"]
  IN  img[snap].bonus["num_children"]
      - Cardinality({k \in Key : Readable(img, zap) /\ img[zap].zap[k] # <<>>})

(***************************************************************************)
(* The pools for which the plan of a scan is sure to be taken.  What a     *)
(* check reads under a name is what a dump shows under it, whether it is a *)
(* ZAP entry or a bonus field.                                             *)
(***************************************************************************)
MapField == {"child_dir_zapobj", "clones", "next_clones_obj"}
SubtreeField == {"props_zapobj", "child_dir_zapobj", "snapnames_zapobj", "deadlist_obj"}

\* The objects that some dump shows under one of the names.
Shown(img, fields) ==
  Obj \cap UNION {{d.ints[<<f>>] : f \in fields} :
                  d \in UNION {Dumps(img, o) : o \in Obj}}

\* The MOS directory and what the map fields name are ZAPs without a bonus, and
\* the names in such a map are single words.
MapsAreZaps(img) ==
  /\ \A o \in {MosDir} \cup Shown(img, MapField) : Exists(img, o) =>
       img[o].type \in ZapType /\ BonusFields[img[o].type] = {}
  /\ \A o \in Shown(img, MapField) : \A k \in Key :
       img[o].zap[k] # <<>> => Len(k) = 1
  /\ Len(img[MosDir].zap[<<"scan">>]) <= ScanWords
  /\ \A o \in Obj : img[o].zap[<<"num_children">>] = <<>>

\* What a plan may write to: the MOS directory and what counts its children.
Written(img) ==
  {o \in Obj : Exists(img, o) /\ (o = MosDir \/ "num_children" \in BonusFields[img[o].type])}

\* What a plan may free can be read, has a name for its type, and is nothing
\* that a plan may write to.
FreeableIsFree(img) ==
  /\ \A o \in Obj : Exists(img, o) =>
       img[o].type \in NamedType /\ (img[o].type \in ErrlogLike => img[o].io)
  /\ \A o \in Written(img) : img[o].type \notin ErrlogLike \cup DirLike
  /\ Written(img) \cap Shown(img, SubtreeField) = {}

Shaped(img) == MapsAreZaps(img) /\ FreeableIsFree(img)

\* The fields that name the parts of a dataset name parts of a dataset: no id
\* in them was recycled.
RefsTyped(img) ==
  \A o \in Shown(img, SubtreeField) : Exists(img, o) => img[o].type \in SubtreeType

(***************************************************************************)
(* What refers to an orphan, a directory whose head dataset is dead        *)
(***************************************************************************)
\* The objects that the dumps of one object show under one of the names.
ShownOf(img, o, fields) == Obj \cap UNION {{d.ints[<<f>>] : f \in fields} : d \in Dumps(img, o)}

Heads(img, dir) == ShownOf(img, dir, {"head_dataset_obj"})

Orphans(img) ==
  {d \in Obj : /\ Readable(img, d) /\ img[d].type \in DirLike
               /\ \E h \in Heads(img, d) : Exists(img, h) /\ ~img[h].io}

\* What plan_orphan_removal() frees of an orphan: the dead head is not freed.
Parts(img, dir) ==
  {dir} \cup ShownOf(img, dir, {"props_zapobj", "child_dir_zapobj"})
  \cup UNION {ShownOf(img, h, {"snapnames_zapobj", "deadlist_obj"}) :
              h \in Heads(img, dir)}

\* The child maps of the directory above.
MapsOver(img, dir) ==
  UNION {ShownOf(img, p, {"child_dir_zapobj"}) :
         p \in {q \in ShownOf(img, dir, {"parent_dir_obj"}) : Readable(img, q)}}

ZapNames(img, o, v) == img[o].type \in RefType /\ \E k \in Key : img[o].zap[k] = <<v>>
BonusNames(img, o, v) == \E f \in Field \ {"num_children"} : img[o].bonus[f] = v

\* No readable object refers to an error log or, besides the orphan itself, to a
\* part of an orphan, except that the child map above it names its directory.
Contained(img) ==
  \A o, v \in Obj :
    Readable(img, o) /\ (ZapNames(img, o, v) \/ BonusNames(img, o, v)) =>
      /\ img[v].type \notin ErrlogLike
      /\ \A dir \in Orphans(img) : v \in Parts(img, dir) =>
           \/ o = dir
           \/ v = dir /\ o \in MapsOver(img, dir) /\ ~BonusNames(img, o, v)

(***************************************************************************)
(* What a scan follows: from the root over the entries of child maps, into *)
(* each directory, its head dataset and their lists of clones              *)
(***************************************************************************)
RootDir(img) == {o \in Obj : img[MosDir].zap[<<"root_dataset">>] = <<o>>}

\* The directories that check_childmap() enters from a directory.
EnteredFrom(img, dir) ==
  LET map == img[dir].bonus["child_dir_zapobj"]
  IN  IF ~Readable(img, map) THEN {}
      ELSE {o \in Obj : \E k \in Key \ SpecialName : img[map].zap[k] = <<o>>}

Entered(img) == RootDir(img) \cup UNION {EnteredFrom(img, d) : d \in Obj}

\* The least set with the root that is closed under entering.
WalkedDirs(img) ==
  {o \in Entered(img) : \A D \in SUBSET Entered(img) :
     RootDir(img) \subseteq D /\ (\A d \in D : EnteredFrom(img, d) \subseteq D) => o \in D}

FollowedOf(img, dir) ==
  LET b == img[dir].bonus
      head == b["head_dataset_obj"]
  IN  ({dir} \X {<<f>> : f \in DirField})
      \cup ({b["child_dir_zapobj"]} \X (Key \ SpecialName))
      \cup ({b["clones"]} \X Key)
      \cup (IF ~Readable(img, head) THEN {}
            ELSE ({head} \X {<<f>> : f \in LinkField})
                 \cup ({img[head].bonus["next_clones_obj"]} \X Key))

FollowedRefs(img) == UNION {FollowedOf(img, d) : d \in WalkedDirs(img)}

\* A directory can be read, and so can its head, which is a dataset.
SoundDir(img, dir) ==
  LET head == img[dir].bonus["head_dataset_obj"]
  IN  /\ Readable(img, dir) /\ img[dir].type \in DirLike
      /\ head # 0 => Readable(img, head) /\ img[head].type \in DatasetLike

\* An object is a ZAP or has a bonus that zdb prints, never both.
ZapOrBonus(img) ==
  \A o \in Obj : Exists(img, o) =>
    /\ BonusFields[img[o].type] = {} \/ \A k \in Key : img[o].zap[k] = <<>>
    /\ \A f \in Field : img[o].bonus[f] # 0 => f \in BonusFields[img[o].type]

\* Whatever dangles in the pool is something that a scan follows.
FollowsAll(img) == DanglingRefs(img) \subseteq FollowedRefs(img)

(***************************************************************************)
(* Properties                                                              *)
(***************************************************************************)
\* One contract between the tools: as long as the pool has not changed since
\* the scan, parse_plan() takes every line that the scanner wrote, every
\* check_op() of the surgeon holds, and no VERIFY0() of apply_sync() fires,
\* also when dumps were lost on the way.
PlanAccepted == mode = "done" /\ drift = 0 => Accepted

\* Freeing is safe: a repair leaves no reference of a readable object dangling
\* that was not dangling before, because plan_orphan_removal() and
\* check_errlog() drop the entries that name what they free.
NoNewDangling ==
  [][Commit => DanglingRefs(pool') \subseteq DanglingRefs(pool)]_tvars

\* A repair takes no healthy dataset out of the namespace: the entries that
\* check_childmap() and plan_orphan_removal() drop name what is dead or gone.
HealthyKept == [][Commit => HealthyDirs(pool) \subseteq HealthyDirs(pool')]_tvars

\* A repair keeps ds_num_children in step with the clones a snapshot lists:
\* each zap_remove on a next_clones ZAP comes with its bonus_set.
CountsAgree ==
  [][Commit => \A o \in Obj : Readable(pool, o) /\ pool[o].type = "DSL dataset"
                 /\ Readable(pool', o) => Surplus(pool', o) = Surplus(pool, o)]_tvars

\* Scanning the pool again after a repair finds nothing critical: one plan is
\* enough, and repairing one fault uncovers or makes no other.
RescanClean ==
  mode = "done" /\ repaired => \A f \in findings : f.severity # "CRITICAL"

\* A clean report is true: when the scanner prints that the MOS namespace is
\* referentially consistent, no reference of a readable object dangles.
CleanIsConsistent ==
  mode = "done" /\ exit = "0" /\ drift = 0 /\ faults = 0 => DanglingRefs(pool) = {}

\* A clean report is true of all that the walk follows, also when dumps were
\* lost: every directory below the root is sound and what it refers to exists.
CleanWalk ==
  mode = "done" /\ exit = "0" /\ drift = 0 =>
    /\ \A d \in WalkedDirs(pool) : SoundDir(pool, d)
    /\ FollowedRefs(pool) \cap DanglingRefs(pool) = {}

\* Ids are recycled: the scanner writes no free for an object that is neither
\* an error log nor a part of a dataset, whatever refers to it.
NeverFreesWrongType ==
  mode = "done" => \A j \in DOMAIN ops :
    ops[j].kind = "free" => ops[j].type \in ErrlogLike \cup SubtreeType

\* The printer and the parser agree: parse_plan() refuses no line that the
\* scanner writes, whatever pool it reads, whatever dumps it loses and however
\* the pool changes under it.  One such line would refuse the whole plan.
LinesParse == \A j \in DOMAIN ops : ~BadLine(ops[j])

\* What a commit does to types: those that change were freed, and as dumped.
FreedAsDumped ==
  \A o \in Obj : Commit /\ pool'[o].type # pool[o].type =>
    pool'[o].type = NoType /\ cache[o].exists /\ cache[o].type = pool[o].type

\* An id recycled to another type between the dump and the commit is safe: the
\* surgeon frees an object only under the type that the scanner saw in its dump
\* of that object, and changes no type otherwise.
FreesWhatWasSeen == [][FreedAsDumped]_tvars

Armed == mode = "done" /\ ops # <<>> /\ Parses
AR == INSTANCE AtomicRepair
        WITH armed <- Armed, plan <- IF Armed THEN Plan ELSE <<>>

\* The workflow keeps to the contract that the surgeon implements: what the
\* scanner reports is a plan for it, and besides the changes by others the pool
\* changes only by such a plan as a whole.
RepairsByContract == AR!Spec

\* The walk of walk_dsl_dir() ends, also when the child maps form a cycle and
\* the pool changes under the scan.
ScanEnds == (mode = "scan") ~> (mode # "scan")
==============================================================================
