------------------------------- MODULE Scanner -------------------------------
(***************************************************************************)
(* scan/zhaxx-scan: a walk of the MOS through dumps of single objects, and *)
(* the findings and the plan it makes of them.                             *)
(*                                                                         *)
(* Every dump is taken by a zdb of its own and kept in a cache, so on a    *)
(* pool in use two dumps may come from different txgs, and a zdb may time  *)
(* out or a dump file be missing.  The calls still to be made are kept on  *)
(* an agenda; the one at its head first fetches the dumps it reads, one    *)
(* per step and in the order of the code, and then runs.                   *)
(***************************************************************************)
EXTENDS PlanFile, SequencesExt

CONSTANTS InitImages,    \* images of the pool at the start
          Drift,         \* the states others may leave in each object slot
          MosDir,        \* MOS_DIR_OBJ
          ScanWords,     \* SCAN_WORDS, 24 in the code
          BonusFields,   \* the bonus fields zdb prints for each type
          NameOrder,     \* the keys, in the order sorted() puts them
          SpecialName,   \* "$MOS", "$FREE", "$LEAKED"
          DirLike,       \* types with "DSL directory" somewhere in their name
          DatasetLike,   \* types with "DSL dataset" in their name
          ErrlogLike,    \* types with "error log" in their name
          MaxScans,      \* bound: scans
          MaxFaults,     \* bound: dumps that are lost
          MaxDrift       \* bound: changes of the pool by others

\* The entries and bonus fields that the checks read by name.
ReadName ==
  {"errlog_last", "errlog_scrub", "scan", "root_dataset", "head_dataset_obj",
   "child_dir_zapobj", "clones", "next_clones_obj", "num_children", "dir_obj",
   "prev_snap_obj", "deadlist_obj", "snapnames_zapobj", "parent_dir_obj",
   "origin_obj", "props_zapobj"}

ASSUME ScannerAssumption ==
  /\ InitImages \subseteq Image /\ Drift \in [Obj -> SUBSET ObjState]
  /\ MosDir \in Obj /\ ScanWords \in 1 .. ScanMaxWords /\ ScanWords < WordMod
  /\ BonusFields \in [Type -> SUBSET Field]
  /\ {<<n>> : n \in Field \cup ReadName} \subseteq Key
  /\ NameOrder \in Seq(Key) /\ ToSet(NameOrder) = Key /\ IsInjective(NameOrder)
  /\ Len(NameOrder) < WordMod
  /\ SpecialName \subseteq Key
  /\ DirLike \cup DatasetLike \cup ErrlogLike \subseteq Type
  /\ {MaxScans, MaxFaults, MaxDrift} \subseteq Nat

VARIABLES pool,      \* the MOS
          cache,     \* self.src.cache
          agenda,    \* the calls still to be made
          visited,   \* self.visited_dirs
          ops,       \* self.ops
          findings,  \* self.findings
          mode,      \* "idle", "scan" or "done"
          exit, scans, faults, drift

walkVars == <<agenda, visited, ops, findings>>
vars == <<pool, cache, walkVars, mode, exit, scans, faults, drift>>

(***************************************************************************)
(* Dumps.  parse_obj_dump() puts ZAP entries and bonus fields of a single  *)
(* integer into one dictionary, and entries of several integers apart.     *)
(***************************************************************************)
NoInts == [n \in Key |-> Missing]
NoDump == [fetched |-> TRUE, exists |-> FALSE, unreadable |-> FALSE,
           type |-> NoType, ints |-> NoInts, scan |-> <<>>]
Unfetched == [NoDump EXCEPT !.fetched = FALSE]

BonusInts(s) ==
  [n \in Key |-> IF \E f \in BonusFields[s.type] : n = <<f>>
                 THEN s.bonus[n[1]] ELSE Missing]

ZapInts(s) ==
  [n \in Key |-> IF Len(s.zap[n]) = 1 THEN s.zap[n][1] ELSE BonusInts(s)[n]]

\* The dumps zdb may print of an object.  When the object cannot be read, its
\* bonus may be printed before the error, or not.
Dumps(mos, obj) ==
  IF ~Exists(mos, obj) THEN {NoDump}
  ELSE LET s == mos[obj]
           dump(bad, ints, scan) ==
             [fetched |-> TRUE, exists |-> TRUE, unreadable |-> bad,
              type |-> s.type, ints |-> ints, scan |-> scan]
       IN  IF s.io
           THEN LET scan == s.zap[<<"scan">>]
                IN  {dump(FALSE, ZapInts(s), IF Len(scan) > 1 THEN scan ELSE <<>>)}
           ELSE {dump(TRUE, NoInts, <<>>), dump(TRUE, BonusInts(s), <<>>)}

\* zdb prints nothing of an id that no object has had.
EmptyCache == [o \in Word |-> IF o \in Obj THEN Unfetched ELSE NoDump]

get(obj) == cache[obj]

readable(obj) == get(obj).exists /\ ~get(obj).unreadable

\* d.fields.get(name, 0), d.zap.get(name, 0)
ref(obj, name) ==
  LET v == get(obj).ints[<<name>>] IN IF v = Missing THEN 0 ELSE v

\* The elements of a sequence that are in a set, in their order.
Filter(s, set) ==
  LET only[j \in 0 .. Len(s)] ==
        IF j = 0 THEN <<>>
        ELSE IF s[j] \in set THEN Append(only[j - 1], s[j]) ELSE only[j - 1]
  IN  only[Len(s)]

\* The same with its arguments bound to values, which TLC evaluates once.
Only(s, set) == [p \in {<<s, set>>} |-> Filter(p[1], p[2])][<<s, set>>]

\* The names of d.zap.items() that satisfy a test on name and value.
names(obj, Test(_, _)) ==
  Only(NameOrder, {n \in Key : /\ get(obj).ints[n] # Missing
                               /\ Test(n, get(obj).ints[n])})
Every(n, v) == TRUE
values(obj, keys) == [j \in DOMAIN keys |-> get(obj).ints[keys[j]]]

(***************************************************************************)
(* Findings and the lines of the plan                                      *)
(***************************************************************************)
found(severity, obj) == {[severity |-> severity, obj |-> obj]}

PlanLine(kind, obj) ==
  [kind |-> kind, obj |-> obj, key |-> Missing, quoted |-> FALSE,
   expect |-> Missing, value |-> Missing, count |-> Missing,
   field |-> "ds_num_children", type |-> Missing]
ZapSet0(key, e) ==
  [PlanLine("zap_set", MosDir) EXCEPT !.key = <<key>>, !.expect = e, !.value = 0]
ZapZeroScan ==
  [PlanLine("zap_zero", MosDir) EXCEPT !.key = <<"scan">>, !.count = ScanWords]
ZapRemove(obj, key) ==
  [PlanLine("zap_remove", obj) EXCEPT !.key = key, !.expect = get(obj).ints[key]]

\* Mutant: the field is written under the name that zdb prints.
NumChildren_ZdbName(obj, e, v) ==
  [PlanLine("bonus_set", obj) EXCEPT !.expect = e, !.value = v, !.field = "other"]

NumChildren(obj, e, v) ==
  [PlanLine("bonus_set", obj) EXCEPT !.expect = e, !.value = v]
FreeObj(obj) == [PlanLine("free", obj) EXCEPT !.type = get(obj).type]

Each(F(_), s) == [j \in DOMAIN s |-> F(s[j])]
When(test, s) == IF test THEN s ELSE <<>>
Nonzero(s) == Only(s, Word \ {0})

(***************************************************************************)
(* A call on the agenda, and what running it yields                        *)
(***************************************************************************)
Call(do, obj, dir, key) == [do |-> do, obj |-> obj, dir |-> dir, key |-> key]

Result(lines, finds, calls) ==
  [ops |-> lines, findings |-> finds, calls |-> calls]
Quiet == Result(<<>>, {}, <<>>)

(***************************************************************************)
(* The checks.  For each one, the dumps it reads, as far as they can be    *)
(* told from the dumps already fetched, and its result once all are there. *)
(***************************************************************************)
ErrlogKeys(head) == names(head, LAMBDA n, v : ObjsetOf[n] # 0)
StaleKeys(head) ==
  names(head, LAMBDA n, v : ObjsetOf[n] # 0 /\ ~readable(ObjsetOf[n]))
PerObjset(head) == values(head, StaleKeys(head))

\* Mutant: any object that an error log refers to is taken for a log.
IsErrlog_Any(o) == get(o).exists

IsErrlog(o) == get(o).exists /\ get(o).type \in ErrlogLike

errlog_reads(name) ==
  LET head == ref(MosDir, name)
  IN  <<head>> \o When(IsErrlog(head),
                       Each(LAMBDA n : ObjsetOf[n], ErrlogKeys(head))
                       \o PerObjset(head))

check_errlog(name) ==
  LET head == ref(MosDir, name)
      clear == <<ZapSet0(name, head)>>
      per == PerObjset(head)
  IN  IF head = 0 THEN Quiet
      ELSE IF ~get(head).exists THEN Result(clear, found("CRITICAL", MosDir), <<>>)
      ELSE IF ~IsErrlog(head) THEN Result(clear, found("CRITICAL", head), <<>>)
      ELSE IF per = <<>> THEN Result(<<>>, found("INFO", head), <<>>)
      ELSE Result(clear \o Each(FreeObj, <<head>> \o Only(per, {o \in Obj : IsErrlog(o)})),
                  found("CRITICAL", head)
                  \cup UNION {found("WARNING", o) : o \in {p \in ToSet(per) :
                                         get(p).exists /\ ~IsErrlog(p)}},
                  <<>>)

ScanQueue == LET scan == get(MosDir).scan IN IF Len(scan) > 2 THEN scan[3] ELSE 0

\* DSS_SCANNING is 1.  An entry of a single integer has state 0.
Scanning == Len(get(MosDir).scan) > 1 /\ get(MosDir).scan[2] = 1

check_scan ==
  IF ~Scanning THEN Quiet
  ELSE IF ScanQueue # 0 /\ ~readable(ScanQueue)
  THEN Result(<<ZapZeroScan>>, found("CRITICAL", MosDir), <<>>)
  ELSE Result(<<>>, found("INFO", MosDir), <<>>)

\* Mutant: a directory that was walked before is walked again.
walk_dsl_dir_Revisits(dir) ==
  LET head == ref(dir, "head_dataset_obj")
      childmap == ref(dir, "child_dir_zapobj")
  IN  IF ~readable(dir) \/ get(dir).type \notin DirLike
      THEN Result(<<>>, found("CRITICAL", dir), <<>>)
      ELSE Result(<<>>, {},
             When(head # 0, <<Call("dataset", head, dir, Missing)>>)
             \o When(childmap # 0, <<Call("childmap", childmap, dir, Missing)>>))

walk_dsl_dir(dir) ==
  LET head == ref(dir, "head_dataset_obj")
      childmap == ref(dir, "child_dir_zapobj")
      clones == ref(dir, "clones")
  IN  IF dir \in visited THEN Quiet
      ELSE IF ~readable(dir) \/ get(dir).type \notin DirLike
      THEN Result(<<>>, found("CRITICAL", dir), <<>>)
      ELSE Result(<<>>, {},
             When(head # 0, <<Call("dataset", head, dir, Missing)>>)
             \o When(childmap # 0, <<Call("childmap", childmap, dir, Missing)>>)
             \o When(clones # 0, <<Call("clones", clones, dir, Missing)>>))

check_childmap(zap) ==
  LET children == names(zap, LAMBDA n, v : n \notin SpecialName)
  IN  IF ~readable(zap) THEN Result(<<>>, found("CRITICAL", zap), <<>>)
      ELSE Result(<<>>, {}, Each(LAMBDA n : Call("child", zap, 0, n), children))

\* Mutant: an entry whose directory is gone is passed over.
check_child_SkipsGone(zap, name) ==
  LET child == get(zap).ints[name]
  IN  IF ~get(child).exists THEN Quiet
      ELSE IF get(child).type \in DirLike
      THEN Result(<<>>, {}, <<Call("dir", child, 0, Missing)>>)
      ELSE Result(<<ZapRemove(zap, name)>>, found("CRITICAL", zap), <<>>)

\* Mutant: an entry whose id was recycled is reported and left in place.
check_child_KeepsRecycled(zap, name) ==
  LET child == get(zap).ints[name]
  IN  IF get(child).exists /\ get(child).type \in DirLike
      THEN Result(<<>>, {}, <<Call("dir", child, 0, Missing)>>)
      ELSE Result(When(~get(child).exists, <<ZapRemove(zap, name)>>),
                  found("CRITICAL", zap), <<>>)

\* One turn of the loop of check_childmap.
check_child(zap, name) ==
  LET child == get(zap).ints[name]
  IN  IF get(child).exists /\ get(child).type \in DirLike
      THEN Result(<<>>, {}, <<Call("dir", child, 0, Missing)>>)
      ELSE Result(<<ZapRemove(zap, name)>>, found("CRITICAL", zap), <<>>)

clones_reads(zap) == <<zap>> \o When(readable(zap), values(zap, names(zap, Every)))

DanglingClones(zap) ==
  IF ~readable(zap) THEN <<>>
  ELSE names(zap, LAMBDA n, v : ~(readable(v) /\ get(v).type \in DatasetLike))

check_clones_zap(zap) ==
  LET dangling == DanglingClones(zap)
  IN  Result(Each(LAMBDA n : ZapRemove(zap, n), dangling),
             IF readable(zap) /\ dangling = <<>>
             THEN {} ELSE found("CRITICAL", zap),
             <<>>)

LinkFields == <<"prev_snap_obj", "deadlist_obj", "snapnames_zapobj">>

dataset_reads(ds) ==
  LET nco == ref(ds, "next_clones_obj")
  IN  <<ds>> \o When(readable(ds) /\ get(ds).type \in DatasetLike,
                     When(nco # 0, clones_reads(nco))
                     \o Nonzero(Each(LAMBDA f : ref(ds, f), LinkFields)))

check_dataset(ds, dir) ==
  LET nco == ref(ds, "next_clones_obj")
      clones == IF nco = 0 THEN Quiet ELSE check_clones_zap(nco)
      n_dangling == Len(clones.ops)
      nc == get(ds).ints[<<"num_children">>]
      dangles(f) == ref(ds, f) # 0 /\ ~get(ref(ds, f)).exists
  IN  IF ~get(ds).exists THEN Result(<<>>, found("CRITICAL", ds), <<>>)
      ELSE IF get(ds).unreadable
      THEN Result(<<>>, found("CRITICAL", ds),
                  <<Call("orphan", ds, dir, Missing)>>)
      ELSE IF get(ds).type \notin DatasetLike
      THEN Result(<<>>, found("WARNING", ds), <<>>)
      ELSE Result(clones.ops \o When(n_dangling # 0 /\ nc # Missing,
                                     <<NumChildren(ds, nc, nc - n_dangling)>>),
                  clones.findings
                  \cup (IF dangles("prev_snap_obj")
                        THEN found("CRITICAL", ds) ELSE {})
                  \cup (IF dangles("deadlist_obj") \/ dangles("snapnames_zapobj")
                        THEN found("WARNING", ds) ELSE {}),
                  <<>>)

(***************************************************************************)
(* plan_orphan_removal()                                                   *)
(***************************************************************************)
\* Mutant: the child map of the orphan is taken for that of its parent.
ParentMap_Own(dir) == ref(dir, "child_dir_zapobj")

\* The ZAPs that may name the orphan.
ParentMap(dir) ==
  LET parent == ref(dir, "parent_dir_obj")
  IN  IF parent # 0 /\ readable(parent) THEN ref(parent, "child_dir_zapobj") ELSE 0
Origin(dir) ==
  LET origin == ref(dir, "origin_obj") IN IF readable(origin) THEN origin ELSE 0
OriginClones(dir) == ref(Origin(dir), "next_clones_obj")
OriginDirClones(dir) ==
  LET odir == ref(Origin(dir), "dir_obj")
  IN  IF readable(odir) THEN ref(odir, "clones") ELSE 0

Subtree(ds, dir) ==
  Nonzero(<<dir, ref(dir, "props_zapobj"), ref(dir, "child_dir_zapobj"), ds,
            ref(ds, "snapnames_zapobj"), ref(ds, "deadlist_obj")>>)

orphan_reads(ds, dir) ==
  <<dir>> \o When(readable(dir),
    <<ref(dir, "parent_dir_obj"), ParentMap(dir), ref(dir, "origin_obj"),
      OriginClones(dir), ref(Origin(dir), "dir_obj"), OriginDirClones(dir)>>
    \o Subtree(ds, dir))

\* Mutant: every entry of the ZAP is taken for one that names the target.
NamesOf_All(zap, target) == names(zap, Every)

\* The entries of a ZAP that name the target.
NamesOf(zap, target) == names(zap, LAMBDA n, v : v = target)

DropFrom(zap, target) == Each(LAMBDA n : ZapRemove(zap, n), NamesOf(zap, target))

\* Mutant: the child count of the snapshot is forgotten.
Unclone_KeepsCount(dir, n) == <<ZapRemove(OriginClones(dir), n)>>

\* One clone less in the next_clones ZAP of the origin.
Unclone(dir, n) ==
  LET nc == get(Origin(dir)).ints[<<"num_children">>]
  IN  <<ZapRemove(OriginClones(dir), n)>>
      \o When(nc # Missing, <<NumChildren(Origin(dir), nc, nc - 1)>>)

\* Mutant: an object that cannot be read is freed like the others.
Removable_Unreadable(obj) == get(obj).exists

\* Freeing reads the object: what cannot be read is left allocated.
Removable(obj) == get(obj).exists /\ ~get(obj).unreadable

plan_orphan_removal(ds, dir) ==
  LET subtree == Subtree(ds, dir)
  IN  IF ~readable(dir) THEN Quiet
      ELSE Result(
        DropFrom(ParentMap(dir), dir)
        \o FlattenSeq(Each(LAMBDA n : Unclone(dir, n),
                           NamesOf(OriginClones(dir), ds)))
        \o DropFrom(OriginDirClones(dir), ds)
        \o Each(FreeObj, Only(subtree, {o \in Obj : Removable(o)})),
        UNION {found("WARNING", o) : o \in {p \in ToSet(subtree) :
                                            get(p).exists /\ get(p).unreadable}},
        <<>>)

(***************************************************************************)
(* The driver                                                              *)
(***************************************************************************)
run ==
  IF ~readable(MosDir) THEN Result(<<>>, found("CRITICAL", MosDir), <<>>)
  ELSE LET root == ref(MosDir, "root_dataset")
       IN  Result(<<>>, IF root = 0 THEN found("CRITICAL", MosDir) ELSE {},
                  <<Call("errlog_last", MosDir, 0, Missing),
                    Call("errlog_scrub", MosDir, 0, Missing),
                    Call("scan", MosDir, 0, Missing)>>
                  \o When(root # 0, <<Call("dir", root, 0, Missing)>>))

Reads(c) ==
  CASE c.do \in {"errlog_last", "errlog_scrub"} -> errlog_reads(c.do)
    [] c.do = "scan"    -> When(Scanning, <<ScanQueue>>)
    [] c.do = "dir"     -> When(c.obj \notin visited, <<c.obj>>)
    [] c.do = "child"   -> <<get(c.obj).ints[c.key]>>
    [] c.do = "dataset" -> dataset_reads(c.obj)
    [] c.do = "clones"  -> clones_reads(c.obj)
    [] c.do = "orphan"  -> orphan_reads(c.obj, c.dir)
    [] OTHER            -> <<c.obj>>

Outcome(c) ==
  CASE c.do \in {"errlog_last", "errlog_scrub"} -> check_errlog(c.do)
    [] c.do = "run"      -> run
    [] c.do = "scan"     -> check_scan
    [] c.do = "dir"      -> walk_dsl_dir(c.obj)
    [] c.do = "childmap" -> check_childmap(c.obj)
    [] c.do = "child"    -> check_child(c.obj, c.key)
    [] c.do = "dataset"  -> check_dataset(c.obj, c.dir)
    [] c.do = "clones"   -> check_clones_zap(c.obj)
    [] c.do = "orphan"   -> plan_orphan_removal(c.obj, c.dir)

\* dedupe_ops(): the first of equal lines stays.
dedupe_ops(lines) ==
  LET first(j) == \A k \in 1 .. (j - 1) : lines[k] # lines[j]
  IN  Each(LAMBDA j : lines[j],
           Only([j \in DOMAIN lines |-> j], {j \in DOMAIN lines : first(j)}))

Init ==
  /\ pool \in InitImages /\ cache = EmptyCache
  /\ agenda = <<>> /\ visited = {} /\ ops = <<>> /\ findings = {}
  /\ mode = "idle" /\ exit = "none" /\ scans = 0 /\ faults = 0 /\ drift = 0

ScanStart ==
  /\ mode = "idle" /\ scans < MaxScans
  /\ mode' = "scan" /\ scans' = scans + 1 /\ exit' = "none"
  /\ cache' = EmptyCache
  /\ agenda' = <<Call("run", MosDir, 0, Missing)>>
  /\ visited' = {} /\ ops' = <<>> /\ findings' = {}
  /\ UNCHANGED <<pool, faults, drift>>

Unread == Only(Reads(Head(agenda)), {o \in Obj : ~get(o).fetched})

Fetch ==
  /\ mode = "scan" /\ agenda # <<>> /\ Unread # <<>>
  /\ LET o == Head(Unread)
     IN  \/ /\ \E d \in Dumps(pool, o) : cache' = [cache EXCEPT ![o] = d]
            /\ UNCHANGED faults
         \/ /\ faults < MaxFaults /\ faults' = faults + 1
            /\ cache' = [cache EXCEPT ![o] = NoDump]
  /\ UNCHANGED <<pool, walkVars, mode, exit, scans, drift>>

Step ==
  /\ mode = "scan" /\ agenda # <<>> /\ Unread = <<>>
  /\ LET c == Head(agenda)
         r == Outcome(c)
     IN  /\ agenda' = r.calls \o Tail(agenda)
         /\ ops' = ops \o r.ops
         /\ findings' = findings \cup r.findings
         /\ visited' = IF c.do = "dir" THEN visited \cup {c.obj} ELSE visited
  /\ UNCHANGED <<pool, cache, mode, exit, scans, faults, drift>>

\* main(): the plan, the report and the exit status.
Report ==
  /\ mode = "scan" /\ agenda = <<>>
  /\ mode' = "done" /\ ops' = dedupe_ops(ops)
  /\ exit' = IF findings = {} THEN "0" ELSE "1"
  /\ UNCHANGED <<pool, cache, agenda, visited, findings, scans, faults, drift>>

\* sys.exit() with a message: the status is 1.
ZdbNotFound ==
  /\ mode = "scan" /\ agenda # <<>> /\ Unread # <<>>
  /\ mode' = "idle" /\ exit' = "1"
  /\ UNCHANGED <<pool, cache, walkVars, scans, faults, drift>>

Outside ==
  /\ drift < MaxDrift /\ drift' = drift + 1
  /\ \E o \in Obj : \E s \in Drift[o] : pool' = [pool EXCEPT ![o] = s]
  /\ UNCHANGED <<cache, walkVars, mode, exit, scans, faults>>

Next == ScanStart \/ Fetch \/ Step \/ Report \/ ZdbNotFound \/ Outside

Spec == Init /\ [][Next]_vars
==============================================================================
