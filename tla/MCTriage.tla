------------------------------- MODULE MCTriage ------------------------------
(***************************************************************************)
(* The worked example of tests/fixtures.py, scaled down: a data directory  *)
(* with a snapshot (7) and a clone of it (10) whose head dataset (11) may  *)
(* be dead, with the error log, the scan cursor and the namespace entries  *)
(* that refer to what is gone.                                             *)
(***************************************************************************)
EXTENDS Triage

MCObj == 1 .. 16
Gone == 20   \* an id that was freed

MCNamed == {"object directory", "DSL directory", "DSL directory child map",
            "DSL dataset", "DSL dataset next clones", "DSL dir clones",
            "DSL props", "persistent error log", "SPA space map"}
MCRefType == {"DSL directory child map", "DSL dataset next clones", "DSL dir clones"}
MCZapType == MCRefType \cup {"object directory", "DSL props", "persistent error log"}
MCSubtreeType == {"DSL directory", "DSL directory child map", "DSL dataset",
                  "DSL props"}
MCDirLike == {"DSL directory", "DSL directory child map"}
MCDatasetLike == {"DSL dataset", "DSL dataset next clones"}
MCErrlogLike == {"persistent error log"}

DirFields == {"head_dataset_obj", "parent_dir_obj", "origin_obj",
              "child_dir_zapobj", "props_zapobj", "clones"}
DatasetFields == {"dir_obj", "prev_snap_obj", "num_children", "next_clones_obj",
                  "deadlist_obj", "snapnames_zapobj"}
MCField == DirFields \cup DatasetFields
MCBonusFields == [t \in MCNamed |-> CASE t = "DSL directory" -> DirFields
                                      [] t = "DSL dataset" -> DatasetFields
                                      [] OTHER -> {}]

MCNameOrder ==
  << <<"$MOS">>, <<"b">>, <<"child_dir_zapobj">>, <<"clone">>, <<"clone", "a">>, <<"clones">>,
     <<"data">>, <<"deadlist_obj">>, <<"dir_obj">>, <<"errlog_last">>,
     <<"errlog_scrub">>, <<"gone">>, <<"head_dataset_obj">>, <<"next_clones_obj">>,
     <<"num_children">>, <<"origin_obj">>, <<"parent_dir_obj">>,
     <<"prev_snap_obj">>, <<"props_zapobj">>, <<"root_dataset">>, <<"scan">>,
     <<"snapnames_zapobj">>, <<"x">> >>
MCKey == ToSet(MCNameOrder)
MCSpecial == {<<"$MOS">>}
MCObjsetOf == [k \in MCKey |-> IF k = <<"b">> THEN 11 ELSE 0]

Z(pairs) == [k \in MCKey |-> IF \E p \in pairs : <<p[1]>> = k
                             THEN LET p == CHOOSE q \in pairs : <<q[1]>> = k IN p[2]
                             ELSE <<>>]
B(pairs) == [f \in MCField |-> IF \E p \in pairs : p[1] = f
                               THEN LET p == CHOOSE q \in pairs : q[1] = f IN p[2]
                               ELSE 0]
ZapObj(t, pairs) == [type |-> t, io |-> TRUE, zap |-> Z(pairs), bonus |-> B({})]
BonusObj(t, pairs) == [type |-> t, io |-> TRUE, zap |-> Z({}), bonus |-> B(pairs)]
Dead(s) == [s EXCEPT !.io = FALSE]

CloneHead == BonusObj("DSL dataset", {<<"dir_obj", 10>>, <<"prev_snap_obj", 7>>,
                                      <<"num_children", 1>>})
SpaceMap == ZapObj("SPA space map", {})
Errlog(pairs) == ZapObj("persistent error log", pairs)

\* last: errlog_last; scan: the cursor; extra: more entries of the child map;
\* head: the head of the clone; log, per: the error log and its entry for 11.
Pool(last, scan, extra, head, log, per) ==
  << ZapObj("object directory", {<<"root_dataset", <<2>>>>, <<"errlog_last", <<last>>>>,
                                 <<"errlog_scrub", <<0>>>>, <<"scan", scan>>}),
     BonusObj("DSL directory", {<<"head_dataset_obj", 3>>, <<"child_dir_zapobj", 4>>}),
     BonusObj("DSL dataset", {<<"dir_obj", 2>>, <<"num_children", 1>>}),
     ZapObj("DSL directory child map",
            {<<"$MOS", <<16>>>>, <<"data", <<5>>>>, <<"clone", <<10>>>>} \cup extra),
     BonusObj("DSL directory", {<<"head_dataset_obj", 6>>, <<"parent_dir_obj", 2>>,
                                <<"clones", 9>>}),
     BonusObj("DSL dataset", {<<"dir_obj", 5>>, <<"prev_snap_obj", 7>>,
                              <<"num_children", 1>>}),
     BonusObj("DSL dataset", {<<"dir_obj", 5>>, <<"next_clones_obj", 8>>,
                              <<"num_children", 2>>}),
     ZapObj("DSL dataset next clones", {<<"b", <<11>>>>}),
     ZapObj("DSL dir clones", {<<"b", <<11>>>>}),
     BonusObj("DSL directory", {<<"head_dataset_obj", 11>>, <<"parent_dir_obj", 2>>,
                                <<"origin_obj", 7>>, <<"props_zapobj", 12>>,
                                <<"child_dir_zapobj", 13>>}),
     head, ZapObj("DSL props", {}), ZapObj("DSL directory child map", {}), log, per,
     BonusObj("DSL directory", {<<"parent_dir_obj", 2>>}) >>

Cursors == {<<>>, <<2, 1, Gone>>, <<2, 2, Gone>>}
Extras == {{}, {<<"gone", <<Gone>>>>}, {<<"x", <<12>>>>}, {<<"x", <<2>>>>}}
Logs == {Errlog({<<"b", <<15>>>>}), SpaceMap, FreeSlot}
Pers == {Errlog({}), SpaceMap, FreeSlot}

\* The incident: the head of the clone is fine or dead, and everything else
\* that refers to what is gone comes in all combinations.
Incident ==
  {Pool(last, scan, extra, head, log, per) :
     last \in {0, 14}, scan \in Cursors, extra \in Extras,
     head \in {CloneHead, Dead(CloneHead)}, log \in Logs, per \in Pers}

NoDrift == [o \in MCObj |-> {}]

\* A namespace with a cycle, scanned while dumps get lost and ids recycled.
Cycle == {<<"x", <<2>>>>}
Torn == {Pool(0, <<>>, Cycle, CloneHead, FreeSlot, FreeSlot),
         Pool(14, <<2, 1, Gone>>, Cycle, Dead(CloneHead), Errlog({<<"b", <<15>>>>}),
              Errlog({}))}
TornDrift == [NoDrift EXCEPT ![11] = {Dead(CloneHead), FreeSlot},
                             ![14] = {SpaceMap}]

Sound == Pool(0, <<>>, {}, CloneHead, FreeSlot, FreeSlot)
Orphan == [Sound EXCEPT ![11] = Dead(CloneHead)]

\* A second clone (14) of the same snapshot whose head (15) is dead too.
TwoOrphans ==
  {[Orphan EXCEPT
      ![4].zap[<<"x">>] = <<14>>, ![8].zap[<<"x">>] = <<15>>, ![9].zap[<<"x">>] = <<15>>,
      ![7].bonus["num_children"] = 3,
      ![14] = BonusObj("DSL directory", {<<"head_dataset_obj", 15>>,
                                         <<"parent_dir_obj", 2>>, <<"origin_obj", 7>>}),
      ![15] = Dead(CloneHead)]}

\* The dead dataset is the head of the root directory.
DeadRoot == {[Sound EXCEPT ![3] = Dead(@)]}

\* The properties of the orphan are gone and their id was recycled.
RecycledProps == {[Orphan EXCEPT ![12] = SpaceMap]}

\* The orphan has a name of two words.
SpacedName == {[Orphan EXCEPT ![4].zap[<<"clone">>] = <<>>,
                              ![4].zap[<<"clone", "a">>] = <<10>>]}

\* The clone has been destroyed, but the snapshot still lists it.
StaleNextClones ==
  {[Sound EXCEPT ![4].zap[<<"clone">>] = <<>>, ![9].zap[<<"b">>] = <<>>,
                 ![10] = FreeSlot, ![11] = FreeSlot, ![12] = FreeSlot, ![13] = FreeSlot]}

\* The orphan has a child, which names it as the parent.
OrphanWithChild ==
  {[Orphan EXCEPT ![13].zap[<<"b">>] = <<16>>, ![16].bonus["parent_dir_obj"] = 10]}

SoundOnly == {Sound}

\* The pools of the incident are all of the shape that the theorem about
\* PlanAccepted asks for; the name of two words is what it leaves out.
ASSUME PoolsShaped ==
  /\ \A m \in Incident \cup Torn : Shaped(m)
  /\ \A m \in TwoOrphans \cup DeadRoot \cup RecycledProps \cup StaleNextClones : Shaped(m)
  /\ \A m \in SpacedName : ~Shaped(m)

\* Nor has an id of theirs been recycled, except where a run is about that.
ASSUME PoolsTyped ==
  /\ DirLike \subseteq SubtreeType /\ \A m \in Incident \cup Torn : RefsTyped(m)
  /\ \A m \in RecycledProps : ~RefsTyped(m)

\* In the pools of the incident whatever dangles is followed; the snapshot that
\* still lists a destroyed clone is not visited.
ASSUME PoolsFollowed ==
  /\ \A m \in Incident \cup Torn : ZapOrBonus(m) /\ FollowsAll(m)
  /\ \A m \in StaleNextClones : ZapOrBonus(m) /\ ~FollowsAll(m)

\* In the pools of the incident an orphan is referred to as the theorem about
\* NoNewDangling asks, except where an entry of the child map names a part of it.
ASSUME PoolsContained ==
  /\ \A m \in Incident \cup Torn :
       Contained(m) <=> m[11].io \/ m[4].zap[<<"x">>] # <<12>>
  /\ \A m \in TwoOrphans : Contained(m)
  /\ \A m \in OrphanWithChild : ~Contained(m)
==============================================================================
