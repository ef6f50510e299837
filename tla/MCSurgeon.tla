------------------------------ MODULE MCSurgeon ------------------------------
(***************************************************************************)
(* A pool of three objects for the surgeon: the MOS directory (1), a slot  *)
(* whose id is recycled (2) and a dead dataset (3) that an error log names.*)
(***************************************************************************)
EXTENDS Surgeon

MCObj == {1, 2, 3}
MCNamed == {"object directory", "persistent error log", "DSL dataset",
            "SPA space map"}
MCType == MCNamed \cup {"DMU_OTN"}
MCZapType == {"object directory", "persistent error log"}
MCKey == {<<"errlog_last">>, <<"errlog_scrub">>, <<"scan">>, <<"3">>, <<"a">>,
          <<"a", "b">>}
MCField == {"num_children"}
MCObjsetOf == [k \in MCKey |-> IF k = <<"3">> THEN 3 ELSE 0]

State(t, z, n) == [type |-> t, io |-> TRUE, zap |-> z,
                   bonus |-> [f \in MCField |-> n]]

Dir(log, scan) ==
  State("object directory",
        [k \in MCKey |-> CASE k = <<"errlog_last">> -> <<log>>
                          [] k = <<"errlog_scrub">> -> <<2 - log>>
                          [] k = <<"scan">> -> scan
                          [] OTHER -> <<>>], 0)
Errlog == State("persistent error log",
                [k \in MCKey |-> IF k = <<"3">> THEN <<2>> ELSE <<>>], 0)
Dataset(n) == State("DSL dataset", EmptyZap, n)
SpaceMap == State("SPA space map", EmptyZap, 0)
Unnamed == State("DMU_OTN", EmptyZap, 0)
Dead(s) == [s EXCEPT !.io = FALSE]

MCInitImages ==
  {<<d, s, Dead(Dataset(1))>> : d \in {Dir(2, <<1, 1>>), Dir(0, <<>>)},
                                s \in {Errlog, Dataset(2)}}
MCDrift == <<{Dir(0, <<0, 0>>)},
             {FreeSlot, SpaceMap, Unnamed, Dead(Errlog), Dataset(2)}, {}>>

L(kind, obj) == [kind |-> kind, obj |-> obj, key |-> Missing, quoted |-> FALSE,
                 expect |-> Missing, value |-> Missing, count |-> Missing,
                 field |-> "ds_num_children", type |-> Missing]

Remark == L("comment", Missing)
ClearLog(key) == [L("zap_set", 1) EXCEPT !.key = <<key>>, !.expect = 2, !.value = 0]
ZeroScan == [L("zap_zero", 1) EXCEPT !.key = <<"scan">>, !.count = 2]
FreeLine(t) == [L("free", 2) EXCEPT !.type = t]
Children(e, v) == [L("bonus_set", 2) EXCEPT !.expect = e, !.value = v]
RemoveLine(k) == [L("zap_remove", 1) EXCEPT !.key = k]

MCPlanFiles ==
  { <<Remark, ClearLog("errlog_last"), FreeLine("persistent error log")>>,
    <<RemoveLine(<<"errlog_last">>), FreeLine("SPA space map")>>,
    <<[RemoveLine(<<"errlog_scrub">>) EXCEPT !.expect = 2], ZeroScan>>,
    <<Children(2, -1), RemoveLine(<<"a", "b">>)>>,
    <<FreeLine("DSL dataset"), Children(2, 1)>>,
    <<FreeLine("DMU_OTN")>>,
    <<Remark>>,
    <<ZeroScan, ZeroScan, ZeroScan>>,
    <<L("free", 2)>> }
==============================================================================
