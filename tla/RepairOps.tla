------------------------------ MODULE RepairOps ------------------------------
(***************************************************************************)
(* What one plan operation requires of the MOS (check_op) and does to it   *)
(* (the body of the second loop of apply_sync), and what a whole plan does *)
(* when its operations are applied in order.                               *)
(***************************************************************************)
EXTENDS PlanFile

\* Mutant: any object with a printable type may be freed.
type_name_matches_Any(t, name) == t \in NamedType

type_name_matches(t, name) == t \in NamedType /\ t = name

\* Where check_op() prints "no-op (ok)": the target is already gone.
ReportedNoop(mos, op) ==
  \/ op.kind = "zap_remove" /\ zap_lookup_err(mos, op.obj, op.key, 1) = "ENOENT"
  \/ op.kind = "zap_zero"
       /\ zap_lookup_err(mos, op.obj, op.key, op.count) = "ENOENT"
  \/ op.kind = "free" /\ dmu_object_info_err(mos, op.obj) = "ENOENT"

ZapValueHolds(mos, op) ==
  /\ zap_lookup_err(mos, op.obj, op.key, 1) = "ok"
  /\ op.has_expect => mos[op.obj].zap[op.key][1] = op.expect

check_op(mos, op) ==
  \/ ReportedNoop(mos, op)
  \/ op.kind \in {"zap_set", "zap_remove"} /\ ZapValueHolds(mos, op)
  \/ op.kind = "zap_zero"
       /\ zap_lookup_err(mos, op.obj, op.key, op.count) = "ok"
  \/ op.kind = "bonus_set"
       /\ dmu_read_err(mos, op.obj) = "ok"
       /\ mos[op.obj].bonus["num_children"] = op.expect
  \/ op.kind = "free"
       /\ dmu_object_info_err(mos, op.obj) = "ok"
       /\ type_name_matches(mos[op.obj].type, op.type)

\* A remove or a free of what is absent is not an error: ENOENT becomes 0.
apply_err(mos, op) ==
  LET forgive(e) == IF e = "ENOENT" THEN "ok" ELSE e
  IN  CASE op.kind \in {"zap_set", "zap_zero"} -> zap_hold_err(mos, op.obj)
        [] op.kind = "zap_remove" -> forgive(zap_hold_err(mos, op.obj))
        [] op.kind = "bonus_set"  -> dmu_read_err(mos, op.obj)
        [] op.kind = "free"       -> forgive(dmu_read_err(mos, op.obj))

\* Meaningful when apply_err is "ok"; any other errno stops the process.
apply_op(mos, op) ==
  CASE op.kind = "zap_set"    -> zap_update(mos, op.obj, op.key, <<op.value>>)
    [] op.kind = "zap_zero"   -> zap_update(mos, op.obj, op.key,
                                            [w \in 1 .. op.count |-> 0])
    [] op.kind = "zap_remove" -> zap_remove(mos, op.obj, op.key)
    [] op.kind = "bonus_set"  ->
         [mos EXCEPT ![op.obj].bonus["num_children"] = op.value]
    [] op.kind = "free"       -> dmu_object_free(mos, op.obj)

\* The images that a plan goes through: PlanTrail(plan, mos)[j] is the MOS
\* after the first j operations.
PlanTrail(plan, mos) ==
  LET after[j \in 0 .. Len(plan)] ==
        IF j = 0 THEN mos ELSE apply_op(after[j - 1], plan[j])
  IN  after

PlanHolds(plan, mos) == \A j \in 1 .. Len(plan) : check_op(mos, plan[j])

PlanApplies(plan, mos) ==
  \A j \in 1 .. Len(plan) : apply_err(PlanTrail(plan, mos)[j - 1], plan[j]) = "ok"

PlanResult(plan, mos) == PlanTrail(plan, mos)[Len(plan)]
==============================================================================
