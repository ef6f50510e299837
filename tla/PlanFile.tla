------------------------------ MODULE PlanFile -------------------------------
(***************************************************************************)
(* The repair plan: the text lines that zhaxx-scan writes and zhaxx reads, *)
(* and the op_t that parse_plan() makes of a line.                         *)
(*                                                                         *)
(* A line is a record of its key=value tokens.  The text of a number is an *)
(* integer (the scanner can print a negative one), the text of a key is    *)
(* the sequence of its words.                                              *)
(***************************************************************************)
EXTENDS Mos

CONSTANTS Missing,       \* the token is not on the line
          MaxOps,        \* MAX_OPS, 64 in the code
          ScanMaxWords   \* SCAN_MAX_WORDS, 32 in the code

ASSUME PlanFileAssumption ==
  /\ MaxOps \in Nat \ {0} /\ ScanMaxWords \in Nat \ {0}
  /\ Missing \notin Int \cup Obj \cup Key \cup Type

ZapKind == {"zap_set", "zap_zero", "zap_remove"}
OpKind == ZapKind \cup {"bonus_set", "free"}
Ignored == {"comment", "blank"}
Text == Int \cup {Missing}

Line == [kind : OpKind \cup Ignored \cup {"unknown"}, obj : Obj \cup {Missing},
         key : Key \cup {Missing}, quoted : BOOLEAN, expect : Text,
         value : Text, count : Text, field : {"ds_num_children", "other"},
         type : Type \cup {Missing}]

Op == [kind : OpKind, obj : Obj, key : Key \cup {Missing},
       has_expect : BOOLEAN, expect : Word, value : Word,
       count : 0 .. ScanMaxWords, type : Type \cup {Missing}]

(***************************************************************************)
(* strtoull() wraps a negative number and fails with ERANGE beyond 64 bits *)
(***************************************************************************)
kv_u64_ok(t) == t # Missing /\ -WordMod < t /\ t < WordMod

\* Mutant: a negative number is not wrapped.
kv_u64_Unwrapped(t) == IF kv_u64_ok(t) THEN t ELSE 0

kv_u64(t) == IF kv_u64_ok(t) THEN t % WordMod ELSE 0

\* An unquoted string ends at the first space.
kv_str(k, quoted) ==
  IF k = Missing \/ quoted THEN k ELSE <<Head(k)>>

\* The lines parse_plan() refuses; one of them refuses the whole plan.
BadLine(l) ==
  \/ l.obj = Missing
  \/ l.kind = "unknown"
  \/ l.kind \in ZapKind /\ l.key = Missing
  \/ l.kind \in {"zap_set", "bonus_set"}
       /\ ~(kv_u64_ok(l.value) /\ kv_u64_ok(l.expect))
  \/ l.kind = "zap_zero" /\ kv_u64(l.count) \notin 1 .. ScanMaxWords
  \/ l.kind = "bonus_set" /\ l.field # "ds_num_children"
  \/ l.kind = "free" /\ l.type = Missing

ParseOp(l) ==
  [kind |-> l.kind, obj |-> l.obj,
   key |-> IF l.kind \in ZapKind THEN kv_str(l.key, l.quoted) ELSE Missing,
   has_expect |-> kv_u64_ok(l.expect), expect |-> kv_u64(l.expect),
   value |-> IF l.kind \in {"zap_set", "bonus_set"} THEN kv_u64(l.value) ELSE 0,
   count |-> IF l.kind = "zap_zero" THEN kv_u64(l.count) ELSE 0,
   type |-> IF l.kind = "free" THEN l.type ELSE Missing]
==============================================================================
