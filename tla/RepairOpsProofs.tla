--------------------------- MODULE RepairOpsProofs ---------------------------
(***************************************************************************)
(* What the parser and the operations of a plan preserve, for every plan   *)
(* and every image of the MOS.                                             *)
(***************************************************************************)
EXTENDS RepairOps, TLAPS, WellFoundedInduction

\* kv_u64() yields a 64-bit word, whatever the number on the line.
LEMMA WordType ==
  ASSUME NEW t \in Text
  PROVE  kv_u64(t) \in Word
BY MosAssumption, PlanFileAssumption DEF kv_u64, kv_u64_ok, Text, Word

\* kv_str() yields a key: the first word of a key is one.
LEMMA KeyType ==
  ASSUME NEW k \in Key \cup {Missing}, NEW q \in BOOLEAN
  PROVE  kv_str(k, q) \in Key \cup {Missing}
BY MosAssumption DEF kv_str

\* A line that parse_plan() does not refuse becomes a well-formed op_t.
LEMMA ParseOpType ==
  ASSUME NEW l \in Line, l.kind \notin Ignored, ~BadLine(l)
  PROVE  ParseOp(l) \in Op
<1>1. l.kind \in OpKind /\ l.obj \in Obj
  BY DEF Line, BadLine
<1>2. kv_u64(l.expect) \in Word /\ kv_u64(l.value) \in Word /\ kv_u64(l.count) \in Word
  BY WordType DEF Line
<1>3. l.kind = "zap_zero" => kv_u64(l.count) \in 0 .. ScanMaxWords
  BY PlanFileAssumption DEF BadLine, Line
<1>4. kv_str(l.key, l.quoted) \in Key \cup {Missing}
  BY KeyType DEF Line
<1>5. kv_u64_ok(l.expect) \in BOOLEAN
  BY DEF kv_u64_ok, Line, Text
<1>6. 0 \in Word /\ l.type \in Type \cup {Missing}
  BY MosAssumption DEF Word, Line
<1> QED
  BY <1>1, <1>2, <1>3, <1>4, <1>5, <1>6, PlanFileAssumption DEF ParseOp, Op

\* A freed slot is a state of an object.
LEMMA FreeSlotType == FreeSlot \in ObjState
<1>1. EmptyZap \in Zap
  BY DEF EmptyZap, Zap
<1> QED
  BY <1>1, MosAssumption DEF FreeSlot, ObjState, Word

\* Writing a ZAP entry keeps the image well formed.
LEMMA ZapUpdateType ==
  ASSUME NEW m \in Image, NEW o \in Obj, NEW k, NEW w \in Seq(Word)
  PROVE  [m EXCEPT ![o].zap[k] = w] \in Image
<1>1. m[o] \in ObjState
  BY DEF Image
<1>2. [m[o].zap EXCEPT ![k] = w] \in Zap
  BY <1>1 DEF ObjState, Zap
<1>3. [m[o] EXCEPT !.zap[k] = w] \in ObjState
  BY <1>1, <1>2 DEF ObjState
<1> QED
  BY <1>3 DEF Image

\* So does every operation of the second pass of apply_sync().
LEMMA ApplyType ==
  ASSUME NEW m \in Image, NEW op \in Op
  PROVE  apply_op(m, op) \in Image
<1>1. op.kind \in OpKind /\ op.obj \in Obj /\ op.value \in Word /\ op.count \in Nat
  BY PlanFileAssumption DEF Op
<1>2. <<op.value>> \in Seq(Word) /\ <<>> \in Seq(Word)
  BY <1>1
<1>3. [w \in 1 .. op.count |-> 0] \in Seq(Word)
  BY <1>1, MosAssumption DEF Word
<1>4. m[op.obj] \in ObjState
  BY <1>1 DEF Image
<1>5. [m[op.obj] EXCEPT !.bonus["num_children"] = op.value] \in ObjState
  <2>1. [m[op.obj].bonus EXCEPT !["num_children"] = op.value] \in [Field -> Word]
    BY <1>1, <1>4 DEF ObjState
  <2> QED
    BY <2>1, <1>4 DEF ObjState
<1>6. [m EXCEPT ![op.obj].bonus["num_children"] = op.value] \in Image
  BY <1>1, <1>5 DEF Image
<1>7. dmu_object_free(m, op.obj) \in Image
  BY <1>1, FreeSlotType DEF dmu_object_free, Image
<1>8. /\ zap_update(m, op.obj, op.key, <<op.value>>) \in Image
      /\ zap_update(m, op.obj, op.key, [w \in 1 .. op.count |-> 0]) \in Image
      /\ zap_remove(m, op.obj, op.key) \in Image
  BY <1>1, <1>2, <1>3, ZapUpdateType DEF zap_update, zap_remove
<1> QED
  BY <1>1, <1>6, <1>7, <1>8 DEF apply_op, OpKind, ZapKind

\* An operation touches only the object it names, and only a free changes the
\* type of an object.
LEMMA ApplyFrame ==
  ASSUME NEW m \in Image, NEW op \in Op, NEW o \in Obj
  PROVE  /\ apply_op(m, op)[o] # m[o] => o = op.obj
         /\ apply_op(m, op)[o].type # m[o].type =>
              op.kind = "free" /\ o = op.obj /\ apply_op(m, op)[o].type = NoType
<1>1. op.kind \in OpKind /\ op.obj \in Obj
  BY DEF Op
<1>2. m[o] \in ObjState /\ m[op.obj] \in ObjState
  BY <1>1 DEF Image
<1>3. CASE op.kind = "zap_set"
  BY <1>1, <1>2, <1>3 DEF apply_op, zap_update, Image, ObjState
<1>4. CASE op.kind = "zap_zero"
  BY <1>1, <1>2, <1>4 DEF apply_op, zap_update, Image, ObjState
<1>5. CASE op.kind = "zap_remove"
  BY <1>1, <1>2, <1>5 DEF apply_op, zap_remove, Image, ObjState
<1>6. CASE op.kind = "bonus_set"
  BY <1>1, <1>2, <1>6 DEF apply_op, Image, ObjState
<1>7. CASE op.kind = "free"
  BY <1>1, <1>2, <1>7 DEF apply_op, dmu_object_free, FreeSlot, Image, ObjState
<1> QED
  BY <1>1, <1>3, <1>4, <1>5, <1>6, <1>7 DEF OpKind, ZapKind

\* Only a free makes an object unreadable or gone; what it leaves is a free slot.
LEMMA ApplyKeepsState ==
  ASSUME NEW m \in Image, NEW op \in Op, NEW o \in Obj,
         ~(op.kind = "free" /\ o = op.obj)
  PROVE  apply_op(m, op)[o].type = m[o].type /\ apply_op(m, op)[o].io = m[o].io
<1>1. op.kind \in OpKind /\ op.obj \in Obj
  BY DEF Op
<1>2. m[o] \in ObjState /\ m[op.obj] \in ObjState
  BY <1>1 DEF Image
<1>3. CASE op.kind = "zap_set"
  BY <1>1, <1>2, <1>3 DEF apply_op, zap_update, Image, ObjState
<1>4. CASE op.kind = "zap_zero"
  BY <1>1, <1>2, <1>4 DEF apply_op, zap_update, Image, ObjState
<1>5. CASE op.kind = "zap_remove"
  BY <1>1, <1>2, <1>5 DEF apply_op, zap_remove, Image, ObjState
<1>6. CASE op.kind = "bonus_set"
  BY <1>1, <1>2, <1>6 DEF apply_op, Image, ObjState
<1>7. CASE op.kind = "free"
  BY <1>1, <1>2, <1>7 DEF apply_op, dmu_object_free, Image, ObjState
<1> QED
  BY <1>1, <1>3, <1>4, <1>5, <1>6, <1>7 DEF OpKind, ZapKind

\* Every set of naturals that is not empty has a least element.
LEMMA NatMin ==
  ASSUME NEW T, T \subseteq Nat, T # {}
  PROVE  \E n \in T : \A k \in T : ~(k < n)
<1>1. PICK n \in T : \A y \in T : <<y, n>> \notin OpToRel(<, Nat)
  BY NatLessThanWellFounded, WFMin, Zenon
<1> QED
  BY <1>1 DEF OpToRel

\* The second pass as a recursive function: it starts with the MOS as it is, and
\* each operation is applied to what the ones before it have left.
LEMMA PlanTrailDef ==
  ASSUME NEW plan \in Seq(Op), NEW m
  PROVE  /\ PlanTrail(plan, m)[0] = m
         /\ \A j \in 1 .. Len(plan) :
              PlanTrail(plan, m)[j] = apply_op(PlanTrail(plan, m)[j - 1], plan[j])
<1> DEFINE F(n, f) ==
      f = [j \in 0 .. n |-> IF j = 0 THEN m ELSE apply_op(f[j - 1], plan[j])]
<1> DEFINE T == {n \in Nat : ~\E f : F(n, f)}
<1>1. T = {}
  <2> SUFFICES ASSUME T # {} PROVE FALSE
    OBVIOUS
  <2>1. PICK n \in T : \A k \in T : ~(k < n)
    BY NatMin
  <2>2. n # 0
    <3>1. F(0, [j \in 0 .. 0 |-> m])
      OBVIOUS
    <3> QED
      BY <3>1
  <2>3. PICK g : F(n - 1, g)
    <3>1. n - 1 \in Nat /\ n - 1 < n
      BY <2>2
    <3>2. n - 1 \notin T
      BY <2>1, <3>1
    <3> QED
      BY <3>1, <3>2
  <2> DEFINE h ==
        [j \in 0 .. n |-> IF j = n THEN apply_op(g[n - 1], plan[n]) ELSE g[j]]
  <2>4. F(n, h)
    BY <2>2, <2>3
  <2> QED
    BY <2>1, <2>4
<1>2. \E f : F(Len(plan), f)
  BY <1>1
<1>3. F(Len(plan), PlanTrail(plan, m))
  BY <1>2 DEF PlanTrail
<1> QED
  BY <1>3

\* No VERIFY0() of the second pass fires when every operation could be applied
\* to the MOS as the pass finds it, and what the plan frees (anything outside W)
\* is nothing that it writes to: an operation only meets an object as it was at
\* the start, or freed, and then it is one that takes ENOENT for done.
LEMMA TrailApplies ==
  ASSUME NEW plan \in Seq(Op), NEW m \in Image, NEW W,
         \A j \in 1 .. Len(plan) : apply_err(m, plan[j]) = "ok",
         \A j \in 1 .. Len(plan) :
           plan[j].kind \in {"zap_set", "zap_zero", "bonus_set"} => plan[j].obj \in W,
         \A j \in 1 .. Len(plan) : plan[j].kind = "free" => plan[j].obj \notin W
  PROVE  PlanApplies(plan, m)
<1> DEFINE t == PlanTrail(plan, m)
           Same(n, o) == n[o].type = m[o].type /\ n[o].io = m[o].io
           Fine(j) == /\ t[j] \in Image
                      /\ \A o \in Obj : \/ Same(t[j], o)
                                        \/ t[j][o].type = NoType /\ o \notin W
           D == {j \in Nat : j <= Len(plan) /\ ~Fine(j)}
<1>1. /\ t[0] = m
      /\ \A j \in 1 .. Len(plan) : t[j] = apply_op(t[j - 1], plan[j])
  BY PlanTrailDef
<1> HIDE DEF t
<1>2. D = {}
  <2> SUFFICES ASSUME D # {} PROVE FALSE
    OBVIOUS
  <2>1. PICK j \in D : \A k \in D : ~(k < j)
    BY NatMin
  <2>2. j # 0
    <3>1. Fine(0)
      BY <1>1
    <3> QED
      BY <3>1
  <2>3. j \in 1 .. Len(plan) /\ plan[j] \in Op
    BY <2>2
  <2>4. Fine(j - 1)
    BY <2>1, <2>3
  <2>5. t[j] = apply_op(t[j - 1], plan[j])
    BY <1>1, <2>3
  <2>6. t[j] \in Image
    BY <2>3, <2>4, <2>5, ApplyType
  <2>7. ASSUME NEW o \in Obj
        PROVE  Same(t[j], o) \/ (t[j][o].type = NoType /\ o \notin W)
    <3>1. CASE plan[j].kind = "free" /\ o = plan[j].obj
      <4>1. t[j][o] = FreeSlot
        <5>1. t[j] = [t[j - 1] EXCEPT ![o] = FreeSlot]
          BY <2>5, <3>1 DEF apply_op, dmu_object_free
        <5> QED
          BY <2>4, <5>1 DEF Image
      <4>2. o \notin W
        BY <2>3, <3>1
      <4>3. FreeSlot.type = NoType
        BY DEF FreeSlot
      <4> QED
        BY <4>1, <4>2, <4>3
    <3>2. CASE ~(plan[j].kind = "free" /\ o = plan[j].obj)
      <4>1. t[j][o].type = t[j - 1][o].type /\ t[j][o].io = t[j - 1][o].io
        BY <2>3, <2>4, <2>5, <3>2, ApplyKeepsState
      <4> QED
        BY <2>4, <4>1
    <3> QED
      BY <3>1, <3>2
  <2> QED
    BY <2>6, <2>7
<1> SUFFICES ASSUME NEW j \in 1 .. Len(plan)
             PROVE  apply_err(t[j - 1], plan[j]) = "ok"
  BY DEF PlanApplies, t
<1> DEFINE op == plan[j]
           n == t[j - 1]
<1>3. op \in Op /\ op.kind \in OpKind /\ op.obj \in Obj /\ apply_err(m, op) = "ok"
  <2>1. op \in Op
    OBVIOUS
  <2>2. apply_err(m, op) = "ok"
    OBVIOUS
  <2> QED
    BY <2>1, <2>2 DEF Op
<1>4. Fine(j - 1)
  <2>1. j - 1 \in Nat /\ j - 1 <= Len(plan)
    OBVIOUS
  <2> QED
    BY <1>2, <2>1
<1>5. CASE Same(n, op.obj)
  <2>1. /\ dmu_read_err(n, op.obj) = dmu_read_err(m, op.obj)
        /\ zap_hold_err(n, op.obj) = zap_hold_err(m, op.obj)
    BY <1>5 DEF zap_hold_err, dmu_read_err, Exists
  <2> QED
    BY <1>3, <2>1 DEF apply_err
<1>6. CASE n[op.obj].type = NoType /\ op.obj \notin W
  <2>1. op.kind \in {"zap_remove", "free"}
    BY <1>3, <1>6 DEF OpKind, ZapKind
  <2>2. dmu_read_err(n, op.obj) = "ENOENT" /\ zap_hold_err(n, op.obj) = "ENOENT"
    BY <1>6 DEF zap_hold_err, dmu_read_err, Exists
  <2> QED
    BY <2>1, <2>2 DEF apply_err
<1> QED
  BY <1>3, <1>4, <1>5, <1>6
(***************************************************************************)
(* Applying a plan a second time                                           *)
(***************************************************************************)
\* The two parts of an object are the same in both images, or each is what it
\* was in the image before.
SameOrKept(new1, new2, old1, old2) == new1 = new2 \/ (new1 = old1 /\ new2 = old2)

SlotOverwritten(new1, new2, old1, old2) ==
  /\ SameOrKept(new1.type, new2.type, old1.type, old2.type)
  /\ SameOrKept(new1.io, new2.io, old1.io, old2.io)
  /\ \A k \in Key : SameOrKept(new1.zap[k], new2.zap[k], old1.zap[k], old2.zap[k])
  /\ \A f \in Field :
       SameOrKept(new1.bonus[f], new2.bonus[f], old1.bonus[f], old2.bonus[f])

\* What a ZAP write leaves under every key of the object.
LEMMA ZapWritten ==
  ASSUME NEW m \in Image, NEW o \in Obj, NEW k, NEW w \in Seq(Word)
  PROVE  LET n == [m EXCEPT ![o].zap[k] = w]
         IN  /\ n[o].type = m[o].type /\ n[o].io = m[o].io
             /\ n[o].bonus = m[o].bonus
             /\ \A l \in Key : n[o].zap[l] = IF l = k THEN w ELSE m[o].zap[l]
<1> DEFINE z == [m[o].zap EXCEPT ![k] = w]
           s == [m[o] EXCEPT !.zap = z]
<1>1. m[o] \in ObjState /\ m[o].zap \in Zap
  BY DEF Image, ObjState
<1>2. [m EXCEPT ![o].zap[k] = w][o] = s
  BY DEF Image
<1>3. \A l \in Key : z[l] = IF l = k THEN w ELSE m[o].zap[l]
  BY <1>1 DEF Zap
<1>4. s.type = m[o].type /\ s.io = m[o].io /\ s.bonus = m[o].bonus /\ s.zap = z
  BY <1>1 DEF ObjState
<1> QED
  BY <1>2, <1>3, <1>4

\* What an operation writes does not depend on what it overwrites: on two images
\* every part of every object is left alone in both, or made equal.
LEMMA ApplyOverwrites ==
  ASSUME NEW m1 \in Image, NEW m2 \in Image, NEW op \in Op, NEW o \in Obj
  PROVE  SlotOverwritten(apply_op(m1, op)[o], apply_op(m2, op)[o], m1[o], m2[o])
<1>1. op.kind \in OpKind /\ op.obj \in Obj /\ op.value \in Word /\ op.count \in Nat
  BY PlanFileAssumption DEF Op
<1>2. <<op.value>> \in Seq(Word) /\ <<>> \in Seq(Word)
  BY <1>1
<1>3. [w \in 1 .. op.count |-> 0] \in Seq(Word)
  BY <1>1, MosAssumption DEF Word
<1>4. CASE o # op.obj
  <2>1. apply_op(m1, op)[o] = m1[o] /\ apply_op(m2, op)[o] = m2[o]
    BY <1>4, ApplyFrame
  <2> QED
    BY <2>1 DEF SlotOverwritten, SameOrKept
<1>5. ASSUME NEW w \in Seq(Word), o = op.obj,
             apply_op(m1, op) = [m1 EXCEPT ![o].zap[op.key] = w],
             apply_op(m2, op) = [m2 EXCEPT ![o].zap[op.key] = w]
      PROVE  SlotOverwritten(apply_op(m1, op)[o], apply_op(m2, op)[o], m1[o], m2[o])
  BY <1>5, ZapWritten DEF SlotOverwritten, SameOrKept
<1>6. CASE o = op.obj /\ op.kind = "zap_set"
  BY <1>2, <1>5, <1>6 DEF apply_op, zap_update
<1>7. CASE o = op.obj /\ op.kind = "zap_zero"
  BY <1>3, <1>5, <1>7 DEF apply_op, zap_update
<1>8. CASE o = op.obj /\ op.kind = "zap_remove"
  BY <1>2, <1>5, <1>8 DEF apply_op, zap_remove
<1>9. CASE o = op.obj /\ op.kind = "bonus_set"
  <2>1. ASSUME NEW m \in Image
        PROVE  LET n == apply_op(m, op)
               IN  /\ n[o].type = m[o].type /\ n[o].io = m[o].io
                   /\ n[o].zap = m[o].zap
                   /\ \A f \in Field : n[o].bonus[f] =
                        IF f = "num_children" THEN op.value ELSE m[o].bonus[f]
    <3> DEFINE b == [m[o].bonus EXCEPT !["num_children"] = op.value]
               s == [m[o] EXCEPT !.bonus = b]
    <3>1. m[o] \in ObjState /\ m[o].bonus \in [Field -> Word]
      BY DEF Image, ObjState
    <3>2. apply_op(m, op)[o] = s
      BY <1>9 DEF apply_op, Image
    <3>3. \A f \in Field : b[f] = IF f = "num_children" THEN op.value ELSE m[o].bonus[f]
      BY <3>1
    <3>4. s.type = m[o].type /\ s.io = m[o].io /\ s.zap = m[o].zap /\ s.bonus = b
      BY <3>1 DEF ObjState
    <3> QED
      BY <3>2, <3>3, <3>4
  <2> QED
    BY <2>1 DEF SlotOverwritten, SameOrKept
<1>10. CASE o = op.obj /\ op.kind = "free"
  <2>1. apply_op(m1, op)[o] = FreeSlot /\ apply_op(m2, op)[o] = FreeSlot
    BY <1>10 DEF apply_op, dmu_object_free, Image
  <2> QED
    BY <2>1 DEF SlotOverwritten, SameOrKept
<1> QED
  BY <1>1, <1>4, <1>6, <1>7, <1>8, <1>9, <1>10 DEF OpKind, ZapKind

\* Overwritten once and then once more is overwritten.
LEMMA OverwrittenTwice ==
  ASSUME NEW a1, NEW a2, NEW b1, NEW b2, NEW c1, NEW c2,
         SlotOverwritten(a1, a2, b1, b2), SlotOverwritten(b1, b2, c1, c2)
  PROVE  SlotOverwritten(a1, a2, c1, c2)
<1>1. ASSUME NEW p1, NEW p2, NEW q1, NEW q2, NEW r1, NEW r2,
             SameOrKept(p1, p2, q1, q2), SameOrKept(q1, q2, r1, r2)
      PROVE  SameOrKept(p1, p2, r1, r2)
  BY <1>1, Zenon DEF SameOrKept
<1>2. SameOrKept(a1.type, a2.type, c1.type, c2.type)
  BY <1>1, Zenon DEF SlotOverwritten
<1>3. SameOrKept(a1.io, a2.io, c1.io, c2.io)
  BY <1>1, Zenon DEF SlotOverwritten
<1>4. \A k \in Key : SameOrKept(a1.zap[k], a2.zap[k], c1.zap[k], c2.zap[k])
  BY <1>1, Zenon DEF SlotOverwritten
<1>5. \A f \in Field : SameOrKept(a1.bonus[f], a2.bonus[f], c1.bonus[f], c2.bonus[f])
  BY <1>1, Zenon DEF SlotOverwritten
<1> QED
  BY <1>2, <1>3, <1>4, <1>5, Zenon DEF SlotOverwritten

\* Two objects with the same parts are the same.
LEMMA SlotEqual ==
  ASSUME NEW s1 \in ObjState, NEW s2 \in ObjState, s1.type = s2.type, s1.io = s2.io,
         \A k \in Key : s1.zap[k] = s2.zap[k],
         \A f \in Field : s1.bonus[f] = s2.bonus[f]
  PROVE  s1 = s2
<1>1. s1.zap = s2.zap
  BY DEF ObjState, Zap
<1>2. s1.bonus = s2.bonus
  BY DEF ObjState
<1> QED
  BY <1>1, <1>2 DEF ObjState

\* A plan is idempotent: applied to its own result it changes nothing.  After any
\* number of its operations, a second pass has made a part of an object what the
\* first one made it, or both have left it alone so far.
LEMMA PlanIdempotent ==
  ASSUME NEW plan \in Seq(Op), NEW m \in Image
  PROVE  /\ PlanResult(plan, m) \in Image
         /\ PlanResult(plan, PlanResult(plan, m)) = PlanResult(plan, m)
<1> DEFINE r == PlanResult(plan, m)
           t == PlanTrail(plan, m)
           u == PlanTrail(plan, r)
           Fine(j) == t[j] \in Image
           D == {j \in Nat : j <= Len(plan) /\ ~Fine(j)}
           Both(j) == u[j] \in Image
                        /\ \A o \in Obj : SlotOverwritten(t[j][o], u[j][o], m[o], r[o])
           E == {j \in Nat : j <= Len(plan) /\ ~Both(j)}
<1>1. /\ t[0] = m /\ \A j \in 1 .. Len(plan) : t[j] = apply_op(t[j - 1], plan[j])
      /\ u[0] = r /\ \A j \in 1 .. Len(plan) : u[j] = apply_op(u[j - 1], plan[j])
  BY PlanTrailDef
<1>2. r = t[Len(plan)] /\ PlanResult(plan, r) = u[Len(plan)]
  BY DEF PlanResult
<1>3. Len(plan) \in Nat
  OBVIOUS
<1> HIDE DEF r, t, u
<1>4. D = {}
  <2> SUFFICES ASSUME D # {} PROVE FALSE
    OBVIOUS
  <2>1. PICK j \in D : \A k \in D : ~(k < j)
    BY NatMin
  <2>2. j # 0
    BY <1>1
  <2>3. j \in 1 .. Len(plan) /\ plan[j] \in Op
    BY <2>2
  <2>4. Fine(j - 1)
    BY <2>1, <2>3
  <2> QED
    BY <1>1, <2>3, <2>4, ApplyType
<1>5. r \in Image
  BY <1>2, <1>3, <1>4
<1>6. E = {}
  <2> SUFFICES ASSUME E # {} PROVE FALSE
    OBVIOUS
  <2>1. PICK j \in E : \A k \in E : ~(k < j)
    BY NatMin
  <2>2. j # 0
    <3>1. Both(0)
      BY <1>1, <1>5 DEF SlotOverwritten, SameOrKept
    <3> QED
      BY <3>1
  <2>3. j \in 1 .. Len(plan) /\ plan[j] \in Op /\ j - 1 \in Nat /\ j - 1 <= Len(plan)
    BY <2>2
  <2>4. Both(j - 1)
    BY <2>1, <2>3
  <2>5. t[j - 1] \in Image /\ u[j - 1] \in Image
    BY <1>4, <2>3, <2>4
  <2>6. t[j] = apply_op(t[j - 1], plan[j]) /\ u[j] = apply_op(u[j - 1], plan[j])
    BY <1>1, <2>3
  <2>7. u[j] \in Image
    BY <2>3, <2>5, <2>6, ApplyType
  <2>8. ASSUME NEW o \in Obj
        PROVE  SlotOverwritten(t[j][o], u[j][o], m[o], r[o])
    <3>1. SlotOverwritten(t[j][o], u[j][o], t[j - 1][o], u[j - 1][o])
      BY <2>3, <2>5, <2>6, ApplyOverwrites
    <3>2. SlotOverwritten(t[j - 1][o], u[j - 1][o], m[o], r[o])
      BY <2>4
    <3> QED
      BY <3>1, <3>2, OverwrittenTwice
  <2> QED
    BY <2>7, <2>8
<1>7. Both(Len(plan))
  BY <1>3, <1>6
<1>8. ASSUME NEW o \in Obj
      PROVE  u[Len(plan)][o] = r[o]
  <2>1. SlotOverwritten(r[o], u[Len(plan)][o], m[o], r[o])
    BY <1>2, <1>7
  <2>2. r[o] \in ObjState /\ u[Len(plan)][o] \in ObjState
    BY <1>5, <1>7 DEF Image
  <2> DEFINE s == u[Len(plan)][o]
  <2>3. /\ s.type = r[o].type /\ s.io = r[o].io
        /\ \A k \in Key : s.zap[k] = r[o].zap[k]
        /\ \A f \in Field : s.bonus[f] = r[o].bonus[f]
    BY <2>1 DEF SlotOverwritten, SameOrKept
  <2> HIDE DEF s
  <2> QED
    BY <2>2, <2>3, SlotEqual DEF s
<1>9. u[Len(plan)] = r
  BY <1>5, <1>7, <1>8 DEF Image
<1> QED
  BY <1>2, <1>5, <1>9 DEF r
==============================================================================
