---------------------------- MODULE TriageProofs -----------------------------
(***************************************************************************)
(* Proofs about the scanner and the triage workflow.                       *)
(***************************************************************************)
EXTENDS Triage, RepairOpsProofs, SequenceTheorems

(***************************************************************************)
(* The inductive invariant.  A dump shows something only of an object that *)
(* exists.  A call on the agenda and a line of the plan are grounded in    *)
(* the dumps: what they name, and what the line expects of it, is what the *)
(* dumps show.  And as long as nobody else has changed the pool, the dumps *)
(* of a scan show the pool as it is.                                       *)
(***************************************************************************)
Dump == [fetched : BOOLEAN, exists : BOOLEAN, unreadable : BOOLEAN,
         type : Type \cup {NoType}, ints : [Key -> Word \cup {Missing}],
         scan : Seq(Word)]

DumpOf(o) ==
  {d \in Dump : /\ d.exists => d.fetched /\ o \in Obj /\ d.type \in Type
                /\ ~d.exists => d.ints = NoInts}

NamesIn(o) == {n \in Key : cache[o].ints[n] # Missing}

\* What the dumps taken so far show under one of the names.
RefsBy(fields) ==
  {v \in Word \ {0} : \E p \in Word : \E f \in fields : cache[p].ints[<<f>>] = v}

KnownDir(dir) == readable(dir) /\ get(dir).type \in DirLike
HeadOf(dir) == ref(dir, "head_dataset_obj")

CallGrounded(c) ==
  /\ c.do \in {"errlog_last", "errlog_scrub", "scan"} => readable(MosDir)
  /\ c.do \in {"childmap", "child", "clones"} => c.obj \in RefsBy(MapField)
  /\ c.do = "child" => c.key \in NamesIn(c.obj)
  /\ c.do \in {"dataset", "orphan"} => KnownDir(c.dir) /\ c.obj = HeadOf(c.dir)
  /\ c.do = "orphan" => get(c.obj).exists /\ get(c.obj).unreadable

Calls ==
  {c \in [do : {"run", "errlog_last", "errlog_scrub", "scan", "dir", "childmap",
                "child", "dataset", "clones", "orphan"},
          obj : Word, dir : Word, key : Key \cup {Missing}] : CallGrounded(c)}

ZapSetGrounded(l) ==
  /\ l.obj = MosDir /\ readable(MosDir)
  /\ l.key \in {<<"errlog_last">>, <<"errlog_scrub">>} \cap NamesIn(MosDir)
  /\ l.expect = get(MosDir).ints[l.key] /\ ~l.quoted /\ l.value = 0
ZapZeroGrounded(l) ==
  /\ l.obj = MosDir /\ readable(MosDir) /\ l.key = <<"scan">> /\ ~l.quoted
  /\ l.count = ScanWords /\ Len(get(MosDir).scan) > 1
ZapRemoveGrounded(l) ==
  /\ l.obj \in RefsBy(MapField) /\ l.key \in NamesIn(l.obj)
  /\ l.expect = get(l.obj).ints[l.key] /\ ~l.quoted
BonusSetGrounded(l) ==
  /\ readable(l.obj) /\ <<"num_children">> \in NamesIn(l.obj)
  /\ l.expect = get(l.obj).ints[<<"num_children">>]
Freeable(o) ==
  /\ get(o).exists
  /\ \/ get(o).type \in ErrlogLike
     \/ readable(o) /\ (get(o).type \in DirLike \/ o \in RefsBy(SubtreeField))
FreeGrounded(l) == Freeable(l.obj) /\ l.type = get(l.obj).type

LineGrounded(l) ==
  /\ l.kind = "zap_set" => ZapSetGrounded(l)
  /\ l.kind = "zap_zero" => ZapZeroGrounded(l)
  /\ l.kind = "zap_remove" => ZapRemoveGrounded(l)
  /\ l.kind = "bonus_set" => BonusSetGrounded(l)
  /\ l.kind = "free" => FreeGrounded(l)

PlanLines == {l \in Line : l.kind \in OpKind /\ ~BadLine(l) /\ LineGrounded(l)}

CacheInv == DOMAIN cache = Word /\ \A o \in Word : cache[o] \in DumpOf(o)
AgendaInv == agenda \in Seq(Calls)
OpsInv == ops \in Seq(PlanLines)
CacheTrue ==
  drift = 0 /\ mode # "idle" =>
    \A o \in Obj : get(o).exists => get(o) \in Dumps(pool, o)

TriageInv == /\ pool \in Image /\ CacheInv /\ AgendaInv /\ OpsInv
             /\ drift \in Nat /\ CacheTrue

-----------------------------------------------------------------------------
(***************************************************************************)
(* Sequences                                                               *)
(***************************************************************************)
LEMMA OnlyIsFilter ==
  ASSUME NEW s, NEW set
  PROVE  Only(s, set) = Filter(s, set)
BY DEF Only

\* How Filter() comes by its result, an element at a time.
Unfolds(e, s, set) ==
  /\ Only(s, set) = e[Len(s)] /\ e[0] = <<>>
  /\ \A j \in 1 .. Len(s) :
       e[j] = IF s[j] \in set THEN Append(e[j - 1], s[j]) ELSE e[j - 1]

\* A recursive function over the places of a sequence exists.
LEMMA OnlyUnfolds ==
  ASSUME NEW S, NEW s \in Seq(S), NEW set
  PROVE  \E e : Unfolds(e, s, set)
<1> DEFINE Keep(f, j) == IF s[j] \in set THEN Append(f[j - 1], s[j]) ELSE f[j - 1]
           F(n, f) == f = [j \in 0 .. n |-> IF j = 0 THEN <<>> ELSE Keep(f, j)]
           T == {n \in Nat : ~\E f : F(n, f)}
<1>1. T = {}
  <2> SUFFICES ASSUME T # {} PROVE FALSE
    OBVIOUS
  <2>1. PICK n \in T : \A k \in T : ~(k < n)
    BY NatMin
  <2>2. n # 0
    <3>1. F(0, [j \in 0 .. 0 |-> <<>>])
      OBVIOUS
    <3> QED
      BY <3>1
  <2>3. PICK g : F(n - 1, g)
    <3>1. n - 1 \in Nat /\ n - 1 < n
      BY <2>2
    <3>2. n - 1 \notin T
      BY <2>1, <3>1
    <3> QED
      BY <3>1, <3>2
  <2> DEFINE h == [j \in 0 .. n |-> IF j = n THEN Keep(g, n) ELSE g[j]]
  <2>4. F(n, h)
    <3> SUFFICES ASSUME NEW j \in 0 .. n
                 PROVE  h[j] = IF j = 0 THEN <<>> ELSE Keep(h, j)
      OBVIOUS
    <3>1. g[0] = <<>> /\ \A i \in 1 .. (n - 1) : g[i] = Keep(g, i)
      <4> HIDE DEF Keep
      <4> QED
        BY <2>2, <2>3
    <3>2. \A i \in 0 .. (n - 1) : h[i] = g[i]
      OBVIOUS
    <3>3. h[n] = Keep(g, n)
      OBVIOUS
    <3>4. j # 0 => h[j - 1] = g[j - 1]
      BY <3>2
    <3>5. j # 0 => h[j] = Keep(g, j)
      BY <3>1, <3>2, <3>3
    <3>6. h[0] = <<>>
      BY <2>2, <3>1, <3>2
    <3> HIDE DEF h
    <3> QED
      BY <3>4, <3>5, <3>6
  <2> QED
    BY <2>1, <2>4
<1> DEFINE e == CHOOSE f : F(Len(s), f)
<1>2. F(Len(s), e)
  <2>1. Len(s) \in Nat
    OBVIOUS
  <2>2. \E f : F(Len(s), f)
    BY <1>1, <2>1
  <2> QED
    BY <2>2
<1>3. Filter(s, set) = e[Len(s)]
  BY DEF Filter
<1> HIDE DEF e
<1>4. e[0] = <<>> /\ \A j \in 1 .. Len(s) : e[j] = Keep(e, j)
  <2> HIDE DEF Keep
  <2> QED
    BY <1>2
<1> QED
  BY <1>3, <1>4, OnlyIsFilter DEF Unfolds

\* What is kept of a sequence is a sequence of elements of the set that occur in
\* it, and it is not longer.
LEMMA OnlyType ==
  ASSUME NEW S, NEW s \in Seq(S), NEW set
  PROVE  /\ Only(s, set) \in Seq(S \cap set)
         /\ Len(Only(s, set)) <= Len(s)
<1> PICK e : Unfolds(e, s, set)
  BY OnlyUnfolds
<1>4. e[0] = <<>> /\ \A j \in 1 .. Len(s) :
        e[j] = IF s[j] \in set THEN Append(e[j - 1], s[j]) ELSE e[j - 1]
  BY DEF Unfolds
<1> DEFINE Fine(j) == e[j] \in Seq(S \cap set) /\ Len(e[j]) <= j
           D == {j \in Nat : j <= Len(s) /\ ~Fine(j)}
<1>5. D = {}
  <2> SUFFICES ASSUME D # {} PROVE FALSE
    OBVIOUS
  <2>1. PICK j \in D : \A k \in D : ~(k < j)
    BY NatMin
  <2>2. j # 0
    <3>1. Fine(0)
      BY <1>4
    <3> QED
      BY <3>1
  <2>3. j \in 1 .. Len(s) /\ s[j] \in S
    BY <2>2
  <2>4. Fine(j - 1)
    BY <2>1, <2>3
  <2>5. CASE s[j] \in set
    <3>1. e[j] = Append(e[j - 1], s[j])
      BY <1>4, <2>3, <2>5
    <3>2. e[j] \in Seq(S \cap set) /\ Len(e[j]) = Len(e[j - 1]) + 1
      BY <2>3, <2>4, <2>5, <3>1
    <3> QED
      BY <2>3, <2>4, <3>2
  <2>6. CASE s[j] \notin set
    <3>1. e[j] = e[j - 1]
      BY <1>4, <2>3, <2>6
    <3> QED
      BY <2>3, <2>4, <3>1
  <2> QED
    BY <2>5, <2>6
<1>6. Fine(Len(s))
  <2>1. Len(s) \in Nat /\ Len(s) <= Len(s)
    OBVIOUS
  <2> QED
    BY <1>5, <2>1
<1> QED
  BY <1>6 DEF Unfolds

\* Nothing of the set is left out.
LEMMA OnlyKeeps ==
  ASSUME NEW S, NEW s \in Seq(S), NEW set, NEW i \in 1 .. Len(s), s[i] \in set
  PROVE  s[i] \in ToSet(Only(s, set))
<1> PICK e : Unfolds(e, s, set)
  BY OnlyUnfolds
<1>1. Only(s, set) = e[Len(s)] /\ e[0] = <<>> /\ \A j \in 1 .. Len(s) :
        e[j] = IF s[j] \in set THEN Append(e[j - 1], s[j]) ELSE e[j - 1]
  BY DEF Unfolds
<1> DEFINE Fine(j) == /\ e[j] \in Seq(S)
                      /\ i <= j => \E k \in 1 .. Len(e[j]) : e[j][k] = s[i]
           D == {j \in Nat : j <= Len(s) /\ ~Fine(j)}
<1>2. D = {}
  <2> SUFFICES ASSUME D # {} PROVE FALSE
    OBVIOUS
  <2>1. PICK j \in D : \A k \in D : ~(k < j)
    BY NatMin
  <2>2. j # 0
    <3>1. Fine(0)
      BY <1>1
    <3> QED
      BY <3>1
  <2>3. j \in 1 .. Len(s) /\ s[j] \in S
    BY <2>2
  <2>4. Fine(j - 1)
    BY <2>1, <2>3
  <2>5. CASE s[j] \in set
    <3>1. e[j] = Append(e[j - 1], s[j])
      BY <1>1, <2>3, <2>5
    <3>2. /\ e[j] \in Seq(S) /\ Len(e[j]) = Len(e[j - 1]) + 1
          /\ e[j][Len(e[j])] = s[j]
          /\ \A k \in 1 .. Len(e[j - 1]) : e[j][k] = e[j - 1][k]
      BY <2>3, <2>4, <3>1
    <3>3. ASSUME i <= j PROVE \E k \in 1 .. Len(e[j]) : e[j][k] = s[i]
      <4>1. CASE i = j
        BY <2>4, <3>2, <4>1
      <4>2. CASE i <= j - 1
        BY <2>4, <3>2, <4>2
      <4> QED
        BY <2>3, <3>3, <4>1, <4>2
    <3> QED
      BY <2>3, <3>2, <3>3
  <2>6. CASE s[j] \notin set
    <3>1. e[j] = e[j - 1] /\ i # j
      BY <1>1, <2>3, <2>6
    <3> QED
      BY <2>3, <2>4, <3>1
  <2> QED
    BY <2>5, <2>6
<1>3. Fine(Len(s))
  <2>1. Len(s) \in Nat /\ Len(s) <= Len(s)
    OBVIOUS
  <2> QED
    BY <1>2, <2>1
<1>4. DOMAIN e[Len(s)] = 1 .. Len(e[Len(s)])
  BY <1>3
<1> QED
  BY <1>1, <1>3, <1>4 DEF ToSet

\* The elements of two sequences in a row.
LEMMA ToSetConcat ==
  ASSUME NEW S, NEW s \in Seq(S), NEW t \in Seq(S)
  PROVE  ToSet(s \o t) = ToSet(s) \cup ToSet(t)
<1> DEFINE r == s \o t
<1>1. r \in Seq(S) /\ Len(r) = Len(s) + Len(t)
      /\ \A k \in 1 .. Len(s) + Len(t) : r[k] = IF k <= Len(s) THEN s[k] ELSE t[k - Len(s)]
  BY ConcatProperties, Zenon
<1> HIDE DEF r
<1>2. \A k \in 1 .. Len(t) : k + Len(s) \in 1 .. Len(r) /\ r[k + Len(s)] = t[k]
  BY <1>1
<1>3. \A k \in 1 .. Len(s) : k \in 1 .. Len(r) /\ r[k] = s[k]
  BY <1>1
<1>4. \A k \in 1 .. Len(r) : r[k] \in ToSet(s) \cup ToSet(t)
  <2> SUFFICES ASSUME NEW k \in 1 .. Len(r) PROVE r[k] \in ToSet(s) \cup ToSet(t)
    OBVIOUS
  <2>1. CASE k <= Len(s)
    BY <1>1, <2>1 DEF ToSet
  <2>2. CASE ~(k <= Len(s))
    <3>1. k - Len(s) \in 1 .. Len(t) /\ r[k] = t[k - Len(s)]
      BY <1>1, <2>2
    <3> QED
      BY <3>1 DEF ToSet
  <2> QED
    BY <2>1, <2>2
<1>5. /\ ToSet(r) = {r[k] : k \in 1 .. Len(r)}
      /\ ToSet(s) = {s[k] : k \in 1 .. Len(s)} /\ ToSet(t) = {t[k] : k \in 1 .. Len(t)}
  <2>1. ASSUME NEW q \in Seq(S) PROVE DOMAIN q = 1 .. Len(q)
    BY <2>1
  <2>2. DOMAIN r = 1 .. Len(r) /\ DOMAIN s = 1 .. Len(s) /\ DOMAIN t = 1 .. Len(t)
    BY <1>1, <2>1
  <2> QED
    BY <2>2, Zenon DEF ToSet
<1>6. ToSet(r) \subseteq ToSet(s) \cup ToSet(t)
  <2> SUFFICES ASSUME NEW k \in 1 .. Len(r) PROVE r[k] \in ToSet(s) \cup ToSet(t)
    BY <1>5, Zenon
  <2> QED
    BY <1>4, Zenon
<1>7. ToSet(s) \subseteq ToSet(r)
  <2> SUFFICES ASSUME NEW k \in 1 .. Len(s) PROVE s[k] \in ToSet(r)
    BY <1>5, Zenon
  <2> QED
    BY <1>3, <1>5, Zenon
<1>8. ToSet(t) \subseteq ToSet(r)
  <2> SUFFICES ASSUME NEW k \in 1 .. Len(t) PROVE t[k] \in ToSet(r)
    BY <1>5, Zenon
  <2> QED
    BY <1>2, <1>5, Zenon
<1> QED
  BY <1>6, <1>7, <1>8 DEF r

\* What a dump is asked for is found in the order of sorted().
LEMMA NamesKept ==
  ASSUME NEW set, NEW n \in Key \cap set
  PROVE  n \in ToSet(Only(NameOrder, set))
<1>1. NameOrder \in Seq(Key) /\ ToSet(NameOrder) = Key
  BY ScannerAssumption
<1>2. DOMAIN NameOrder = 1 .. Len(NameOrder)
  BY <1>1
<1>3. PICK i \in 1 .. Len(NameOrder) : NameOrder[i] = n
  BY <1>1, <1>2 DEF ToSet
<1> QED
  BY <1>1, <1>3, OnlyKeeps

\* FlattenSeq() of sequences over a set is a sequence over that set.
LEMMA FlattenType ==
  ASSUME NEW S, NEW q \in Seq(Seq(S))
  PROVE  FlattenSeq(q) \in Seq(S)
<1> SUFFICES ASSUME Len(q) # 0 PROVE FlattenSeq(q) \in Seq(S)
  <2>1. ASSUME Len(q) = 0 PROVE FlattenSeq(q) \in Seq(S)
    <3>1. q = <<>>
      BY <2>1
    <3> QED
      BY <2>1, <3>1 DEF FlattenSeq
  <2> QED
    BY <2>1
<1> DEFINE Glue(f, j) == f[j - 1] \o q[j]
           F(n, f) == f = [j \in 1 .. n |-> IF j = 1 THEN q[j] ELSE Glue(f, j)]
           T == {n \in Nat : ~\E f : F(n, f)}
<1>1. T = {}
  <2> SUFFICES ASSUME T # {} PROVE FALSE
    OBVIOUS
  <2>1. PICK n \in T : \A k \in T : ~(k < n)
    BY NatMin
  <2>2. n # 0
    <3>1. F(0, [j \in 1 .. 0 |-> <<>>])
      OBVIOUS
    <3> QED
      BY <3>1
  <2>3. PICK g : F(n - 1, g)
    <3>1. n - 1 \in Nat /\ n - 1 < n
      BY <2>2
    <3>2. n - 1 \notin T
      BY <2>1, <3>1
    <3> QED
      BY <3>1, <3>2
  <2> DEFINE h == [j \in 1 .. n |-> IF j = 1 THEN q[j] ELSE Glue(g, j)]
  <2>4. F(n, h)
    <3> SUFFICES ASSUME NEW j \in 1 .. n
                 PROVE  h[j] = IF j = 1 THEN q[j] ELSE Glue(h, j)
      OBVIOUS
    <3>1. \A i \in 1 .. (n - 1) : g[i] = IF i = 1 THEN q[i] ELSE Glue(g, i)
      <4> HIDE DEF Glue
      <4> QED
        BY <2>3
    <3>2. \A i \in 1 .. (n - 1) : h[i] = g[i]
      BY <3>1
    <3>3. j # 1 => h[j - 1] = g[j - 1]
      <4> HIDE DEF h
      <4> QED
        BY <3>2
    <3>4. h[j] = IF j = 1 THEN q[j] ELSE Glue(g, j)
      OBVIOUS
    <3> HIDE DEF h
    <3> QED
      BY <3>3, <3>4
  <2> QED
    BY <2>1, <2>4
<1> DEFINE e == CHOOSE f : F(Len(q), f)
<1>2. F(Len(q), e)
  <2>1. Len(q) \in Nat
    OBVIOUS
  <2>2. \E f : F(Len(q), f)
    BY <1>1, <2>1
  <2> QED
    BY <2>2
<1>3. FlattenSeq(q) = e[Len(q)]
  BY DEF FlattenSeq
<1> HIDE DEF e
<1>4. \A j \in 1 .. Len(q) : e[j] = IF j = 1 THEN q[j] ELSE Glue(e, j)
  <2> HIDE DEF Glue
  <2> QED
    BY <1>2
<1> HIDE DEF F
<1> DEFINE D == {j \in Nat : j \in 1 .. Len(q) /\ e[j] \notin Seq(S)}
<1>5. D = {}
  <2> SUFFICES ASSUME D # {} PROVE FALSE
    OBVIOUS
  <2>1. PICK j \in D : \A k \in D : ~(k < j)
    BY NatMin
  <2>2. j \in 1 .. Len(q) /\ q[j] \in Seq(S)
    OBVIOUS
  <2>3. j # 1
    BY <1>4, <2>2
  <2>4. e[j - 1] \in Seq(S)
    BY <2>1, <2>2, <2>3
  <2>5. e[j] = e[j - 1] \o q[j]
    BY <1>4, <2>2, <2>3
  <2>6. e[j] \in Seq(S)
    BY <2>2, <2>4, <2>5, ConcatProperties
  <2> QED
    BY <2>1, <2>6
<1>6. Len(q) \in Nat /\ Len(q) \in 1 .. Len(q)
  OBVIOUS
<1> QED
  BY <1>3, <1>5, <1>6

-----------------------------------------------------------------------------
(***************************************************************************)
(* Dumps                                                                   *)
(***************************************************************************)
LEMMA MissingNoWord == Missing \notin Word /\ 0 \in Word /\ Obj \subseteq Word
BY MosAssumption, PlanFileAssumption DEF Word

LEMMA NoDumpType ==
  ASSUME NEW o
  PROVE  NoDump \in DumpOf(o) /\ Unfetched \in DumpOf(o)
<1>1. NoInts \in [Key -> Word \cup {Missing}] /\ <<>> \in Seq(Word)
  BY DEF NoInts
<1>2. NoDump \in Dump /\ ~NoDump.exists /\ NoDump.ints = NoInts
  BY <1>1 DEF NoDump, Dump
<1>3. Unfetched \in Dump /\ ~Unfetched.exists /\ Unfetched.ints = NoInts
  BY <1>1 DEF NoDump, Unfetched, Dump
<1> QED
  BY <1>2, <1>3 DEF DumpOf

\* Whatever zdb prints of an object, readable or not.
LEMMA DumpsType ==
  ASSUME NEW m \in Image, NEW o \in Obj, NEW d \in Dumps(m, o)
  PROVE  d \in DumpOf(o)
<1>1. CASE ~Exists(m, o)
  BY <1>1, NoDumpType DEF Dumps
<1>2. CASE Exists(m, o)
  <2>1. m[o] \in ObjState /\ m[o].type \in Type
    BY <1>2 DEF Image, ObjState, Exists
  <2>2. BonusFields[m[o].type] \subseteq Field
    BY <2>1, ScannerAssumption
  <2>3. BonusInts(m[o]) \in [Key -> Word \cup {Missing}]
    <3> SUFFICES ASSUME NEW n \in Key, NEW f \in BonusFields[m[o].type], n = <<f>>
                 PROVE  m[o].bonus[n[1]] \in Word
      BY DEF BonusInts
    <3> QED
      BY <2>1, <2>2 DEF ObjState
  <2>4. ZapInts(m[o]) \in [Key -> Word \cup {Missing}]
    <3>1. \A n \in Key : m[o].zap[n] \in Seq(Word)
      BY <2>1 DEF ObjState, Zap
    <3>2. \A n \in Key : Len(m[o].zap[n]) = 1 => m[o].zap[n][1] \in Word
      BY <3>1
    <3> QED
      BY <2>3, <3>2 DEF ZapInts
  <2>5. NoInts \in [Key -> Word \cup {Missing}]
    BY DEF NoInts
  <2>6. m[o].zap[<<"scan">>] \in Seq(Word)
    BY <2>1, ScannerAssumption DEF ObjState, Zap, ReadName
  <2>7. d.fetched /\ d.exists /\ d.type = m[o].type
    BY <1>2 DEF Dumps
  <2>8. d \in Dump
    <3>1. <<>> \in Seq(Word) /\ m[o].type \in Type \cup {NoType}
      BY <2>1
    <3> DEFINE Printed(bad, ints, scan) ==
          [fetched |-> TRUE, exists |-> TRUE, unreadable |-> bad,
           type |-> m[o].type, ints |-> ints, scan |-> scan]
    <3>2. m[o].io => \/ d = Printed(FALSE, ZapInts(m[o]), m[o].zap[<<"scan">>])
                     \/ d = Printed(FALSE, ZapInts(m[o]), <<>>)
      BY <1>2 DEF Dumps
    <3>3. ~m[o].io => \/ d = Printed(TRUE, NoInts, <<>>)
                      \/ d = Printed(TRUE, BonusInts(m[o]), <<>>)
      BY <1>2 DEF Dumps
    <3>4. ASSUME NEW bad \in BOOLEAN, NEW ints \in [Key -> Word \cup {Missing}],
                 NEW scan \in Seq(Word)
          PROVE  Printed(bad, ints, scan) \in Dump
      BY <3>1 DEF Dump
    <3> HIDE DEF Printed
    <3> QED
      BY <2>3, <2>4, <2>5, <2>6, <3>1, <3>2, <3>3, <3>4
  <2> QED
    BY <2>1, <2>7, <2>8 DEF DumpOf
<1> QED
  BY <1>1, <1>2

LEMMA EmptyCacheInv ==
  ASSUME cache = EmptyCache
  PROVE  CacheInv
BY NoDumpType DEF CacheInv, EmptyCache

\* A reference is a word, and a name in a dump shows that the object exists.
LEMMA RefIsWord ==
  ASSUME CacheInv, NEW o \in Word, NEW n \in ReadName
  PROVE  ref(o, n) \in Word /\ <<n>> \in Key /\ (ref(o, n) # 0 => get(o).exists)
<1>1. <<n>> \in Key
  BY ScannerAssumption
<1>2. cache[o].ints \in [Key -> Word \cup {Missing}]
  BY DEF CacheInv, DumpOf, Dump
<1>3. ~cache[o].exists => cache[o].ints[<<n>>] = Missing
  BY <1>1 DEF CacheInv, DumpOf, NoInts
<1> QED
  BY <1>1, <1>2, <1>3, MissingNoWord DEF ref, get

LEMMA NamesInDump ==
  ASSUME CacheInv, NEW o \in Word, NEW n \in NamesIn(o)
  PROVE  n \in Key /\ cache[o].ints[n] \in Word /\ cache[o].exists /\ o \in Obj
<1>1. n \in Key /\ cache[o].ints[n] # Missing
  BY DEF NamesIn
<1>2. cache[o].ints \in [Key -> Word \cup {Missing}]
  BY DEF CacheInv, DumpOf, Dump
<1>3. cache[o].exists
  BY <1>1 DEF CacheInv, DumpOf, NoInts
<1> QED
  BY <1>1, <1>2, <1>3 DEF CacheInv, DumpOf

\* A reference that is not 0 is one that the dumps show.
LEMMA RefShown ==
  ASSUME CacheInv, NEW o \in Word, NEW fields, NEW n \in fields \cap ReadName,
         ref(o, n) # 0
  PROVE  ref(o, n) \in RefsBy(fields) /\ <<n>> \in NamesIn(o)
         /\ ref(o, n) = cache[o].ints[<<n>>]
<1>1. ref(o, n) \in Word /\ <<n>> \in Key
  BY RefIsWord
<1>2. ref(o, n) = cache[o].ints[<<n>>] /\ cache[o].ints[<<n>>] # Missing
  BY DEF ref, get
<1> QED
  BY <1>1, <1>2 DEF RefsBy, NamesIn

\* 0 is no object and has no names.
LEMMA NoNamesOfZero ==
  ASSUME CacheInv
  PROVE  NamesIn(0) = {} /\ ~readable(0) /\ ~get(0).exists
<1>1. 0 \in Word /\ 0 \notin Obj
  BY MissingNoWord, MosAssumption
<1>2. ~cache[0].exists
  BY <1>1 DEF CacheInv, DumpOf
<1>3. NamesIn(0) = {}
  BY <1>1, NamesInDump
<1> QED
  BY <1>2, <1>3 DEF readable, get

-----------------------------------------------------------------------------
(***************************************************************************)
(* The lines of the plan                                                   *)
(***************************************************************************)
LEMMA PlanLineType ==
  ASSUME NEW k \in OpKind, NEW o \in Obj
  PROVE  PlanLine(k, o) \in Line
BY DEF PlanLine, Line, Text

LEMMA ZapSet0Line ==
  ASSUME CacheInv, readable(MosDir), NEW n \in {"errlog_last", "errlog_scrub"},
         ref(MosDir, n) # 0
  PROVE  ZapSet0(n, ref(MosDir, n)) \in PlanLines
<1> DEFINE e == ref(MosDir, n)
           l == ZapSet0(n, e)
<1>1. <<n>> \in Key /\ MosDir \in Obj /\ MosDir \in Word /\ e \in Word
  BY ScannerAssumption, MissingNoWord, RefIsWord DEF ReadName
<1>2. PlanLine("zap_set", MosDir) \in Line
  BY <1>1, PlanLineType DEF OpKind, ZapKind
<1>3. <<n>> \in NamesIn(MosDir) /\ e = get(MosDir).ints[<<n>>]
  BY <1>1, RefShown DEF ReadName, get
<1> HIDE DEF e
<1>4. e \in Int /\ 0 \in Int /\ kv_u64_ok(e) /\ kv_u64_ok(0)
  BY <1>1, MosAssumption, PlanFileAssumption DEF Word, kv_u64_ok
<1>5. l \in Line
  BY <1>1, <1>2, <1>4 DEF ZapSet0, Line, Text
<1>6. /\ l.kind = "zap_set" /\ l.obj = MosDir /\ l.key = <<n>> /\ ~l.quoted
      /\ l.expect = e /\ l.value = 0
  BY DEF ZapSet0, PlanLine
<1>7. ~BadLine(l)
  BY <1>1, <1>4, <1>6, PlanFileAssumption DEF BadLine
<1> HIDE DEF l
<1>8. LineGrounded(l)
  BY <1>3, <1>6 DEF LineGrounded, ZapSetGrounded
<1> QED
  BY <1>5, <1>6, <1>7, <1>8 DEF PlanLines, OpKind, ZapKind, l, e

LEMMA ZapZeroLine ==
  ASSUME readable(MosDir), Scanning
  PROVE  ZapZeroScan \in PlanLines
<1> DEFINE l == ZapZeroScan
<1>1. <<"scan">> \in Key /\ MosDir \in Obj
  BY ScannerAssumption DEF ReadName
<1>2. PlanLine("zap_zero", MosDir) \in Line
  BY <1>1, PlanLineType DEF OpKind, ZapKind
<1>3. ScanWords \in Int /\ kv_u64(ScanWords) \in 1 .. ScanMaxWords
  <2>1. ScanWords \in 1 .. ScanMaxWords /\ ScanWords < WordMod
    BY ScannerAssumption
  <2>2. ScanWords \in Nat /\ WordMod \in Nat \ {0} /\ ScanMaxWords \in Nat
    BY <2>1, MosAssumption, PlanFileAssumption
  <2>3. ScanWords # Missing
    BY <2>2, PlanFileAssumption
  <2>4. ScanWords % WordMod = ScanWords
    BY <2>1, <2>2
  <2> QED
    BY <2>1, <2>2, <2>3, <2>4 DEF kv_u64, kv_u64_ok
<1>4. l \in Line
  BY <1>1, <1>2, <1>3 DEF ZapZeroScan, Line, Text
<1>5. /\ l.kind = "zap_zero" /\ l.obj = MosDir /\ ~l.quoted
      /\ l.key = <<"scan">> /\ l.count = ScanWords
  BY DEF ZapZeroScan, PlanLine
<1>6. ~BadLine(l)
  BY <1>1, <1>3, <1>5, PlanFileAssumption DEF BadLine
<1> HIDE DEF l
<1>7. LineGrounded(l)
  BY <1>5 DEF LineGrounded, ZapZeroGrounded, Scanning
<1> QED
  BY <1>4, <1>5, <1>6, <1>7 DEF PlanLines, OpKind, ZapKind, l

LEMMA ZapRemoveLine ==
  ASSUME CacheInv, NEW o \in RefsBy(MapField), NEW n \in NamesIn(o)
  PROVE  ZapRemove(o, n) \in PlanLines
<1> DEFINE l == ZapRemove(o, n)
<1>1. n \in Key /\ cache[o].ints[n] \in Word /\ o \in Obj
  BY NamesInDump DEF RefsBy
<1>2. PlanLine("zap_remove", o) \in Line
  BY <1>1, PlanLineType DEF OpKind, ZapKind
<1>3. l \in Line
  <2>1. cache[o].ints[n] \in Text
    BY <1>1 DEF Word, Text
  <2> QED
    BY <1>1, <1>2, <2>1 DEF ZapRemove, Line, get
<1>4. /\ l.kind = "zap_remove" /\ l.obj = o /\ l.key = n /\ ~l.quoted
      /\ l.expect = get(o).ints[n]
  BY DEF ZapRemove, PlanLine
<1>5. ~BadLine(l)
  BY <1>1, <1>4, PlanFileAssumption DEF BadLine
<1> HIDE DEF l
<1>6. LineGrounded(l)
  BY <1>4 DEF LineGrounded, ZapRemoveGrounded
<1> QED
  BY <1>3, <1>4, <1>5, <1>6 DEF PlanLines, OpKind, ZapKind, l

LEMMA NumChildrenLine ==
  ASSUME CacheInv, NEW o \in Word, readable(o), NEW k \in Nat, k < WordMod,
         <<"num_children">> \in NamesIn(o)
  PROVE  LET e == get(o).ints[<<"num_children">>]
         IN  NumChildren(o, e, e - k) \in PlanLines
<1> DEFINE e == get(o).ints[<<"num_children">>]
           l == NumChildren(o, e, e - k)
<1>1. e \in Word /\ o \in Obj
  BY NamesInDump DEF get
<1>2. e = get(o).ints[<<"num_children">>]
  OBVIOUS
<1> HIDE DEF e
<1>3. PlanLine("bonus_set", o) \in Line
  BY <1>1, PlanLineType DEF OpKind
<1>4. /\ e \in Int /\ (e - k) \in Int
      /\ kv_u64_ok(e) /\ kv_u64_ok(e - k)
  BY <1>1, MosAssumption, PlanFileAssumption DEF Word, kv_u64_ok
<1>5. l \in Line
  BY <1>3, <1>4 DEF NumChildren, Line, Text
<1>6. /\ l.kind = "bonus_set" /\ l.obj = o /\ l.field = "ds_num_children"
      /\ l.expect = e /\ l.value = e - k
  BY DEF NumChildren, PlanLine
<1>7. ~BadLine(l)
  BY <1>1, <1>4, <1>6, PlanFileAssumption DEF BadLine, ZapKind
<1> HIDE DEF l
<1>8. LineGrounded(l)
  BY <1>2, <1>6 DEF LineGrounded, BonusSetGrounded
<1> QED
  BY <1>5, <1>6, <1>7, <1>8 DEF PlanLines, OpKind, l, e

LEMMA FreeLine ==
  ASSUME CacheInv, NEW o \in Word, Freeable(o)
  PROVE  FreeObj(o) \in PlanLines
<1> DEFINE l == FreeObj(o)
<1>1. o \in Obj /\ cache[o].type \in Type
  BY DEF CacheInv, DumpOf, Freeable, get
<1>2. PlanLine("free", o) \in Line
  BY <1>1, PlanLineType DEF OpKind
<1>3. l \in Line
  BY <1>1, <1>2 DEF FreeObj, Line, get
<1>4. l.kind = "free" /\ l.obj = o /\ l.type = get(o).type
  BY DEF FreeObj, PlanLine
<1>5. ~BadLine(l)
  BY <1>1, <1>4, PlanFileAssumption DEF BadLine, ZapKind, get
<1> HIDE DEF l
<1>6. LineGrounded(l)
  BY <1>4 DEF LineGrounded, FreeGrounded
<1> QED
  BY <1>3, <1>4, <1>5, <1>6 DEF PlanLines, OpKind, l

-----------------------------------------------------------------------------
(***************************************************************************)
(* What the checks read                                                    *)
(***************************************************************************)
LEMMA SeqMono ==
  ASSUME NEW A, NEW B, A \subseteq B, NEW s \in Seq(A)
  PROVE  s \in Seq(B)
OBVIOUS

\* Names taken from a dump are fewer than there are words.
LEMMA NamesType ==
  ASSUME NEW o, NEW set, set \subseteq NamesIn(o)
  PROVE  /\ Only(NameOrder, set) \in Seq(set)
         /\ Only(NameOrder, set) \in Seq(NamesIn(o))
         /\ Len(Only(NameOrder, set)) \in Nat
         /\ Len(Only(NameOrder, set)) < WordMod
<1>1. NameOrder \in Seq(Key) /\ Len(NameOrder) < WordMod /\ WordMod \in Nat
  BY ScannerAssumption, MosAssumption
<1>2. /\ Only(NameOrder, set) \in Seq(Key \cap set)
      /\ Len(Only(NameOrder, set)) <= Len(NameOrder)
  BY <1>1, OnlyType
<1>3. Only(NameOrder, set) \in Seq(set)
  BY <1>2, SeqMono, Key \cap set \subseteq set
<1>4. Only(NameOrder, set) \in Seq(NamesIn(o))
  BY <1>3, SeqMono
<1>5. Len(Only(NameOrder, set)) \in Nat /\ Len(NameOrder) \in Nat
  BY <1>1, <1>3
<1> QED
  BY <1>1, <1>2, <1>3, <1>4, <1>5

LEMMA ValuesType ==
  ASSUME CacheInv, NEW o \in Word, NEW keys \in Seq(NamesIn(o))
  PROVE  values(o, keys) \in Seq(Word)
<1>1. \A j \in DOMAIN keys : cache[o].ints[keys[j]] \in Word
  BY NamesInDump
<1> QED
  BY <1>1 DEF values, get

LEMMA WhenType ==
  ASSUME NEW S, NEW t, NEW s, t => s \in Seq(S)
  PROVE  When(t, s) \in Seq(S)
BY DEF When

LEMMA ErrlogNames ==
  ASSUME CacheInv, NEW head \in Word
  PROVE  /\ ErrlogKeys(head) \in Seq(NamesIn(head))
         /\ PerObjset(head) \in Seq(Word)
<1> DEFINE keys == {n \in Key : get(head).ints[n] # Missing /\ ObjsetOf[n] # 0}
           stale == {n \in Key : /\ get(head).ints[n] # Missing
                                 /\ ObjsetOf[n] # 0 /\ ~readable(ObjsetOf[n])}
<1>1. keys \subseteq NamesIn(head) /\ stale \subseteq NamesIn(head)
  BY DEF NamesIn, get
<1>2. ErrlogKeys(head) = Only(NameOrder, keys) /\ StaleKeys(head) = Only(NameOrder, stale)
  BY DEF ErrlogKeys, StaleKeys, names
<1> HIDE DEF keys, stale
<1>3. ErrlogKeys(head) \in Seq(NamesIn(head)) /\ StaleKeys(head) \in Seq(NamesIn(head))
  BY <1>1, <1>2, NamesType
<1> QED
  BY <1>3, ValuesType DEF PerObjset

LEMMA ErrlogReads ==
  ASSUME CacheInv, NEW n \in {"errlog_last", "errlog_scrub"}
  PROVE  errlog_reads(n) \in Seq(Word)
<1> DEFINE head == ref(MosDir, n)
           objsets == Each(LAMBDA k : ObjsetOf[k], ErrlogKeys(head))
<1>1. MosDir \in Word /\ head \in Word
  BY ScannerAssumption, MissingNoWord, RefIsWord DEF ReadName
<1> HIDE DEF head
<1>2. ErrlogKeys(head) \in Seq(NamesIn(head)) /\ PerObjset(head) \in Seq(Word)
  BY <1>1, ErrlogNames
<1>3. \A k \in NamesIn(head) : ObjsetOf[k] \in Word
  BY MosAssumption, MissingNoWord DEF NamesIn
<1>4. objsets \in Seq(Word)
  BY <1>2, <1>3 DEF Each
<1>5. objsets \o PerObjset(head) \in Seq(Word)
  BY <1>2, <1>4, ConcatProperties
<1>6. <<head>> \in Seq(Word)
  BY <1>1
<1>7. When(IsErrlog(head), objsets \o PerObjset(head)) \in Seq(Word)
  BY <1>5, WhenType
<1> QED
  BY <1>6, <1>7, ConcatProperties DEF errlog_reads, head

LEMMA ClonesReads ==
  ASSUME CacheInv, NEW zap \in Word
  PROVE  clones_reads(zap) \in Seq(Word)
<1> DEFINE all == {n \in Key : get(zap).ints[n] # Missing /\ TRUE}
<1>1. all \subseteq NamesIn(zap)
  BY DEF NamesIn, get
<1>2. names(zap, Every) = Only(NameOrder, all)
  BY DEF names, Every
<1> HIDE DEF all
<1>3. values(zap, names(zap, Every)) \in Seq(Word)
  BY <1>1, <1>2, NamesType, ValuesType
<1>4. <<zap>> \in Seq(Word)
  OBVIOUS
<1>5. When(readable(zap), values(zap, names(zap, Every))) \in Seq(Word)
  BY <1>3, WhenType
<1> QED
  BY <1>4, <1>5, ConcatProperties DEF clones_reads

LEMMA NonzeroType ==
  ASSUME NEW s \in Seq(Word)
  PROVE  Nonzero(s) \in Seq(Word)
<1>1. Only(s, Word \ {0}) \in Seq(Word \cap (Word \ {0}))
  BY OnlyType
<1> QED
  BY <1>1, SeqMono, Word \cap (Word \ {0}) \subseteq Word DEF Nonzero

LEMMA DatasetReads ==
  ASSUME CacheInv, NEW ds \in Word
  PROVE  dataset_reads(ds) \in Seq(Word)
<1> DEFINE nco == ref(ds, "next_clones_obj")
           links == Each(LAMBDA f : ref(ds, f), LinkFields)
<1>1. nco \in Word
  BY RefIsWord DEF ReadName
<1>2. links \in Seq(Word)
  <2>1. \A f \in {"prev_snap_obj", "deadlist_obj", "snapnames_zapobj"} :
          ref(ds, f) \in Word
    BY RefIsWord DEF ReadName
  <2>2. /\ LinkFields \in Seq({"prev_snap_obj", "deadlist_obj", "snapnames_zapobj"})
    BY DEF LinkFields
  <2> QED
    BY <2>1, <2>2 DEF Each
<1> HIDE DEF nco, links
<1>3. When(nco # 0, clones_reads(nco)) \in Seq(Word)
  BY <1>1, ClonesReads, WhenType
<1>4. When(nco # 0, clones_reads(nco)) \o Nonzero(links) \in Seq(Word)
  BY <1>2, <1>3, NonzeroType, ConcatProperties
<1>5. <<ds>> \in Seq(Word)
  OBVIOUS
<1>6. When(readable(ds) /\ get(ds).type \in DatasetLike,
           When(nco # 0, clones_reads(nco)) \o Nonzero(links)) \in Seq(Word)
  BY <1>4, WhenType
<1> QED
  BY <1>5, <1>6, ConcatProperties DEF dataset_reads, nco, links

\* The objects around an orphan are words, whatever is readable of them.
LEMMA OrphanRefs ==
  ASSUME CacheInv, NEW ds \in Word, NEW dir \in Word
  PROVE  /\ ParentMap(dir) \in Word
         /\ Origin(dir) \in Word /\ (Origin(dir) # 0 => Origin(dir) \in Obj)
         /\ OriginClones(dir) \in Word
         /\ OriginDirClones(dir) \in Word
         /\ Subtree(ds, dir) \in Seq(Word)
<1>1. \A o \in Word, n \in ReadName : ref(o, n) \in Word
  BY RefIsWord
<1>2. 0 \in Word
  BY MissingNoWord
<1>3. ParentMap(dir) \in Word
  BY <1>1, <1>2 DEF ParentMap, ReadName
<1>4. Origin(dir) \in Word
  BY <1>1, <1>2 DEF Origin, ReadName
<1>5. Origin(dir) # 0 => Origin(dir) \in Obj
  BY <1>4 DEF Origin, readable, get, CacheInv, DumpOf
<1>6. OriginClones(dir) \in Word
  BY <1>1, <1>4 DEF OriginClones, ReadName
<1>7. OriginDirClones(dir) \in Word
  BY <1>1, <1>2, <1>4 DEF OriginDirClones, ReadName
<1>8. <<dir, ref(dir, "props_zapobj"), ref(dir, "child_dir_zapobj"), ds,
        ref(ds, "snapnames_zapobj"), ref(ds, "deadlist_obj")>> \in Seq(Word)
  <2>1. /\ ref(dir, "props_zapobj") \in Word /\ ref(dir, "child_dir_zapobj") \in Word
        /\ ref(ds, "snapnames_zapobj") \in Word /\ ref(ds, "deadlist_obj") \in Word
    BY <1>1 DEF ReadName
  <2> QED
    BY <2>1
<1>9. Subtree(ds, dir) \in Seq(Word)
  BY <1>8, NonzeroType DEF Subtree
<1> QED
  BY <1>3, <1>4, <1>5, <1>6, <1>7, <1>9

LEMMA OrphanReads ==
  ASSUME CacheInv, NEW ds \in Word, NEW dir \in Word
  PROVE  orphan_reads(ds, dir) \in Seq(Word)
<1> DEFINE around == <<ref(dir, "parent_dir_obj"), ParentMap(dir), ref(dir, "origin_obj"),
                       OriginClones(dir), ref(Origin(dir), "dir_obj"),
                       OriginDirClones(dir)>>
<1>1. around \in Seq(Word)
  <2>1. /\ ref(dir, "parent_dir_obj") \in Word /\ ref(dir, "origin_obj") \in Word
        /\ ref(Origin(dir), "dir_obj") \in Word
    BY RefIsWord, OrphanRefs DEF ReadName
  <2> QED
    BY <2>1, OrphanRefs
<1> HIDE DEF around
<1>2. around \o Subtree(ds, dir) \in Seq(Word)
  BY <1>1, OrphanRefs, ConcatProperties
<1>3. When(readable(dir), around \o Subtree(ds, dir)) \in Seq(Word)
  BY <1>2, WhenType
<1>4. <<dir>> \in Seq(Word)
  OBVIOUS
<1> QED
  BY <1>3, <1>4, ConcatProperties DEF orphan_reads, around

LEMMA ReadsType ==
  ASSUME CacheInv, NEW c \in Calls
  PROVE  Reads(c) \in Seq(Word)
<1>1. c.obj \in Word /\ c.dir \in Word /\ <<c.obj>> \in Seq(Word)
  BY DEF Calls
<1>2. CASE c.do \in {"errlog_last", "errlog_scrub"}
  BY <1>2, ErrlogReads DEF Reads
<1>3. CASE c.do = "scan"
  <2>1. MosDir \in Word /\ 0 \in Word
    BY ScannerAssumption, MissingNoWord
  <2>2. get(MosDir).scan \in Seq(Word)
    BY <2>1 DEF CacheInv, DumpOf, Dump, get
  <2>3. ScanQueue \in Word
    BY <2>1, <2>2 DEF ScanQueue
  <2>4. <<ScanQueue>> \in Seq(Word)
    BY <2>3
  <2>5. When(Scanning, <<ScanQueue>>) \in Seq(Word)
    BY <2>4, WhenType
  <2> QED
    BY <1>3, <2>5 DEF Reads
<1>4. CASE c.do = "dir"
  <2>1. When(c.obj \notin visited, <<c.obj>>) \in Seq(Word)
    BY <1>1, WhenType
  <2> QED
    BY <1>4, <2>1 DEF Reads
<1>5. CASE c.do = "child"
  <2>1. cache[c.obj].ints[c.key] \in Word
    BY <1>1, <1>5, NamesInDump DEF Calls, CallGrounded
  <2>2. <<get(c.obj).ints[c.key]>> \in Seq(Word)
    BY <2>1 DEF get
  <2> QED
    BY <1>5, <2>2 DEF Reads
<1>6. CASE c.do = "dataset"
  BY <1>1, <1>6, DatasetReads DEF Reads
<1>7. CASE c.do = "clones"
  BY <1>1, <1>7, ClonesReads DEF Reads
<1>8. CASE c.do = "orphan"
  BY <1>1, <1>8, OrphanReads DEF Reads
<1>9. CASE c.do \in {"run", "childmap"}
  BY <1>1, <1>9 DEF Reads
<1> QED
  BY <1>2, <1>3, <1>4, <1>5, <1>6, <1>7, <1>8, <1>9 DEF Calls

-----------------------------------------------------------------------------
(***************************************************************************)
(* What the checks yield                                                   *)
(***************************************************************************)
Yields(r) == r.ops \in Seq(PlanLines) /\ r.calls \in Seq(Calls)

LEMMA ResultYields ==
  ASSUME NEW lines \in Seq(PlanLines), NEW finds, NEW calls \in Seq(Calls)
  PROVE  Yields(Result(lines, finds, calls))
BY DEF Yields, Result

LEMMA QuietYields ==
  /\ <<>> \in Seq(PlanLines) /\ <<>> \in Seq(Calls)
  /\ Yields(Quiet)
BY DEF Yields, Result, Quiet

\* Calls other than for a name in a map.
LEMMA CallType ==
  ASSUME NEW d \in {"errlog_last", "errlog_scrub", "scan", "dir", "childmap",
                    "dataset", "clones", "orphan"},
         NEW o \in Word, NEW dir \in Word, CallGrounded(Call(d, o, dir, Missing))
  PROVE  <<Call(d, o, dir, Missing)>> \in Seq(Calls)
<1>1. Call(d, o, dir, Missing) \in Calls
  BY DEF Call, Calls
<1> QED
  BY <1>1

LEMMA ErrlogYields ==
  ASSUME CacheInv, readable(MosDir), NEW n \in {"errlog_last", "errlog_scrub"}
  PROVE  Yields(check_errlog(n))
<1> DEFINE head == ref(MosDir, n)
           logs == Only(PerObjset(head), {o \in Obj : IsErrlog(o)})
           frees == Each(FreeObj, <<head>> \o logs)
<1>1. MosDir \in Word /\ head \in Word
  BY ScannerAssumption, MissingNoWord, RefIsWord DEF ReadName
<1>2. head # 0 => <<ZapSet0(n, head)>> \in Seq(PlanLines)
  BY ZapSet0Line
<1> HIDE DEF head
<1>3. ASSUME IsErrlog(head) PROVE frees \in Seq(PlanLines)
  <2> DEFINE E == {o \in Word : Freeable(o)}
  <2>1. logs \in Seq(Word \cap {o \in Obj : IsErrlog(o)})
    BY <1>1, ErrlogNames, OnlyType
  <2>2. Word \cap {o \in Obj : IsErrlog(o)} \subseteq E
    BY DEF IsErrlog, Freeable
  <2>3. logs \in Seq(E)
    BY <2>1, <2>2, SeqMono
  <2>4. <<head>> \in Seq(E)
    BY <1>1, <1>3 DEF IsErrlog, Freeable
  <2>5. \A o \in E : FreeObj(o) \in PlanLines
    BY FreeLine
  <2> HIDE DEF E, logs
  <2>6. <<head>> \o logs \in Seq(E)
    BY <2>3, <2>4, ConcatProperties
  <2> QED
    BY <2>5, <2>6 DEF Each
<1> HIDE DEF frees
<1>4. head # 0 /\ IsErrlog(head) => <<ZapSet0(n, head)>> \o frees \in Seq(PlanLines)
  BY <1>2, <1>3, ConcatProperties
<1> QED
  BY <1>2, <1>4, QuietYields, ResultYields DEF check_errlog, head, frees

LEMMA ScanYields ==
  ASSUME readable(MosDir)
  PROVE  Yields(check_scan)
<1>1. Scanning => <<ZapZeroScan>> \in Seq(PlanLines)
  BY ZapZeroLine
<1> QED
  BY <1>1, QuietYields, ResultYields DEF check_scan

LEMMA DirYields ==
  ASSUME CacheInv, NEW dir \in Word
  PROVE  Yields(walk_dsl_dir(dir))
<1> DEFINE head == ref(dir, "head_dataset_obj")
           childmap == ref(dir, "child_dir_zapobj")
           clones == ref(dir, "clones")
           a == When(head # 0, <<Call("dataset", head, dir, Missing)>>)
           b == When(childmap # 0, <<Call("childmap", childmap, dir, Missing)>>)
           c == When(clones # 0, <<Call("clones", clones, dir, Missing)>>)
<1> SUFFICES ASSUME KnownDir(dir) PROVE a \o b \o c \in Seq(Calls)
  BY QuietYields, ResultYields DEF walk_dsl_dir, KnownDir
<1>1. head \in Word /\ childmap \in Word /\ clones \in Word
  BY RefIsWord DEF ReadName
<1>2. /\ childmap # 0 => childmap \in RefsBy(MapField)
      /\ clones # 0 => clones \in RefsBy(MapField)
  BY RefShown DEF ReadName, MapField
<1> HIDE DEF head, childmap, clones
<1>3. a \in Seq(Calls)
  <2>1. CallGrounded(Call("dataset", head, dir, Missing))
    BY DEF CallGrounded, Call, HeadOf, head
  <2> QED
    BY <1>1, <2>1, CallType, WhenType
<1>4. b \in Seq(Calls)
  <2>1. childmap # 0 => CallGrounded(Call("childmap", childmap, dir, Missing))
    BY <1>2 DEF CallGrounded, Call
  <2> QED
    BY <1>1, <2>1, CallType, WhenType
<1>5. c \in Seq(Calls)
  <2>1. clones # 0 => CallGrounded(Call("clones", clones, dir, Missing))
    BY <1>2 DEF CallGrounded, Call
  <2> QED
    BY <1>1, <2>1, CallType, WhenType
<1> HIDE DEF a, b, c
<1>6. a \o b \in Seq(Calls)
  BY <1>3, <1>4, ConcatProperties
<1> QED
  BY <1>5, <1>6, ConcatProperties

LEMMA ChildmapYields ==
  ASSUME CacheInv, NEW zap \in RefsBy(MapField)
  PROVE  Yields(check_childmap(zap))
<1> DEFINE set == {n \in Key : get(zap).ints[n] # Missing /\ n \notin SpecialName}
           calls == Each(LAMBDA n : Call("child", zap, 0, n), Only(NameOrder, set))
<1>1. set \subseteq NamesIn(zap)
  BY DEF NamesIn, get
<1>2. check_childmap(zap) = IF ~readable(zap)
                            THEN Result(<<>>, found("CRITICAL", zap), <<>>)
                            ELSE Result(<<>>, {}, calls)
  BY DEF check_childmap, names
<1> HIDE DEF set
<1>3. ASSUME NEW n \in NamesIn(zap) PROVE Call("child", zap, 0, n) \in Calls
  <2>1. zap \in Word /\ 0 \in Word /\ n \in Key
    BY MissingNoWord DEF RefsBy, NamesIn
  <2>2. CallGrounded(Call("child", zap, 0, n))
    BY DEF CallGrounded, Call
  <2> QED
    BY <2>1, <2>2 DEF Call, Calls
<1>4. Only(NameOrder, set) \in Seq(NamesIn(zap))
  BY <1>1, NamesType
<1>5. calls \in Seq(Calls)
  BY <1>3, <1>4 DEF Each
<1> HIDE DEF calls
<1> QED
  BY <1>2, <1>5, QuietYields, ResultYields

LEMMA ChildYields ==
  ASSUME CacheInv, NEW zap \in RefsBy(MapField), NEW n \in NamesIn(zap)
  PROVE  Yields(check_child(zap, n))
<1> DEFINE child == get(zap).ints[n]
<1>1. child \in Word
  BY NamesInDump DEF get, RefsBy
<1>2. <<ZapRemove(zap, n)>> \in Seq(PlanLines)
  BY ZapRemoveLine
<1>3. <<Call("dir", child, 0, Missing)>> \in Seq(Calls)
  <2>1. CallGrounded(Call("dir", child, 0, Missing))
    BY DEF CallGrounded, Call
  <2> QED
    BY <1>1, <2>1, CallType, MissingNoWord
<1> QED
  BY <1>2, <1>3, QuietYields, ResultYields DEF check_child

\* One zap_remove per dangling clone, fewer than there are words.
LEMMA ClonesYields ==
  ASSUME CacheInv, NEW zap \in RefsBy(MapField)
  PROVE  /\ Yields(check_clones_zap(zap))
         /\ Len(check_clones_zap(zap).ops) \in Nat
         /\ Len(check_clones_zap(zap).ops) < WordMod
<1> DEFINE set == {n \in Key : /\ get(zap).ints[n] # Missing
                               /\ ~(/\ readable(get(zap).ints[n])
                                    /\ get(get(zap).ints[n]).type \in DatasetLike)}
           d == DanglingClones(zap)
           lines == Each(LAMBDA n : ZapRemove(zap, n), d)
<1>1. set \subseteq NamesIn(zap)
  BY DEF NamesIn, get
<1>2. d = IF ~readable(zap) THEN <<>> ELSE Only(NameOrder, set)
  BY DEF DanglingClones, names
<1> HIDE DEF set, d
<1>3. d \in Seq(NamesIn(zap)) /\ Len(d) \in Nat /\ Len(d) < WordMod
  BY <1>1, <1>2, NamesType, MosAssumption
<1>4. \A n \in NamesIn(zap) : ZapRemove(zap, n) \in PlanLines
  BY ZapRemoveLine
<1>5. lines \in Seq(PlanLines) /\ Len(lines) = Len(d)
  BY <1>3, <1>4 DEF Each
<1> HIDE DEF lines
<1>6. check_clones_zap(zap).ops = lines /\ check_clones_zap(zap).calls = <<>>
  BY DEF check_clones_zap, Result, lines, d
<1> QED
  BY <1>3, <1>5, <1>6, QuietYields DEF Yields

LEMMA DatasetYields ==
  ASSUME CacheInv, NEW ds \in Word, NEW dir \in Word, KnownDir(dir), ds = HeadOf(dir)
  PROVE  Yields(check_dataset(ds, dir))
<1> DEFINE nco == ref(ds, "next_clones_obj")
           clones == IF nco = 0 THEN Quiet ELSE check_clones_zap(nco)
           k == Len(clones.ops)
           nc == get(ds).ints[<<"num_children">>]
           count == When(k # 0 /\ nc # Missing, <<NumChildren(ds, nc, nc - k)>>)
<1>1. /\ nco \in Word /\ <<"num_children">> \in Key
      /\ nco # 0 => nco \in RefsBy(MapField)
  BY RefIsWord, RefShown DEF ReadName, MapField
<1> HIDE DEF nco
<1>2. clones.ops \in Seq(PlanLines) /\ k \in Nat /\ k < WordMod
  <2>1. CASE nco = 0
    BY <2>1, QuietYields, MosAssumption DEF Quiet, Result
  <2>2. CASE nco # 0
    BY <1>1, <2>2, ClonesYields DEF Yields
  <2> QED
    BY <2>1, <2>2
<1> HIDE DEF clones
<1>3. nc # Missing => <<"num_children">> \in NamesIn(ds)
  BY <1>1 DEF NamesIn, get
<1>4. readable(ds) => count \in Seq(PlanLines)
  <2> HIDE DEF k
  <2>1. readable(ds) /\ nc # Missing => NumChildren(ds, nc, nc - k) \in PlanLines
    BY <1>2, <1>3, NumChildrenLine
  <2>2. readable(ds) /\ nc # Missing => <<NumChildren(ds, nc, nc - k)>> \in Seq(PlanLines)
    BY <2>1
  <2> QED
    BY <2>2, WhenType
<1>5. readable(ds) => clones.ops \o count \in Seq(PlanLines)
  <2> HIDE DEF count
  <2> QED
    BY <1>2, <1>4, ConcatProperties
<1>6. ASSUME get(ds).exists, get(ds).unreadable
      PROVE  <<Call("orphan", ds, dir, Missing)>> \in Seq(Calls)
  <2>1. CallGrounded(Call("orphan", ds, dir, Missing))
    BY <1>6 DEF CallGrounded, Call
  <2> QED
    BY <2>1, CallType
<1> QED
  BY <1>5, <1>6, QuietYields, ResultYields DEF check_dataset, readable, nco, clones

\* The ZAP is one that a map field names, or 0, which has no entries.
LEMMA DropYields ==
  ASSUME CacheInv, NEW zap \in RefsBy(MapField) \cup {0}, NEW target
  PROVE  /\ DropFrom(zap, target) \in Seq(PlanLines)
         /\ NamesOf(zap, target) \in Seq(NamesIn(zap))
<1> DEFINE set == {n \in Key : get(zap).ints[n] # Missing /\ get(zap).ints[n] = target}
<1>1. set \subseteq NamesIn(zap)
  BY DEF NamesIn, get
<1>2. NamesOf(zap, target) = Only(NameOrder, set)
  BY DEF NamesOf, names
<1> HIDE DEF set
<1>3. NamesOf(zap, target) \in Seq(NamesIn(zap))
  BY <1>1, <1>2, NamesType
<1>4. \A n \in NamesIn(zap) : ZapRemove(zap, n) \in PlanLines
  BY ZapRemoveLine, NoNamesOfZero
<1> QED
  BY <1>3, <1>4 DEF DropFrom, Each

\* The maps around an orphan are ones that map fields name.
LEMMA OrphanMaps ==
  ASSUME CacheInv, NEW dir \in Word
  PROVE  /\ ParentMap(dir) \in RefsBy(MapField) \cup {0}
         /\ OriginClones(dir) \in RefsBy(MapField) \cup {0}
         /\ OriginDirClones(dir) \in RefsBy(MapField) \cup {0}
<1>1. \A o \in Word, n \in MapField : ref(o, n) \in RefsBy(MapField) \cup {0}
  BY RefShown DEF MapField, ReadName
<1>2. \A o \in Word, n \in ReadName : ref(o, n) \in Word
  BY RefIsWord
<1>3. Origin(dir) \in Word
  BY OrphanRefs
<1> QED
  BY <1>1, <1>2, <1>3
  DEF ParentMap, OriginClones, OriginDirClones, MapField, ReadName

LEMMA UncloneYields ==
  ASSUME CacheInv, NEW dir \in Word, NEW n \in NamesIn(OriginClones(dir))
  PROVE  Unclone(dir, n) \in Seq(PlanLines)
<1> DEFINE o == Origin(dir)
           nc == get(o).ints[<<"num_children">>]
<1>1. /\ o \in Word /\ <<"num_children">> \in Key
      /\ OriginClones(dir) \in RefsBy(MapField)
  BY OrphanRefs, OrphanMaps, NoNamesOfZero, RefIsWord DEF ReadName
<1>2. <<ZapRemove(OriginClones(dir), n)>> \in Seq(PlanLines)
  BY <1>1, ZapRemoveLine
<1>3. nc # Missing => <<"num_children">> \in NamesIn(o) /\ readable(o)
  <2>1. nc # Missing => <<"num_children">> \in NamesIn(o)
    BY <1>1 DEF NamesIn, get
  <2>2. nc # Missing => o # 0
    BY <2>1, NoNamesOfZero
  <2> QED
    BY <2>1, <2>2 DEF Origin
<1>4. 1 \in Nat /\ 1 < WordMod
  BY MosAssumption
<1>5. nc # Missing => NumChildren(o, nc, nc - 1) \in PlanLines
  BY <1>1, <1>3, <1>4, NumChildrenLine
<1> HIDE DEF o, nc
<1>6. When(nc # Missing, <<NumChildren(o, nc, nc - 1)>>) \in Seq(PlanLines)
  <2>1. nc # Missing => <<NumChildren(o, nc, nc - 1)>> \in Seq(PlanLines)
    BY <1>5
  <2> QED
    BY <2>1, WhenType
<1> QED
  BY <1>2, <1>6, ConcatProperties DEF Unclone, o, nc

\* What is freed of an orphan is its directory or what a field of the subtree
\* names; the dataset itself cannot be read, and stays.
LEMMA OrphanFrees ==
  ASSUME CacheInv, NEW ds \in Word, NEW dir \in Word, KnownDir(dir),
         get(ds).exists, get(ds).unreadable
  PROVE  Only(Subtree(ds, dir), {o \in Obj : Removable(o)})
           \in Seq({o \in Word : Freeable(o)})
<1> DEFINE S == {o \in Word : o = dir \/ o = ds \/ o = 0 \/ o \in RefsBy(SubtreeField)}
           F == {o \in Word : Freeable(o)}
           t == <<dir, ref(dir, "props_zapobj"), ref(dir, "child_dir_zapobj"), ds,
                  ref(ds, "snapnames_zapobj"), ref(ds, "deadlist_obj")>>
           R == {o \in Obj : Removable(o)}
<1>1. ASSUME NEW o \in Word, NEW n \in SubtreeField PROVE ref(o, n) \in S
  <2>1. n \in ReadName
    BY DEF SubtreeField, ReadName
  <2>2. ref(o, n) \in Word
    BY <2>1, RefIsWord
  <2>3. ref(o, n) # 0 => ref(o, n) \in RefsBy(SubtreeField)
    BY <2>1, RefShown
  <2> QED
    BY <2>2, <2>3
<1>2. t \in Seq(S)
  <2>1. dir \in S /\ ds \in S
    OBVIOUS
  <2> HIDE DEF S
  <2>2. /\ ref(dir, "props_zapobj") \in S /\ ref(dir, "child_dir_zapobj") \in S
        /\ ref(ds, "snapnames_zapobj") \in S /\ ref(ds, "deadlist_obj") \in S
    BY <1>1 DEF SubtreeField
  <2> QED
    BY <2>1, <2>2
<1>3. S \cap R \subseteq F
  <2> SUFFICES ASSUME NEW o \in S, Removable(o) PROVE Freeable(o)
    OBVIOUS
  <2>1. o # 0 /\ o # ds
    BY NoNamesOfZero DEF Removable
  <2> QED
    BY <2>1 DEF Freeable, Removable, readable, KnownDir
<1> HIDE DEF S, R, F, t
<1>4. Subtree(ds, dir) \in Seq(S)
  <2>1. Only(t, Word \ {0}) \in Seq(S \cap (Word \ {0}))
    BY <1>2, OnlyType
  <2> QED
    BY <2>1, SeqMono, S \cap (Word \ {0}) \subseteq S DEF Subtree, Nonzero, t
<1>5. Only(Subtree(ds, dir), R) \in Seq(S \cap R)
  BY <1>4, OnlyType
<1>6. Only(Subtree(ds, dir), R) \in Seq(F)
  BY <1>3, <1>5, SeqMono
<1> QED
  BY <1>6 DEF R, F

LEMMA OrphanYields ==
  ASSUME CacheInv, NEW ds \in Word, NEW dir \in Word, KnownDir(dir),
         get(ds).exists, get(ds).unreadable
  PROVE  Yields(plan_orphan_removal(ds, dir))
<1> DEFINE parent == DropFrom(ParentMap(dir), dir)
           unclone == Each(LAMBDA n : Unclone(dir, n), NamesOf(OriginClones(dir), ds))
           clones == DropFrom(OriginDirClones(dir), ds)
           kept == Only(Subtree(ds, dir), {o \in Obj : Removable(o)})
           frees == Each(FreeObj, kept)
<1>1. /\ ParentMap(dir) \in RefsBy(MapField) \cup {0}
      /\ OriginClones(dir) \in RefsBy(MapField) \cup {0}
      /\ OriginDirClones(dir) \in RefsBy(MapField) \cup {0}
  BY OrphanMaps
<1>2. parent \in Seq(PlanLines) /\ clones \in Seq(PlanLines)
  BY <1>1, DropYields
<1>3. FlattenSeq(unclone) \in Seq(PlanLines)
  <2>1. NamesOf(OriginClones(dir), ds) \in Seq(NamesIn(OriginClones(dir)))
    BY <1>1, DropYields
  <2>2. unclone \in Seq(Seq(PlanLines))
    BY <2>1, UncloneYields DEF Each
  <2> QED
    BY <2>2, FlattenType
<1>4. frees \in Seq(PlanLines)
  <2> DEFINE E == {o \in Word : Freeable(o)}
  <2>1. kept \in Seq(E)
    BY OrphanFrees, Zenon
  <2>2. \A o \in E : FreeObj(o) \in PlanLines
    BY FreeLine
  <2> HIDE DEF kept, E
  <2> QED
    BY <2>1, <2>2 DEF Each
<1> HIDE DEF parent, unclone, clones, frees
<1>5. parent \o FlattenSeq(unclone) \in Seq(PlanLines)
  BY <1>2, <1>3, ConcatProperties
<1>6. parent \o FlattenSeq(unclone) \o clones \in Seq(PlanLines)
  BY <1>2, <1>5, ConcatProperties
<1>7. parent \o FlattenSeq(unclone) \o clones \o frees \in Seq(PlanLines)
  BY <1>4, <1>6, ConcatProperties
<1> QED
  BY <1>7, QuietYields, ResultYields
  DEF plan_orphan_removal, parent, unclone, clones, frees

LEMMA RunYields ==
  ASSUME CacheInv
  PROVE  Yields(run)
<1> DEFINE root == ref(MosDir, "root_dataset")
           first == <<Call("errlog_last", MosDir, 0, Missing),
                      Call("errlog_scrub", MosDir, 0, Missing),
                      Call("scan", MosDir, 0, Missing)>>
           last == When(root # 0, <<Call("dir", root, 0, Missing)>>)
<1>1. MosDir \in Word /\ 0 \in Word
  BY ScannerAssumption, MissingNoWord
<1>2. root \in Word
  BY <1>1, RefIsWord DEF ReadName
<1>3. readable(MosDir) => first \in Seq(Calls)
  <2>1. readable(MosDir) => \A d \in {"errlog_last", "errlog_scrub", "scan"} :
          Call(d, MosDir, 0, Missing) \in Calls
    BY <1>1 DEF Call, Calls, CallGrounded
  <2> QED
    BY <2>1
<1> HIDE DEF root, first
<1>4. last \in Seq(Calls)
  <2>1. CallGrounded(Call("dir", root, 0, Missing))
    BY DEF CallGrounded, Call
  <2> QED
    BY <1>1, <1>2, <2>1, CallType, WhenType
<1> HIDE DEF last
<1>5. readable(MosDir) => first \o last \in Seq(Calls)
  BY <1>3, <1>4, ConcatProperties
<1> QED
  BY <1>5, QuietYields, ResultYields DEF run, root, first, last

LEMMA OutcomeYields ==
  ASSUME CacheInv, NEW c \in Calls
  PROVE  Yields(Outcome(c))
<1>1. c.obj \in Word /\ c.dir \in Word /\ CallGrounded(c)
  BY DEF Calls
<1>2. CASE c.do \in {"errlog_last", "errlog_scrub"}
  <2>1. readable(MosDir)
    BY <1>1, <1>2 DEF CallGrounded
  <2> QED
    BY <1>2, <2>1, ErrlogYields DEF Outcome
<1>3. CASE c.do = "run"
  BY <1>3, RunYields DEF Outcome
<1>4. CASE c.do = "scan"
  <2>1. readable(MosDir)
    BY <1>1, <1>4 DEF CallGrounded
  <2> QED
    BY <1>4, <2>1, ScanYields DEF Outcome
<1>5. CASE c.do = "dir"
  BY <1>1, <1>5, DirYields DEF Outcome
<1>6. CASE c.do \in {"childmap", "child", "clones"}
  <2>1. c.obj \in RefsBy(MapField) /\ (c.do = "child" => c.key \in NamesIn(c.obj))
    BY <1>1, <1>6 DEF CallGrounded
  <2>2. CASE c.do = "childmap"
    BY <2>1, <2>2, ChildmapYields DEF Outcome
  <2>3. CASE c.do = "child"
    BY <2>1, <2>3, ChildYields DEF Outcome
  <2>4. CASE c.do = "clones"
    BY <2>1, <2>4, ClonesYields DEF Outcome
  <2> QED
    BY <1>6, <2>2, <2>3, <2>4
<1>7. CASE c.do = "dataset"
  <2>1. KnownDir(c.dir) /\ c.obj = HeadOf(c.dir)
    BY <1>1, <1>7 DEF CallGrounded
  <2> QED
    BY <1>1, <1>7, <2>1, DatasetYields DEF Outcome
<1>8. CASE c.do = "orphan"
  <2>1. KnownDir(c.dir) /\ get(c.obj).exists /\ get(c.obj).unreadable
    BY <1>1, <1>8 DEF CallGrounded
  <2> QED
    BY <1>1, <1>8, <2>1, OrphanYields DEF Outcome
<1> QED
  BY <1>2, <1>3, <1>4, <1>5, <1>6, <1>7, <1>8 DEF Calls

-----------------------------------------------------------------------------
(***************************************************************************)
(* Plans as a whole                                                        *)
(***************************************************************************)
\* dedupe_ops() drops lines and makes none.
LEMMA DedupeType ==
  ASSUME NEW S, NEW lines \in Seq(S)
  PROVE  dedupe_ops(lines) \in Seq(S)
<1> DEFINE all == [j \in DOMAIN lines |-> j]
           set == {j \in DOMAIN lines : \A k \in 1 .. (j - 1) : lines[k] # lines[j]}
<1>1. all \in Seq(DOMAIN lines)
  OBVIOUS
<1>2. dedupe_ops(lines) = Each(LAMBDA j : lines[j], Only(all, set))
  BY DEF dedupe_ops
<1> HIDE DEF all, set
<1>3. Only(all, set) \in Seq(DOMAIN lines \cap set)
  BY <1>1, OnlyType
<1>4. \A j \in DOMAIN lines \cap set : lines[j] \in S
  OBVIOUS
<1> QED
  BY <1>2, <1>3, <1>4 DEF Each

\* The lines of the scanner, parsed, are a plan of the surgeon.
LEMMA PlanType ==
  ASSUME OpsInv
  PROVE  /\ Plan \in Seq(Op) /\ Len(Plan) = Len(ops)
         /\ \A j \in 1 .. Len(ops) :
              /\ Plan[j] = ParseOp(ops[j])
              /\ ops[j] \in PlanLines
<1>1. ops \in Seq(PlanLines) /\ DOMAIN ops = 1 .. Len(ops) /\ Len(ops) \in Nat
  BY DEF OpsInv
<1>2. \A l \in PlanLines : ParseOp(l) \in Op
  BY ParseOpType DEF PlanLines, OpKind, ZapKind, Ignored
<1>3. \A j \in 1 .. Len(ops) : ops[j] \in PlanLines
  BY <1>1
<1> QED
  BY <1>1, <1>2, <1>3 DEF Plan

\* Along a plan the image stays well formed, and an object loses its type only
\* by an operation that frees it; it never gets another one.
LEMMA TrailFrame ==
  ASSUME NEW plan \in Seq(Op), NEW m \in Image
  PROVE  /\ PlanResult(plan, m) \in Image
         /\ \A o \in Obj : PlanResult(plan, m)[o].type # m[o].type =>
              /\ PlanResult(plan, m)[o].type = NoType
              /\ \E k \in 1 .. Len(plan) : plan[k].kind = "free" /\ plan[k].obj = o
<1> DEFINE t == PlanTrail(plan, m)
           Fine(j) ==
             /\ t[j] \in Image
             /\ \A o \in Obj : t[j][o].type # m[o].type =>
                  /\ t[j][o].type = NoType
                  /\ \E k \in 1 .. Len(plan) : plan[k].kind = "free" /\ plan[k].obj = o
           D == {j \in Nat : j <= Len(plan) /\ ~Fine(j)}
<1>1. /\ t[0] = m
      /\ \A j \in 1 .. Len(plan) : t[j] = apply_op(t[j - 1], plan[j])
  BY PlanTrailDef
<1> HIDE DEF t
<1>2. D = {}
  <2> SUFFICES ASSUME D # {} PROVE FALSE
    OBVIOUS
  <2>1. PICK j \in D : \A k \in D : ~(k < j)
    BY NatMin
  <2>2. j # 0
    <3>1. Fine(0)
      BY <1>1
    <3> QED
      BY <3>1
  <2>3. j \in 1 .. Len(plan) /\ plan[j] \in Op
    BY <2>2
  <2>4. Fine(j - 1)
    BY <2>1, <2>3
  <2>5. t[j] = apply_op(t[j - 1], plan[j])
    BY <1>1, <2>3
  <2>6. t[j] \in Image
    BY <2>3, <2>4, <2>5, ApplyType
  <2>7. ASSUME NEW o \in Obj, t[j][o].type # m[o].type
        PROVE  /\ t[j][o].type = NoType
               /\ \E k \in 1 .. Len(plan) : plan[k].kind = "free" /\ plan[k].obj = o
    <3>1. CASE t[j][o].type = t[j - 1][o].type
      BY <2>4, <2>7, <3>1
    <3>2. CASE t[j][o].type # t[j - 1][o].type
      <4>1. plan[j].kind = "free" /\ plan[j].obj = o /\ t[j][o].type = NoType
        BY <2>3, <2>4, <2>5, <3>2, ApplyFrame
      <4> QED
        BY <2>3, <4>1
    <3> QED
      BY <3>1, <3>2
  <2> QED
    BY <2>6, <2>7
<1>3. Fine(Len(plan))
  <2>1. Len(plan) \in Nat /\ Len(plan) <= Len(plan)
    OBVIOUS
  <2> QED
    BY <1>2, <2>1
<1> QED
  BY <1>3 DEF PlanResult, t

-----------------------------------------------------------------------------
(***************************************************************************)
(* The invariant                                                           *)
(***************************************************************************)
\* Calls and lines depend on the dumps alone.
LEMMA SameCache ==
  ASSUME cache' = cache
  PROVE  (CacheInv <=> CacheInv') /\ Calls' = Calls /\ PlanLines' = PlanLines
<1>1. \A fields : RefsBy(fields)' = RefsBy(fields)
  BY DEF RefsBy
<1>2. \A o : NamesIn(o)' = NamesIn(o) /\ readable(o)' = readable(o) /\ get(o)' = get(o)
  BY DEF NamesIn, readable, get
<1>3. CacheInv <=> CacheInv'
  BY DEF CacheInv
<1>4. Calls' = Calls
  BY <1>1, <1>2 DEF Calls, CallGrounded, KnownDir, HeadOf, ref
<1>5. PlanLines' = PlanLines
  BY <1>1, <1>2
  DEF PlanLines, LineGrounded, ZapSetGrounded, ZapZeroGrounded, ZapRemoveGrounded,
      BonusSetGrounded, FreeGrounded, Freeable
<1> QED
  BY <1>3, <1>4, <1>5

\* A dump is taken once per scan: what was seen stays seen.
LEMMA FetchKeeps ==
  ASSUME CacheInv, NEW o \in Obj, ~cache[o].fetched, NEW d \in DumpOf(o),
         cache' = [cache EXCEPT ![o] = d]
  PROVE  CacheInv' /\ Calls \subseteq Calls' /\ PlanLines \subseteq PlanLines'
<1>1. o \in Word /\ MosDir \in Word
  BY MissingNoWord, ScannerAssumption
<1>2. CacheInv'
  <2>1. DOMAIN cache' = Word
    BY DEF CacheInv
  <2>2. ASSUME NEW p \in Word PROVE cache'[p] \in DumpOf(p)
    BY <1>1 DEF CacheInv
  <2> QED
    BY <2>1, <2>2 DEF CacheInv
<1>3. ~cache[o].exists /\ cache[o].ints = NoInts
  BY <1>1 DEF CacheInv, DumpOf
<1>4. \A p \in Word : p # o => cache'[p] = cache[p]
  BY DEF CacheInv
<1>5. \A p \in Word : NamesIn(p) \subseteq NamesIn(p)'
  BY <1>3, <1>4 DEF NamesIn, NoInts
<1>6. ASSUME NEW p \in Word, get(p).exists
      PROVE  get(p)' = get(p) /\ (readable(p) => readable(p)')
  BY <1>3, <1>4, <1>6 DEF get, readable
<1>7. ASSUME NEW p \in Word, NEW n \in NamesIn(p)
      PROVE  get(p).exists /\ n \in NamesIn(p)' /\ get(p)'.ints[n] = get(p).ints[n]
  BY <1>5, <1>6, <1>7, NamesInDump DEF get
<1>8. ASSUME NEW fields, fields \subseteq ReadName
      PROVE  RefsBy(fields) \subseteq RefsBy(fields)'
  <2> SUFFICES ASSUME NEW v \in RefsBy(fields) PROVE v \in RefsBy(fields)'
    OBVIOUS
  <2>1. v \in Word \ {0} /\ v # Missing
    BY MissingNoWord DEF RefsBy
  <2>2. PICK p \in Word : \E f \in fields : cache[p].ints[<<f>>] = v
    BY DEF RefsBy
  <2>3. PICK f \in fields : cache[p].ints[<<f>>] = v
    BY <2>2
  <2>4. <<f>> \in NamesIn(p)
    BY <1>8, <2>1, <2>3, ScannerAssumption DEF NamesIn
  <2>5. cache'[p].ints[<<f>>] = v
    BY <1>7, <2>3, <2>4 DEF get
  <2> QED
    BY <2>1, <2>5 DEF RefsBy
<1>9. RefsBy(MapField) \subseteq RefsBy(MapField)'
  BY <1>8 DEF MapField, ReadName
<1>10. RefsBy(SubtreeField) \subseteq RefsBy(SubtreeField)'
  BY <1>8 DEF SubtreeField, ReadName
<1>11. Calls \subseteq Calls'
  <2> SUFFICES ASSUME NEW c \in Calls PROVE CallGrounded(c)'
    BY DEF Calls
  <2>1. c.obj \in Word /\ c.dir \in Word /\ CallGrounded(c)
    BY DEF Calls
  <2>2. \A p \in Word : readable(p) => readable(p)' /\ get(p)' = get(p)
    BY <1>6 DEF readable
  <2> QED
    BY <1>1, <1>5, <1>6, <1>9, <2>1, <2>2 DEF CallGrounded, KnownDir, HeadOf, ref
<1>12. PlanLines \subseteq PlanLines'
  <2> SUFFICES ASSUME NEW l \in PlanLines PROVE LineGrounded(l)'
    BY DEF PlanLines
  <2>1. l \in Line /\ ~BadLine(l) /\ LineGrounded(l)
    BY DEF PlanLines
  <2>2. l.obj \in Obj /\ l.obj \in Word
    BY <2>1, MissingNoWord DEF Line, BadLine
  <2>3. \A p \in Word : readable(p) => readable(p)' /\ get(p)' = get(p)
    BY <1>6 DEF readable
  <2>4. l.kind = "zap_set" => ZapSetGrounded(l)'
    BY <1>1, <1>5, <2>1, <2>3 DEF LineGrounded, ZapSetGrounded
  <2>5. l.kind = "zap_zero" => ZapZeroGrounded(l)'
    BY <1>1, <2>1, <2>3 DEF LineGrounded, ZapZeroGrounded
  <2>6. l.kind = "zap_remove" => ZapRemoveGrounded(l)'
    BY <1>7, <1>9, <2>1, <2>2 DEF LineGrounded, ZapRemoveGrounded
  <2>7. l.kind = "bonus_set" => BonusSetGrounded(l)'
    BY <1>5, <2>1, <2>2, <2>3 DEF LineGrounded, BonusSetGrounded
  <2>8. l.kind = "free" => FreeGrounded(l)'
    BY <1>6, <1>10, <2>1, <2>2, <2>3 DEF LineGrounded, FreeGrounded, Freeable
  <2> QED
    BY <2>4, <2>5, <2>6, <2>7, <2>8 DEF LineGrounded
<1> QED
  BY <1>2, <1>11, <1>12

LEMMA InvInit == TInit => TriageInv
<1> SUFFICES ASSUME TInit PROVE TriageInv
  OBVIOUS
<1>1. pool \in Image
  BY ScannerAssumption DEF TInit, Init
<1>2. CacheInv
  BY EmptyCacheInv DEF TInit, Init
<1>3. AgendaInv /\ OpsInv
  BY DEF TInit, Init, AgendaInv, OpsInv
<1>4. drift \in Nat /\ CacheTrue
  BY DEF TInit, Init, CacheTrue
<1> QED
  BY <1>1, <1>2, <1>3, <1>4 DEF TriageInv

LEMMA InvNext == TriageInv /\ [TNext]_tvars => TriageInv'
<1> SUFFICES ASSUME TriageInv, [TNext]_tvars PROVE TriageInv'
  OBVIOUS
<1> USE DEF TriageInv
<1>0. ASSUME UNCHANGED <<pool, cache, agenda, ops, drift>>, mode' \in {mode, "idle"}
      PROVE  TriageInv'
  <2>1. CacheTrue'
    BY <1>0 DEF CacheTrue, get
  <2> QED
    BY <1>0, <2>1, SameCache DEF AgendaInv, OpsInv
<1>1. CASE Commit
  <2>1. Plan \in Seq(Op)
    BY PlanType
  <2>2. pool' \in Image
    BY <1>1, <2>1, TrailFrame DEF Commit
  <2>3. /\ cache' = cache /\ agenda' = agenda /\ ops' = ops
        /\ drift' = drift /\ mode' = "idle"
    BY <1>1 DEF Commit, walkVars
  <2>4. CacheTrue'
    BY <2>3 DEF CacheTrue
  <2> QED
    BY <2>2, <2>3, <2>4, SameCache DEF AgendaInv, OpsInv
<1>2. CASE Leave
  BY <1>0, <1>2 DEF Leave, walkVars
<1>3. CASE Alone(ScanStart)
  <2>1. /\ cache' = EmptyCache /\ pool' = pool /\ ops' = <<>> /\ drift' = drift
        /\ agenda' = <<Call("run", MosDir, 0, Missing)>>
    BY <1>3 DEF Alone, ScanStart
  <2>2. CacheInv'
    BY <2>1, NoDumpType DEF CacheInv, EmptyCache
  <2>3. Call("run", MosDir, 0, Missing) \in Calls'
    BY ScannerAssumption, MissingNoWord DEF Call, Calls, CallGrounded
  <2>4. AgendaInv' /\ OpsInv'
    BY <2>1, <2>3 DEF AgendaInv, OpsInv
  <2>5. CacheTrue'
    <3>1. \A o \in Obj : ~cache'[o].exists
      BY <2>1, MissingNoWord DEF EmptyCache, Unfetched, NoDump
    <3> QED
      BY <3>1 DEF CacheTrue, get
  <2> QED
    BY <2>1, <2>2, <2>4, <2>5
<1>4. CASE Alone(Fetch)
  <2> DEFINE o == Head(Unread)
  <2>1. /\ agenda # <<>> /\ Unread # <<>> /\ mode = "scan"
        /\ \/ \E d \in Dumps(pool, o) : cache' = [cache EXCEPT ![o] = d]
           \/ cache' = [cache EXCEPT ![o] = NoDump]
        /\ pool' = pool /\ agenda' = agenda /\ ops' = ops /\ drift' = drift
    BY <1>4 DEF Alone, Fetch, walkVars
  <2>2. Head(agenda) \in Calls
    BY <2>1 DEF AgendaInv
  <2>3. Unread \in Seq(Word \cap {p \in Obj : ~get(p).fetched})
    BY <2>2, ReadsType, OnlyType DEF Unread
  <2>4. o \in Obj /\ ~cache[o].fetched
    BY <2>1, <2>3 DEF get
  <2> HIDE DEF o
  <2>5. PICK d \in DumpOf(o) : /\ cache' = [cache EXCEPT ![o] = d]
                               /\ d.exists => d \in Dumps(pool, o)
    <3>1. CASE \E d \in Dumps(pool, o) : cache' = [cache EXCEPT ![o] = d]
      BY <2>4, <3>1, DumpsType
    <3>2. CASE cache' = [cache EXCEPT ![o] = NoDump]
      <4>1. ~NoDump.exists
        BY DEF NoDump
      <4> QED
        BY <3>2, <4>1, NoDumpType
    <3> QED
      BY <2>1, <3>1, <3>2
  <2>6. CacheInv' /\ Calls \subseteq Calls' /\ PlanLines \subseteq PlanLines'
    BY <2>4, <2>5, FetchKeeps
  <2>7. agenda' \in Seq(Calls') /\ ops' \in Seq(PlanLines')
    BY <2>1, <2>6, SeqMono DEF AgendaInv, OpsInv
  <2>8. CacheTrue'
    <3> SUFFICES ASSUME drift = 0, NEW p \in Obj, cache'[p].exists
                 PROVE  cache'[p] \in Dumps(pool, p)
      BY <2>1 DEF CacheTrue, get
    <3>1. DOMAIN cache = Word /\ p \in Word
      BY MissingNoWord DEF CacheInv
    <3>2. p # o => cache'[p] = cache[p]
      BY <2>5, <3>1
    <3>3. p = o => cache'[p] = d
      BY <2>5, <3>1
    <3> QED
      BY <2>1, <2>5, <3>2, <3>3 DEF CacheTrue, get
  <2> QED
    BY <2>1, <2>6, <2>7, <2>8 DEF AgendaInv, OpsInv
<1>5. CASE Alone(Step)
  <2> DEFINE r == Outcome(Head(agenda))
  <2>1. /\ agenda # <<>> /\ agenda' = r.calls \o Tail(agenda) /\ ops' = ops \o r.ops
        /\ pool' = pool /\ cache' = cache /\ drift' = drift /\ mode' = mode
    BY <1>5 DEF Alone, Step
  <2>2. Head(agenda) \in Calls /\ Tail(agenda) \in Seq(Calls)
    BY <2>1 DEF AgendaInv
  <2>3. r.ops \in Seq(PlanLines) /\ r.calls \in Seq(Calls)
    BY <2>2, OutcomeYields DEF Yields
  <2> HIDE DEF r
  <2>4. agenda' \in Seq(Calls) /\ ops' \in Seq(PlanLines)
    BY <2>1, <2>2, <2>3, ConcatProperties DEF OpsInv
  <2>5. CacheTrue'
    BY <2>1 DEF CacheTrue, get
  <2> QED
    BY <2>1, <2>4, <2>5, SameCache DEF AgendaInv, OpsInv
<1>6. CASE Alone(Report)
  <2>1. /\ ops' = dedupe_ops(ops) /\ mode = "scan"
        /\ pool' = pool /\ cache' = cache /\ agenda' = agenda /\ drift' = drift
    BY <1>6 DEF Alone, Report
  <2>2. ops' \in Seq(PlanLines)
    BY <2>1, DedupeType DEF OpsInv
  <2>3. CacheTrue'
    BY <2>1 DEF CacheTrue, get
  <2> QED
    BY <2>1, <2>2, <2>3, SameCache DEF AgendaInv, OpsInv
<1>7. CASE Alone(ZdbNotFound)
  BY <1>0, <1>7 DEF Alone, ZdbNotFound, walkVars
<1>8. CASE Alone(Outside)
  <2>1. PICK o \in Obj : \E s \in Drift[o] : pool' = [pool EXCEPT ![o] = s]
    BY <1>8 DEF Alone, Outside
  <2>2. pool' \in Image
    BY <2>1, ScannerAssumption DEF Image
  <2>3. cache' = cache /\ agenda' = agenda /\ ops' = ops /\ drift' = drift + 1
    BY <1>8 DEF Alone, Outside, walkVars
  <2>4. drift' \in Nat /\ CacheTrue'
    BY <2>3 DEF CacheTrue
  <2> QED
    BY <2>2, <2>3, <2>4, SameCache DEF AgendaInv, OpsInv
<1>9. CASE UNCHANGED tvars
  BY <1>0, <1>9 DEF tvars, vars, walkVars
<1> QED
  BY <1>1, <1>2, <1>3, <1>4, <1>5, <1>6, <1>7, <1>8, <1>9 DEF TNext

\* The inductive invariant of the workflow.
THEOREM TriageInvHolds == TSpec => []TriageInv
BY InvInit, InvNext, PTL DEF TSpec

\* parse_plan() takes every line that zhaxx-scan can write: for every pool, every
\* set of keys and types, every loss of dumps and every change under the scan.
THEOREM EveryLineParses == TSpec => []LinesParse
<1>1. TriageInv => LinesParse
  BY DEF TriageInv, OpsInv, PlanLines, LinesParse
<1> QED
  BY <1>1, TriageInvHolds, PTL

\* A commit frees under the type of the dump.  check_op() has compared the type
\* on the line with that of the object, and by the invariant the line has the
\* type of the dump; an object that is gone has no type to lose.
LEMMA CommitFrees ==
  ASSUME TriageInv, Commit, NEW o \in Obj, pool'[o].type # pool[o].type
  PROVE  pool'[o].type = NoType /\ cache[o].exists /\ cache[o].type = pool[o].type
<1>1. Plan \in Seq(Op) /\ Len(Plan) = Len(ops) /\ pool \in Image
  BY PlanType DEF TriageInv
<1>2. pool' = PlanResult(Plan, pool) /\ PlanHolds(Plan, pool)
  BY DEF Commit, Accepted
<1>3. pool'[o].type = NoType
  BY <1>1, <1>2, TrailFrame
<1>4. PICK k \in 1 .. Len(Plan) : Plan[k].kind = "free" /\ Plan[k].obj = o
  BY <1>1, <1>2, TrailFrame
<1>5. check_op(pool, Plan[k])
  BY <1>2, <1>4 DEF PlanHolds
<1>6. Plan[k] = ParseOp(ops[k]) /\ ops[k] \in PlanLines
  BY <1>1, <1>4, PlanType DEF TriageInv
<1>7. ops[k].kind = "free" /\ ops[k].obj = o /\ Plan[k].type = ops[k].type
  BY <1>4, <1>6 DEF ParseOp
<1>8. cache[o].exists /\ Plan[k].type = cache[o].type
  BY <1>6, <1>7 DEF PlanLines, LineGrounded, FreeGrounded, Freeable, get
<1>9. Exists(pool, o)
  BY <1>3 DEF Exists
<1>10. type_name_matches(pool[o].type, Plan[k].type)
  BY <1>4, <1>5, <1>9 DEF check_op, ReportedNoop, dmu_object_info_err
<1> QED
  BY <1>3, <1>8, <1>10 DEF type_name_matches

\* For every pool and every change of it between the dumps and the commit.
THEOREM FreedAsSeen == TSpec => FreesWhatWasSeen
<1>1. TriageInv => FreedAsDumped
  BY CommitFrees DEF FreedAsDumped
<1> QED
  BY <1>1, TriageInvHolds, PTL DEF TSpec, FreesWhatWasSeen

-----------------------------------------------------------------------------
(***************************************************************************)
(* The plan of a scan is taken.  What the lines expect is in the dumps, by *)
(* the invariant, and the dumps show the pool; it remains that the surgeon *)
(* finds in the pool what the dumps show of it, which is what the shape of *)
(* the pool is about.                                                      *)
(***************************************************************************)
LEMMA DumpShows ==
  ASSUME NEW m \in Image, NEW o \in Obj, NEW d \in Dumps(m, o), d.exists
  PROVE  /\ Exists(m, o) /\ d.type = m[o].type /\ (d.unreadable <=> ~m[o].io)
         /\ m[o].io => d.ints = ZapInts(m[o])
         /\ m[o].io /\ Len(d.scan) > 1 => d.scan = m[o].zap[<<"scan">>]
         /\ ~m[o].io => d.ints \in {NoInts, BonusInts(m[o])}
<1>1. Exists(m, o)
  BY DEF Dumps, NoDump
<1> DEFINE Printed(bad, ints, scan) ==
      [fetched |-> TRUE, exists |-> TRUE, unreadable |-> bad,
       type |-> m[o].type, ints |-> ints, scan |-> scan]
<1>2. m[o].io => \/ d = Printed(FALSE, ZapInts(m[o]), m[o].zap[<<"scan">>])
                 \/ d = Printed(FALSE, ZapInts(m[o]), <<>>)
  BY <1>1 DEF Dumps
<1>3. ~m[o].io => \/ d = Printed(TRUE, NoInts, <<>>)
                  \/ d = Printed(TRUE, BonusInts(m[o]), <<>>)
  BY <1>1 DEF Dumps
<1>4. m[o].io \in BOOLEAN
  BY DEF Image, ObjState
<1>5. Len(<<>>) = 0
  OBVIOUS
<1>6. CASE m[o].io
  <2>1. ~d.unreadable /\ d.type = m[o].type /\ d.ints = ZapInts(m[o])
    BY <1>2, <1>6
  <2>2. d.scan = m[o].zap[<<"scan">>] \/ d.scan = <<>>
    BY <1>2, <1>6
  <2>3. Len(d.scan) > 1 => d.scan = m[o].zap[<<"scan">>]
    BY <1>5, <2>2
  <2> QED
    BY <1>1, <1>6, <2>1, <2>3
<1>7. CASE ~m[o].io
  <2>1. d.unreadable /\ d.type = m[o].type /\ d.ints \in {NoInts, BonusInts(m[o])}
    BY <1>3, <1>7
  <2> QED
    BY <1>1, <1>7, <2>1
<1> QED
  BY <1>4, <1>6, <1>7

\* A name that a dump shows of a ZAP without a bonus is an entry of the ZAP with
\* that one integer, and the ZAP can be read.
LEMMA ZapEntryShown ==
  ASSUME NEW m \in Image, NEW o \in Obj, NEW d \in Dumps(m, o), d.exists,
         m[o].type \in ZapType, BonusFields[m[o].type] = {},
         NEW n \in Key, d.ints[n] # Missing
  PROVE  /\ zap_hold_err(m, o) = "ok" /\ zap_lookup_err(m, o, n, 1) = "ok"
         /\ m[o].zap[n][1] = d.ints[n]
<1>1. BonusInts(m[o])[n] = Missing
  BY DEF BonusInts
<1>2. NoInts[n] = Missing
  BY DEF NoInts
<1>3. Exists(m, o) /\ m[o].io /\ d.ints = ZapInts(m[o])
  BY <1>1, <1>2, DumpShows
<1>4. Len(m[o].zap[n]) = 1 /\ d.ints[n] = m[o].zap[n][1]
  BY <1>1, <1>3 DEF ZapInts
<1>5. zap_hold_err(m, o) = "ok"
  BY <1>3 DEF zap_hold_err, dmu_read_err
<1>6. m[o].zap[n] # <<>>
  BY <1>4
<1> QED
  BY <1>4, <1>5, <1>6 DEF zap_lookup_err

\* The number of children that a dump shows is the one in the bonus.
LEMMA CountShown ==
  ASSUME NEW m \in Image, NEW o \in Obj, NEW d \in Dumps(m, o), d.exists,
         ~d.unreadable, m[o].zap[<<"num_children">>] = <<>>,
         d.ints[<<"num_children">>] # Missing
  PROVE  /\ dmu_read_err(m, o) = "ok" /\ o \in Written(m)
         /\ m[o].bonus["num_children"] = d.ints[<<"num_children">>]
<1> DEFINE n == <<"num_children">>
<1>1. n \in Key
  BY ScannerAssumption DEF ReadName
<1>2. m[o].io \in BOOLEAN
  BY DEF Image, ObjState
<1>3. Exists(m, o) /\ m[o].io /\ d.ints = ZapInts(m[o])
  BY <1>2, DumpShows
<1>4. d.ints[n] = BonusInts(m[o])[n]
  BY <1>1, <1>3 DEF ZapInts
<1>5. /\ \E f \in BonusFields[m[o].type] : n = <<f>>
      /\ d.ints[n] = m[o].bonus[n[1]]
  BY <1>1, <1>4 DEF BonusInts
<1>6. "num_children" \in BonusFields[m[o].type] /\ n[1] = "num_children"
  BY <1>5
<1> QED
  BY <1>3, <1>5, <1>6 DEF dmu_read_err, Written

\* In a scan of a pool that nobody changes, the dumps show the pool.
Undisturbed == TriageInv /\ drift = 0 /\ mode # "idle"

LEMMA RefsAreShown ==
  ASSUME Undisturbed, NEW fields, fields \subseteq ReadName,
         NEW v \in RefsBy(fields), v \in Obj
  PROVE  v \in Shown(pool, fields)
<1>1. PICK p \in Word : \E f \in fields : cache[p].ints[<<f>>] = v
  BY DEF RefsBy
<1>2. PICK f \in fields : cache[p].ints[<<f>>] = v
  BY <1>1
<1>3. <<f>> \in Key /\ v # Missing
  BY ScannerAssumption, PlanFileAssumption
<1>4. cache[p].exists /\ p \in Obj
  BY <1>2, <1>3, NamesInDump DEF NamesIn, Undisturbed, TriageInv
<1>5. cache[p] \in Dumps(pool, p)
  BY <1>4 DEF Undisturbed, TriageInv, CacheTrue, get
<1>6. cache[p] \in UNION {Dumps(pool, o) : o \in Obj}
  BY <1>4, <1>5
<1>7. v \in {cache[p].ints[<<g>>] : g \in fields}
  BY <1>2
<1> QED
  BY <1>6, <1>7 DEF Shown

\* Of what a plan line names, as far as the surgeon looks at it.
LineFits(l) ==
  /\ check_op(pool, ParseOp(l)) /\ apply_err(pool, ParseOp(l)) = "ok"
  /\ l.kind \in {"zap_set", "zap_zero", "bonus_set"} => l.obj \in Written(pool)
  /\ l.kind = "free" => l.obj \notin Written(pool)

\* A number that the scanner prints is the number that the surgeon reads.
LEMMA WordRead ==
  ASSUME NEW w \in Word
  PROVE  kv_u64_ok(w) /\ kv_u64(w) = w
<1>1. w \in Nat /\ w < WordMod /\ WordMod \in Nat \ {0}
  BY MosAssumption DEF Word
<1>2. w # Missing
  BY MissingNoWord
<1>3. w % WordMod = w
  BY <1>1
<1> QED
  BY <1>1, <1>2, <1>3 DEF kv_u64, kv_u64_ok

LEMMA WholeKey ==
  ASSUME NEW k \in Key, Len(k) = 1
  PROVE  kv_str(k, FALSE) = k
<1>1. k \in Seq(STRING) /\ k # Missing
  BY MosAssumption, PlanFileAssumption
<1>2. k = <<k[1]>> /\ Head(k) = k[1]
  BY <1>1
<1> QED
  BY <1>1, <1>2 DEF kv_str

LEMMA ParsedZap ==
  ASSUME NEW l \in Line, l.kind \in ZapKind, ~l.quoted, l.key \in Key, Len(l.key) = 1
  PROVE  /\ ParseOp(l).kind = l.kind /\ ParseOp(l).obj = l.obj
         /\ ParseOp(l).key = l.key /\ ParseOp(l).expect = kv_u64(l.expect)
<1>1. l.quoted = FALSE
  BY DEF Line
<1>2. kv_str(l.key, l.quoted) = l.key
  BY <1>1, WholeKey
<1> QED
  BY <1>2 DEF ParseOp

\* The dump of the MOS directory, if it could be read.
LEMMA MosDirShown ==
  ASSUME Undisturbed, MapsAreZaps(pool), readable(MosDir)
  PROVE  /\ MosDir \in Obj /\ pool \in Image
         /\ cache[MosDir] \in Dumps(pool, MosDir) /\ cache[MosDir].exists
         /\ Exists(pool, MosDir) /\ pool[MosDir].io /\ MosDir \in Written(pool)
         /\ pool[MosDir].type \in ZapType /\ BonusFields[pool[MosDir].type] = {}
         /\ zap_hold_err(pool, MosDir) = "ok"
<1>1. MosDir \in Obj /\ pool \in Image /\ cache[MosDir].exists /\ ~cache[MosDir].unreadable
  BY ScannerAssumption DEF readable, get, Undisturbed, TriageInv
<1>2. cache[MosDir] \in Dumps(pool, MosDir)
  BY <1>1 DEF Undisturbed, TriageInv, CacheTrue, get
<1>3. pool[MosDir].io \in BOOLEAN
  BY <1>1 DEF Image, ObjState
<1>4. Exists(pool, MosDir) /\ pool[MosDir].io
  BY <1>1, <1>2, <1>3, DumpShows
<1>5. pool[MosDir].type \in ZapType /\ BonusFields[pool[MosDir].type] = {}
  BY <1>4 DEF MapsAreZaps
<1> QED
  BY <1>1, <1>2, <1>4, <1>5 DEF Written, zap_hold_err, dmu_read_err

LEMMA ZapSetFits ==
  ASSUME Undisturbed, Shaped(pool), NEW l \in PlanLines, l.kind = "zap_set"
  PROVE  LineFits(l)
<1> DEFINE op == ParseOp(l)
<1>1. l \in Line /\ ZapSetGrounded(l)
  BY DEF PlanLines, LineGrounded
<1>2. /\ l.obj = MosDir /\ readable(MosDir) /\ ~l.quoted
      /\ l.key \in NamesIn(MosDir) /\ l.expect = cache[MosDir].ints[l.key]
      /\ l.key \in {<<"errlog_last">>, <<"errlog_scrub">>}
  BY <1>1 DEF ZapSetGrounded, get
<1>3. /\ MosDir \in Word /\ l.key \in Key /\ Len(l.key) = 1
      /\ l.expect \in Word /\ l.expect # Missing
  BY <1>2, NamesInDump, MissingNoWord, ScannerAssumption
  DEF Undisturbed, TriageInv
<1>4. /\ op.kind = "zap_set" /\ op.obj = MosDir /\ op.key = l.key
      /\ op.expect = l.expect
  BY <1>1, <1>2, <1>3, ParsedZap, WordRead DEF ZapKind
<1>5. MosDir \in Written(pool) /\ zap_hold_err(pool, MosDir) = "ok"
  BY <1>2, MosDirShown DEF Shaped
<1>6. /\ zap_lookup_err(pool, MosDir, l.key, 1) = "ok"
      /\ pool[MosDir].zap[l.key][1] = l.expect
  BY <1>2, <1>3, MosDirShown, ZapEntryShown DEF Shaped
<1> HIDE DEF op
<1>7. check_op(pool, op)
  BY <1>4, <1>6 DEF check_op, ZapValueHolds
<1>8. apply_err(pool, op) = "ok"
  BY <1>4, <1>5 DEF apply_err
<1> QED
  BY <1>2, <1>5, <1>7, <1>8 DEF LineFits, op

LEMMA ZapZeroFits ==
  ASSUME Undisturbed, Shaped(pool), NEW l \in PlanLines, l.kind = "zap_zero"
  PROVE  LineFits(l)
<1> DEFINE op == ParseOp(l)
           n == <<"scan">>
<1>1. l \in Line /\ ZapZeroGrounded(l)
  BY DEF PlanLines, LineGrounded
<1>2. /\ l.obj = MosDir /\ readable(MosDir) /\ ~l.quoted /\ l.key = n
      /\ l.count = ScanWords /\ Len(cache[MosDir].scan) > 1
  BY <1>1 DEF ZapZeroGrounded, get
<1>3. n \in Key /\ Len(n) = 1 /\ ScanWords \in Word
  <2>1. n \in Key /\ Len(n) = 1
    BY ScannerAssumption DEF ReadName
  <2> QED
    BY <2>1, ScannerAssumption, MosAssumption, PlanFileAssumption DEF Word
<1>4. op.kind = "zap_zero" /\ op.obj = MosDir /\ op.key = n /\ op.count = ScanWords
  <2>1. op.kind = "zap_zero" /\ op.obj = MosDir /\ op.key = n
    BY <1>1, <1>2, <1>3, ParsedZap DEF ZapKind
  <2>2. op.count = kv_u64(ScanWords)
    BY <1>2 DEF ParseOp
  <2> QED
    BY <1>3, <2>1, <2>2, WordRead
<1>5. /\ MosDir \in Written(pool) /\ zap_hold_err(pool, MosDir) = "ok"
      /\ pool[MosDir].zap[n] = cache[MosDir].scan
  BY <1>2, MosDirShown, DumpShows DEF Shaped
<1>6. zap_lookup_err(pool, MosDir, n, ScanWords) = "ok"
  <2>1. pool[MosDir].zap[n] # <<>>
    BY <1>2, <1>5
  <2>2. Len(pool[MosDir].zap[n]) <= ScanWords
    BY DEF Shaped, MapsAreZaps
  <2>3. pool[MosDir].zap[n] \in Seq(Word)
    BY <1>3, ScannerAssumption DEF Undisturbed, TriageInv, Image, ObjState, Zap
  <2>4. ScanWords \in Nat /\ Len(pool[MosDir].zap[n]) \in Nat
    BY <2>3, ScannerAssumption, PlanFileAssumption
  <2> QED
    BY <1>5, <2>1, <2>2, <2>4 DEF zap_lookup_err
<1> HIDE DEF op
<1>7. check_op(pool, op)
  BY <1>4, <1>6 DEF check_op
<1>8. apply_err(pool, op) = "ok"
  BY <1>4, <1>5 DEF apply_err
<1> QED
  BY <1>2, <1>5, <1>7, <1>8 DEF LineFits, op

LEMMA ZapRemoveFits ==
  ASSUME Undisturbed, Shaped(pool), NEW l \in PlanLines, l.kind = "zap_remove"
  PROVE  LineFits(l)
<1> DEFINE op == ParseOp(l)
           o == l.obj
<1>1. l \in Line /\ ZapRemoveGrounded(l)
  BY DEF PlanLines, LineGrounded
<1>2. /\ o \in RefsBy(MapField) /\ l.key \in NamesIn(o) /\ ~l.quoted
      /\ l.expect = cache[o].ints[l.key]
  BY <1>1 DEF ZapRemoveGrounded, get
<1>3. /\ o \in Obj /\ cache[o].exists /\ l.key \in Key /\ l.expect \in Word
      /\ cache[o].ints[l.key] # Missing /\ pool \in Image
  BY <1>2, NamesInDump DEF RefsBy, Undisturbed, TriageInv, NamesIn
<1>4. cache[o] \in Dumps(pool, o)
  BY <1>3 DEF Undisturbed, TriageInv, CacheTrue, get
<1>5. o \in Shown(pool, MapField) /\ Exists(pool, o)
  BY <1>2, <1>3, <1>4, RefsAreShown, DumpShows DEF MapField, ReadName
<1>6. pool[o].type \in ZapType /\ BonusFields[pool[o].type] = {}
  BY <1>5 DEF Shaped, MapsAreZaps
<1>7. /\ zap_hold_err(pool, o) = "ok" /\ zap_lookup_err(pool, o, l.key, 1) = "ok"
      /\ pool[o].zap[l.key][1] = l.expect
  BY <1>2, <1>3, <1>4, <1>6, ZapEntryShown
<1>8. Len(l.key) = 1
  <2>1. pool[o].zap[l.key] # <<>>
    BY <1>7 DEF zap_lookup_err
  <2> QED
    BY <1>3, <1>5, <2>1 DEF Shaped, MapsAreZaps
<1>9. op.kind = "zap_remove" /\ op.obj = o /\ op.key = l.key /\ op.expect = l.expect
  BY <1>1, <1>2, <1>3, <1>8, ParsedZap, WordRead DEF ZapKind
<1> HIDE DEF op
<1>10. check_op(pool, op)
  BY <1>7, <1>9 DEF check_op, ZapValueHolds
<1>11. apply_err(pool, op) = "ok"
  BY <1>7, <1>9 DEF apply_err
<1> QED
  BY <1>10, <1>11 DEF LineFits, op

LEMMA BonusSetFits ==
  ASSUME Undisturbed, Shaped(pool), NEW l \in PlanLines, l.kind = "bonus_set"
  PROVE  LineFits(l)
<1> DEFINE op == ParseOp(l)
           o == l.obj
           n == <<"num_children">>
<1>1. l \in Line /\ ~BadLine(l) /\ BonusSetGrounded(l)
  BY DEF PlanLines, LineGrounded
<1>2. /\ cache[o].exists /\ ~cache[o].unreadable /\ n \in NamesIn(o)
      /\ l.expect = cache[o].ints[n]
  BY <1>1 DEF BonusSetGrounded, readable, get
<1>3. o \in Obj /\ o \in Word
  BY <1>1, MissingNoWord DEF Line, BadLine
<1>4. l.expect \in Word /\ cache[o].ints[n] # Missing /\ pool \in Image
  BY <1>2, <1>3, NamesInDump DEF Undisturbed, TriageInv, NamesIn
<1>5. cache[o] \in Dumps(pool, o)
  BY <1>2, <1>3 DEF Undisturbed, TriageInv, CacheTrue, get
<1>6. pool[o].zap[n] = <<>>
  BY <1>3 DEF Shaped, MapsAreZaps
<1>7. /\ dmu_read_err(pool, o) = "ok" /\ o \in Written(pool)
      /\ pool[o].bonus["num_children"] = l.expect
  BY <1>2, <1>3, <1>4, <1>5, <1>6, CountShown
<1>8. op.kind = "bonus_set" /\ op.obj = o /\ op.expect = l.expect
  BY <1>4, WordRead DEF ParseOp
<1> HIDE DEF op
<1>9. check_op(pool, op)
  BY <1>7, <1>8 DEF check_op
<1>10. apply_err(pool, op) = "ok"
  BY <1>7, <1>8 DEF apply_err
<1> QED
  BY <1>7, <1>9, <1>10 DEF LineFits, op

\* A line that frees, with the object as the pool has it.
LEMMA FreeShown ==
  ASSUME Undisturbed, NEW l \in PlanLines, l.kind = "free"
  PROVE  LET o == l.obj
         IN  /\ o \in Obj /\ Exists(pool, o) /\ l.type = pool[o].type
             /\ \/ pool[o].type \in ErrlogLike
                \/ /\ pool[o].io
                   /\ pool[o].type \in DirLike \/ o \in Shown(pool, SubtreeField)
<1> DEFINE o == l.obj
<1>1. l \in Line /\ ~BadLine(l) /\ Freeable(o) /\ l.type = cache[o].type
  BY DEF PlanLines, LineGrounded, FreeGrounded, get
<1>2. o \in Obj /\ o \in Word
  BY <1>1, MissingNoWord DEF Line, BadLine
<1>3. /\ cache[o].exists
      /\ \/ cache[o].type \in ErrlogLike
         \/ /\ ~cache[o].unreadable
            /\ cache[o].type \in DirLike \/ o \in RefsBy(SubtreeField)
  BY <1>1 DEF Freeable, readable, get
<1>4. cache[o] \in Dumps(pool, o) /\ pool \in Image
  BY <1>2, <1>3 DEF Undisturbed, TriageInv, CacheTrue, get
<1>5. pool[o].io \in BOOLEAN
  BY <1>2, <1>4 DEF Image, ObjState
<1>6. /\ Exists(pool, o) /\ cache[o].type = pool[o].type
      /\ ~cache[o].unreadable => pool[o].io
  BY <1>2, <1>3, <1>4, <1>5, DumpShows
<1>7. o \in RefsBy(SubtreeField) => o \in Shown(pool, SubtreeField)
  BY <1>2, RefsAreShown DEF SubtreeField, ReadName
<1> QED
  BY <1>1, <1>2, <1>3, <1>6, <1>7

LEMMA FreeFits ==
  ASSUME Undisturbed, Shaped(pool), NEW l \in PlanLines, l.kind = "free"
  PROVE  LineFits(l)
<1> DEFINE op == ParseOp(l)
           o == l.obj
<1>1. /\ o \in Obj /\ Exists(pool, o) /\ l.type = pool[o].type
      /\ \/ pool[o].type \in ErrlogLike
         \/ /\ pool[o].io
            /\ pool[o].type \in DirLike \/ o \in Shown(pool, SubtreeField)
  BY FreeShown
<1>2. pool[o].type \in NamedType /\ (pool[o].type \in ErrlogLike => pool[o].io)
  BY <1>1 DEF Shaped, FreeableIsFree
<1>3. pool[o].io
  BY <1>1, <1>2
<1>4. o \notin Written(pool)
  BY <1>1 DEF Shaped, FreeableIsFree
<1>5. op.kind = "free" /\ op.obj = o /\ op.type = l.type
  BY DEF ParseOp
<1> HIDE DEF op
<1>6. check_op(pool, op)
  BY <1>1, <1>2, <1>5 DEF check_op, dmu_object_info_err, type_name_matches
<1>7. apply_err(pool, op) = "ok"
  BY <1>1, <1>3, <1>5 DEF apply_err, dmu_read_err
<1> QED
  BY <1>4, <1>6, <1>7 DEF LineFits, op

LEMMA ShapedAccepted ==
  ASSUME Undisturbed, Shaped(pool), Len(ops) <= MaxOps
  PROVE  Accepted
<1>1. pool \in Image /\ OpsInv /\ Plan \in Seq(Op) /\ Len(Plan) = Len(ops)
  BY PlanType DEF Undisturbed, TriageInv
<1>2. \A l \in PlanLines : LineFits(l)
  BY ZapSetFits, ZapZeroFits, ZapRemoveFits, BonusSetFits, FreeFits
  DEF PlanLines, OpKind, ZapKind
<1>3. \A j \in 1 .. Len(Plan) :
        /\ Plan[j] = ParseOp(ops[j]) /\ ops[j] \in PlanLines /\ LineFits(ops[j])
  BY <1>1, <1>2, PlanType
<1>4. Parses
  <2>1. \A j \in DOMAIN ops : ops[j] \in PlanLines
    BY <1>1 DEF OpsInv
  <2> QED
    BY <2>1 DEF Parses, PlanLines
<1>5. PlanHolds(Plan, pool)
  BY <1>3 DEF PlanHolds, LineFits
<1>6. PlanApplies(Plan, pool)
  <2> DEFINE W == Written(pool)
  <2>1. \A j \in 1 .. Len(Plan) : Plan[j].kind = ops[j].kind /\ Plan[j].obj = ops[j].obj
    <3>1. \A l : ParseOp(l).kind = l.kind /\ ParseOp(l).obj = l.obj
      BY DEF ParseOp
    <3> QED
      BY <1>3, <3>1
  <2>2. \A j \in 1 .. Len(Plan) : apply_err(pool, Plan[j]) = "ok"
    BY <1>3 DEF LineFits
  <2>3. \A j \in 1 .. Len(Plan) :
          Plan[j].kind \in {"zap_set", "zap_zero", "bonus_set"} => Plan[j].obj \in W
    BY <1>3, <2>1 DEF LineFits
  <2>4. \A j \in 1 .. Len(Plan) : Plan[j].kind = "free" => Plan[j].obj \notin W
    BY <1>3, <2>1 DEF LineFits
  <2> HIDE DEF W
  <2> QED
    BY <1>1, <2>2, <2>3, <2>4, TrailApplies
<1> QED
  BY <1>4, <1>5, <1>6 DEF Accepted

\* For every pool of that shape, however large and however damaged otherwise,
\* and whatever dumps are lost: the plan that a scan reports passes parse_plan()
\* and every check_op(), and no VERIFY0() of apply_sync() fires on it.  The
\* shape leaves out names of several words, objects whose type has no name, error
\* logs that cannot be read, and references to an object of the wrong kind.
THEOREM ShapedPlanAccepted ==
  TSpec => [](Shaped(pool) /\ Len(ops) <= MaxOps => PlanAccepted)
<1>1. TriageInv => (Shaped(pool) /\ Len(ops) <= MaxOps => PlanAccepted)
  BY ShapedAccepted DEF PlanAccepted, Undisturbed
<1> QED
  BY <1>1, TriageInvHolds, PTL

\* Where the fields that name the parts of a dataset name nothing else, the
\* scanner plans no free of anything but error logs and parts of datasets.
THEOREM FreesPartsOnly ==
  ASSUME DirLike \subseteq SubtreeType
  PROVE  TSpec => [](drift = 0 /\ RefsTyped(pool) => NeverFreesWrongType)
<1>1. TriageInv => (drift = 0 /\ RefsTyped(pool) => NeverFreesWrongType)
  <2> SUFFICES ASSUME TriageInv, drift = 0, RefsTyped(pool), mode = "done",
                      NEW j \in DOMAIN ops, ops[j].kind = "free"
               PROVE  ops[j].type \in ErrlogLike \cup SubtreeType
    BY DEF NeverFreesWrongType
  <2>1. ops[j] \in PlanLines /\ Undisturbed
    BY DEF TriageInv, OpsInv, Undisturbed
  <2> DEFINE o == ops[j].obj
  <2>2. /\ o \in Obj /\ Exists(pool, o) /\ ops[j].type = pool[o].type
        /\ \/ pool[o].type \in ErrlogLike
           \/ pool[o].type \in DirLike \/ o \in Shown(pool, SubtreeField)
    BY <2>1, FreeShown
  <2> QED
    BY <2>2 DEF RefsTyped
<1> QED
  BY <1>1, TriageInvHolds, PTL

-----------------------------------------------------------------------------
(***************************************************************************)
(* A clean report is true.  As long as a scan has found nothing, each      *)
(* directory that it has visited is clean, up to the calls that are still  *)
(* on the agenda; at the end of a clean scan no call is left.              *)
(***************************************************************************)
Pending(do, o) == \E c \in ToSet(agenda) : c.do = do /\ c.obj = o
PendingChild(z, n) == \E c \in ToSet(agenda) : c.do = "child" /\ c.obj = z /\ c.key = n

IsDataset(o) == readable(o) /\ get(o).type \in DatasetLike
DirReached(d) == d \in visited \/ Pending("dir", d)
ChildClean(v) == get(v).exists /\ get(v).type \in DirLike /\ DirReached(v)

ClonesClean(z) == readable(z) /\ \A n \in NamesIn(z) : IsDataset(get(z).ints[n])
MapClean(z) ==
  /\ readable(z)
  /\ \A n \in NamesIn(z) \ SpecialName :
       PendingChild(z, n) \/ ChildClean(get(z).ints[n])
DatasetClean(ds) ==
  /\ IsDataset(ds)
  /\ ref(ds, "next_clones_obj") # 0 => ClonesClean(ref(ds, "next_clones_obj"))
  /\ \A f \in LinkField : ref(ds, f) # 0 => get(ref(ds, f)).exists

HeadClean(o) == o # 0 => Pending("dataset", o) \/ DatasetClean(o)
ChildrenClean(o) == o # 0 => Pending("childmap", o) \/ MapClean(o)
DirClonesClean(o) == o # 0 => Pending("clones", o) \/ ClonesClean(o)
DirClean(d) ==
  /\ KnownDir(d) /\ HeadClean(ref(d, "head_dataset_obj"))
  /\ ChildrenClean(ref(d, "child_dir_zapobj")) /\ DirClonesClean(ref(d, "clones"))

RootClean ==
  \/ Pending("run", MosDir)
  \/ /\ readable(MosDir) /\ ref(MosDir, "root_dataset") # 0
     /\ DirReached(ref(MosDir, "root_dataset"))

WalkInv ==
  /\ visited \subseteq Word
  /\ mode = "done" => agenda = <<>> /\ (exit = "0" => findings = {})
  /\ mode \in {"scan", "done"} /\ findings = {} =>
       RootClean /\ \A d \in visited : DirClean(d)

\* What a step of the scanner leaves of what was found clean: the dumps that
\* showed it stay, and a call that leaves the agenda has seen to its object.
SeenStays == \A p \in Word : get(p).exists => get(p)' = get(p)
CallsSettle ==
  /\ \A o \in Word : Pending("dataset", o) => Pending("dataset", o)' \/ DatasetClean(o)'
  /\ \A o \in Word : Pending("childmap", o) => Pending("childmap", o)' \/ MapClean(o)'
  /\ \A o \in Word : Pending("clones", o) => Pending("clones", o)' \/ ClonesClean(o)'
  /\ \A z \in Word, n \in Key :
       PendingChild(z, n) => PendingChild(z, n)' \/ ChildClean(get(z).ints[n])'
  /\ \A d \in Word : DirReached(d) => DirReached(d)'

\* What was seen of an object is seen of it in the next state.
LEMMA SeenSame ==
  ASSUME CacheInv, SeenStays, NEW p \in Word, get(p).exists
  PROVE  /\ get(p)' = get(p) /\ NamesIn(p)' = NamesIn(p)
         /\ readable(p)' = readable(p) /\ \A n : ref(p, n)' = ref(p, n)
<1>1. get(p)' = get(p)
  BY DEF SeenStays
<1>2. cache'[p] = cache[p]
  BY <1>1 DEF get
<1> QED
  BY <1>1, <1>2 DEF NamesIn, readable, ref, get

LEMMA DatasetSame ==
  ASSUME CacheInv, SeenStays, NEW p \in Word, IsDataset(p)
  PROVE  IsDataset(p)'
BY SeenSame DEF IsDataset, readable

LEMMA ClonesStay ==
  ASSUME CacheInv, SeenStays, NEW z \in Word, ClonesClean(z)
  PROVE  ClonesClean(z)'
<1>1. /\ get(z)' = get(z) /\ NamesIn(z)' = NamesIn(z) /\ readable(z)' = readable(z)
      /\ readable(z)
  BY SeenSame DEF ClonesClean, readable
<1>2. ASSUME NEW n \in NamesIn(z) PROVE IsDataset(get(z).ints[n])'
  <2>1. PICK v \in Word : v = cache[z].ints[n]
    BY <1>2, NamesInDump
  <2>2. IsDataset(v) /\ v = get(z)'.ints[n]
    BY <1>1, <1>2, <2>1 DEF ClonesClean, get
  <2>3. IsDataset(v)'
    BY <2>2, DatasetSame
  <2> QED
    BY <2>2, <2>3
<1> QED
  BY <1>1, <1>2 DEF ClonesClean

LEMMA DatasetStays ==
  ASSUME CacheInv, SeenStays, NEW ds \in Word, DatasetClean(ds)
  PROVE  DatasetClean(ds)'
<1>1. IsDataset(ds) /\ get(ds).exists
  BY DEF DatasetClean, IsDataset, readable
<1>2. \A n : ref(ds, n)' = ref(ds, n)
  BY <1>1, SeenSame
<1>3. PICK nco \in Word : nco = ref(ds, "next_clones_obj")
  BY RefIsWord DEF ReadName
<1>4. nco # 0 => ClonesClean(nco)'
  BY <1>3, ClonesStay DEF DatasetClean
<1>5. ASSUME NEW f \in LinkField, ref(ds, f) # 0 PROVE get(ref(ds, f))'.exists
  <2>1. PICK v \in Word : v = ref(ds, f)
    BY RefIsWord DEF LinkField, ReadName
  <2>2. get(v).exists
    BY <1>5, <2>1 DEF DatasetClean
  <2>3. get(v)' = get(v)
    BY <2>2, SeenSame
  <2>4. ref(ds, f)' = v
    BY <1>2, <2>1
  <2> QED
    BY <2>2, <2>3, <2>4
<1>6. IsDataset(ds)'
  BY <1>1, DatasetSame
<1>7. ref(ds, "next_clones_obj")' = nco
  BY <1>2, <1>3
<1> QED
  BY <1>2, <1>4, <1>5, <1>6, <1>7 DEF DatasetClean

LEMMA MapStays ==
  ASSUME CacheInv, SeenStays, CallsSettle, NEW z \in Word, MapClean(z)
  PROVE  MapClean(z)'
<1>1. /\ get(z)' = get(z) /\ NamesIn(z)' = NamesIn(z) /\ readable(z)' = readable(z)
      /\ readable(z)
  BY SeenSame DEF MapClean, readable
<1>2. ASSUME NEW n \in NamesIn(z) \ SpecialName
      PROVE  PendingChild(z, n)' \/ ChildClean(get(z).ints[n])'
  <2>1. PICK v \in Word : v = cache[z].ints[n]
    BY <1>2, NamesInDump
  <2>2. n \in Key /\ v = get(z)'.ints[n] /\ v = get(z).ints[n]
    BY <1>1, <1>2, <2>1 DEF NamesIn, get
  <2>3. CASE PendingChild(z, n)
    BY <2>2, <2>3 DEF CallsSettle
  <2>4. CASE ChildClean(v)
    <3>1. get(v)' = get(v) /\ DirReached(v)'
      BY <2>4, SeenSame DEF ChildClean, CallsSettle
    <3>2. ChildClean(v)'
      BY <2>4, <3>1 DEF ChildClean
    <3> QED
      BY <2>2, <3>2
  <2> QED
    BY <1>2, <2>2, <2>3, <2>4 DEF MapClean
<1> QED
  BY <1>1, <1>2 DEF MapClean

\* A directory that was clean stays clean.
LEMMA DirStays ==
  ASSUME CacheInv, SeenStays, CallsSettle, NEW d \in Word, DirClean(d)
  PROVE  DirClean(d)'
<1>1. KnownDir(d) /\ get(d).exists
  BY DEF DirClean, KnownDir, readable
<1>2. (\A n : ref(d, n)' = ref(d, n)) /\ KnownDir(d)'
  BY <1>1, SeenSame DEF KnownDir
<1>3. PICK head \in Word : head = ref(d, "head_dataset_obj")
  BY RefIsWord DEF ReadName
<1>4. PICK map \in Word : map = ref(d, "child_dir_zapobj")
  BY RefIsWord DEF ReadName
<1>5. PICK clones \in Word : clones = ref(d, "clones")
  BY RefIsWord DEF ReadName
<1>6. HeadClean(head)'
  BY <1>3, DatasetStays DEF DirClean, HeadClean, CallsSettle
<1>7. ChildrenClean(map)'
  BY <1>4, MapStays DEF DirClean, ChildrenClean, CallsSettle
<1>8. DirClonesClean(clones)'
  BY <1>5, ClonesStay DEF DirClean, DirClonesClean, CallsSettle
<1>9. /\ ref(d, "head_dataset_obj")' = head /\ ref(d, "child_dir_zapobj")' = map
      /\ ref(d, "clones")' = clones
  BY <1>2, <1>3, <1>4, <1>5
<1> QED
  BY <1>2, <1>6, <1>7, <1>8, <1>9 DEF DirClean

LEMMA RootStays ==
  ASSUME CacheInv, SeenStays, CallsSettle, readable(MosDir),
         ref(MosDir, "root_dataset") # 0, DirReached(ref(MosDir, "root_dataset"))
  PROVE  RootClean'
<1>1. MosDir \in Word
  BY ScannerAssumption, MissingNoWord
<1>2. PICK root \in Word : root = ref(MosDir, "root_dataset")
  BY <1>1, RefIsWord DEF ReadName
<1>3. readable(MosDir)' /\ ref(MosDir, "root_dataset")' = root
  BY <1>1, <1>2, SeenSame DEF readable
<1>4. DirReached(root)'
  BY <1>2 DEF CallsSettle
<1> QED
  BY <1>2, <1>3, <1>4 DEF RootClean

\* A dump that is taken changes no dump that was there, and no call.
LEMMA WalkFetch ==
  ASSUME CacheInv, WalkInv, NEW o \in Obj, ~cache[o].fetched, NEW d,
         cache' = [cache EXCEPT ![o] = d],
         mode = "scan", UNCHANGED <<walkVars, mode>>
  PROVE  WalkInv'
<1>1. SeenStays
  <2>1. o \in Word /\ ~cache[o].exists
    BY MissingNoWord DEF CacheInv, DumpOf
  <2> QED
    BY <2>1 DEF SeenStays, get, CacheInv
<1>2. CallsSettle
  BY DEF CallsSettle, Pending, PendingChild, DirReached, walkVars
<1>3. mode' = "scan" /\ visited' = visited /\ findings' = findings /\ agenda' = agenda
  BY DEF walkVars
<1>4. ASSUME findings = {} PROVE RootClean'
  <2>1. RootClean
    BY <1>4 DEF WalkInv
  <2>2. Pending("run", MosDir) => Pending("run", MosDir)'
    BY <1>3 DEF Pending
  <2> QED
    BY <1>1, <1>2, <2>1, <2>2, RootStays DEF RootClean
<1>5. ASSUME findings = {}, NEW p \in visited PROVE DirClean(p)'
  <2>1. p \in Word /\ DirClean(p)
    BY <1>5 DEF WalkInv
  <2> QED
    BY <1>1, <1>2, <2>1, DirStays
<1> QED
  BY <1>3, <1>4, <1>5 DEF WalkInv

\* The calls on the agenda are the one at its head and the others.
LEMMA ToSetHead ==
  ASSUME NEW S, NEW s \in Seq(S), s # <<>>
  PROVE  ToSet(s) = {Head(s)} \cup ToSet(Tail(s))
<1>1. /\ Len(s) \in Nat \ {0} /\ Tail(s) \in Seq(S) /\ Len(Tail(s)) = Len(s) - 1
      /\ Head(s) = s[1] /\ \A j \in 1 .. Len(s) - 1 : Tail(s)[j] = s[j + 1]
  OBVIOUS
<1>2. DOMAIN s = 1 .. Len(s) /\ DOMAIN Tail(s) = 1 .. Len(s) - 1
  BY <1>1
<1>3. ASSUME NEW j \in 1 .. Len(s) PROVE s[j] \in {Head(s)} \cup ToSet(Tail(s))
  <2>1. CASE j = 1
    BY <1>1, <2>1
  <2>2. CASE j # 1
    <3>1. j - 1 \in DOMAIN Tail(s) /\ Tail(s)[j - 1] = s[j]
      BY <1>1, <1>2, <2>2
    <3> QED
      BY <3>1 DEF ToSet
  <2> QED
    BY <2>1, <2>2
<1>4. ASSUME NEW j \in 1 .. Len(s) - 1 PROVE Tail(s)[j] \in ToSet(s)
  <2>1. j + 1 \in DOMAIN s /\ Tail(s)[j] = s[j + 1]
    BY <1>1, <1>2
  <2> QED
    BY <2>1 DEF ToSet
<1>5. Head(s) \in ToSet(s)
  BY <1>1, <1>2 DEF ToSet
<1> QED
  BY <1>2, <1>3, <1>4, <1>5 DEF ToSet

\* A list of clones in which nothing is found is clean.
LEMMA ClonesFound ==
  ASSUME CacheInv, NEW zap \in Word, check_clones_zap(zap).findings = {}
  PROVE  ClonesClean(zap)
<1> DEFINE set == {n \in Key : /\ get(zap).ints[n] # Missing
                               /\ ~(/\ readable(get(zap).ints[n])
                                    /\ get(get(zap).ints[n]).type \in DatasetLike)}
<1>1. readable(zap) /\ DanglingClones(zap) = <<>>
  <2>1. found("CRITICAL", zap) # {}
    BY DEF found
  <2>2. check_clones_zap(zap).findings = IF readable(zap) /\ DanglingClones(zap) = <<>>
                                         THEN {} ELSE found("CRITICAL", zap)
    BY DEF check_clones_zap, Result
  <2> QED
    BY <2>1, <2>2
<1>2. Only(NameOrder, set) = <<>>
  BY <1>1 DEF DanglingClones, names
<1>3. ToSet(<<>>) = {}
  BY DEF ToSet
<1>4. \A n \in set : FALSE
  <2>1. \A n \in Key \cap set : n \in ToSet(Only(NameOrder, set))
    BY NamesKept
  <2> QED
    BY <1>2, <1>3, <2>1
<1> QED
  BY <1>1, <1>4 DEF ClonesClean, NamesIn, IsDataset, get

\* A dataset in which nothing is found is clean.
LEMMA DatasetFound ==
  ASSUME CacheInv, NEW ds \in Word, NEW dir, check_dataset(ds, dir).findings = {}
  PROVE  DatasetClean(ds)
<1> DEFINE nco == ref(ds, "next_clones_obj")
           clones == IF nco = 0 THEN Quiet ELSE check_clones_zap(nco)
           dangles(f) == ref(ds, f) # 0 /\ ~get(ref(ds, f)).exists
           links == (IF dangles("prev_snap_obj") THEN found("CRITICAL", ds) ELSE {})
                    \cup (IF dangles("deadlist_obj") \/ dangles("snapnames_zapobj")
                          THEN found("WARNING", ds) ELSE {})
<1>1. \A s : found(s, ds) # {}
  BY DEF found
<1>2. IsDataset(ds) /\ clones.findings = {} /\ links = {}
  <2>1. check_dataset(ds, dir).findings =
          IF ~get(ds).exists THEN found("CRITICAL", ds)
          ELSE IF get(ds).unreadable THEN found("CRITICAL", ds)
          ELSE IF get(ds).type \notin DatasetLike THEN found("WARNING", ds)
          ELSE clones.findings
               \cup (IF dangles("prev_snap_obj") THEN found("CRITICAL", ds) ELSE {})
               \cup (IF dangles("deadlist_obj") \/ dangles("snapnames_zapobj")
                     THEN found("WARNING", ds) ELSE {})
    BY DEF check_dataset, Result
  <2> HIDE DEF clones, dangles
  <2> QED
    BY <1>1, <2>1 DEF IsDataset, readable
<1>3. nco # 0 => ClonesClean(nco)
  <2>1. nco \in Word
    BY RefIsWord DEF ReadName
  <2> QED
    BY <1>2, <2>1, ClonesFound
<1>4. ASSUME NEW f \in LinkField, ref(ds, f) # 0 PROVE get(ref(ds, f)).exists
  <2>1. CASE f = "next_clones_obj"
    BY <1>3, <1>4, <2>1 DEF ClonesClean, readable
  <2>2. CASE f # "next_clones_obj"
    <3>1. ~dangles("prev_snap_obj") /\ ~dangles("deadlist_obj")
          /\ ~dangles("snapnames_zapobj")
      <4> HIDE DEF dangles
      <4> QED
        BY <1>1, <1>2
    <3> QED
      BY <1>4, <2>2, <3>1 DEF LinkField
  <2> QED
    BY <2>1, <2>2
<1> QED
  BY <1>2, <1>3, <1>4 DEF DatasetClean

\* A map in which nothing is found is readable, and a call is made for each of
\* its names.
LEMMA ChildmapFound ==
  ASSUME NEW zap, check_childmap(zap).findings = {}
  PROVE  /\ readable(zap)
         /\ \A n \in NamesIn(zap) \ SpecialName :
              Call("child", zap, 0, n) \in ToSet(check_childmap(zap).calls)
<1> DEFINE set == {n \in Key : get(zap).ints[n] # Missing /\ n \notin SpecialName}
           calls == Each(LAMBDA n : Call("child", zap, 0, n), Only(NameOrder, set))
<1>1. found("CRITICAL", zap) # {}
  BY DEF found
<1>2. check_childmap(zap) = IF ~readable(zap)
                            THEN Result(<<>>, found("CRITICAL", zap), <<>>)
                            ELSE Result(<<>>, {}, calls)
  BY DEF check_childmap, names
<1>3. readable(zap)
  BY <1>1, <1>2 DEF Result
<1>4. check_childmap(zap).calls = calls
  BY <1>2, <1>3 DEF Result
<1>5. ASSUME NEW n \in NamesIn(zap) \ SpecialName
      PROVE  Call("child", zap, 0, n) \in ToSet(calls)
  <2>1. n \in Key \cap set
    BY DEF NamesIn, get
  <2> HIDE DEF set
  <2>2. n \in ToSet(Only(NameOrder, set))
    BY <2>1, NamesKept
  <2> DEFINE s == Only(NameOrder, set)
  <2>3. PICK j \in DOMAIN s : s[j] = n
    BY <2>2 DEF ToSet
  <2>4. calls = [i \in DOMAIN s |-> Call("child", zap, 0, s[i])]
    BY DEF Each
  <2> HIDE DEF s, calls
  <2>5. j \in DOMAIN calls /\ calls[j] = Call("child", zap, 0, n)
    BY <2>3, <2>4
  <2> QED
    BY <2>5 DEF ToSet
<1> QED
  BY <1>3, <1>4, <1>5

\* A name in a map under which nothing is found names a directory, which is
\* walked next.
LEMMA ChildFound ==
  ASSUME NEW zap, NEW n, check_child(zap, n).findings = {}
  PROVE  LET child == get(zap).ints[n]
         IN  /\ get(child).exists /\ get(child).type \in DirLike
             /\ Call("dir", child, 0, Missing) \in ToSet(check_child(zap, n).calls)
<1> DEFINE child == get(zap).ints[n]
           c == Call("dir", child, 0, Missing)
<1>1. found("CRITICAL", zap) # {}
  BY DEF found
<1>2. check_child(zap, n) = IF get(child).exists /\ get(child).type \in DirLike
                            THEN Result(<<>>, {}, <<c>>)
                            ELSE Result(<<ZapRemove(zap, n)>>, found("CRITICAL", zap), <<>>)
  BY DEF check_child
<1> HIDE DEF c
<1>3. get(child).exists /\ get(child).type \in DirLike
  BY <1>1, <1>2 DEF Result
<1>4. check_child(zap, n).calls = <<c>>
  BY <1>2, <1>3 DEF Result
<1>5. c \in ToSet(<<c>>)
  <2>1. DOMAIN <<c>> = {1} /\ <<c>>[1] = c
    OBVIOUS
  <2> QED
    BY <2>1 DEF ToSet
<1> QED
  BY <1>3, <1>4, <1>5 DEF c

LEMMA WhenSet ==
  ASSUME NEW t, NEW c
  PROVE  /\ When(t, <<c>>) \in Seq({c})
         /\ t => c \in ToSet(When(t, <<c>>))
<1>1. <<c>> \in Seq({c}) /\ <<>> \in Seq({c})
  OBVIOUS
<1>2. c \in ToSet(<<c>>)
  <2>1. DOMAIN <<c>> = {1} /\ <<c>>[1] = c
    OBVIOUS
  <2> QED
    BY <2>1 DEF ToSet
<1>3. When(t, <<c>>) = IF t THEN <<c>> ELSE <<>>
  BY DEF When
<1>4. CASE t
  BY <1>1, <1>2, <1>3, <1>4
<1>5. CASE ~t
  BY <1>1, <1>3, <1>5
<1> QED
  BY <1>4, <1>5

\* A directory that is walked, and in which nothing is found, is one; its head,
\* its child map and its list of clones are looked at next.
LEMMA DirFound ==
  ASSUME NEW d, d \notin visited, walk_dsl_dir(d).findings = {}
  PROVE  LET head == ref(d, "head_dataset_obj")
             childmap == ref(d, "child_dir_zapobj")
             clones == ref(d, "clones")
             calls == ToSet(walk_dsl_dir(d).calls)
         IN  /\ KnownDir(d)
             /\ head # 0 => Call("dataset", head, d, Missing) \in calls
             /\ childmap # 0 => Call("childmap", childmap, d, Missing) \in calls
             /\ clones # 0 => Call("clones", clones, d, Missing) \in calls
<1> DEFINE head == ref(d, "head_dataset_obj")
           childmap == ref(d, "child_dir_zapobj")
           clones == ref(d, "clones")
           x == Call("dataset", head, d, Missing)
           y == Call("childmap", childmap, d, Missing)
           z == Call("clones", clones, d, Missing)
           a == When(head # 0, <<x>>)
           b == When(childmap # 0, <<y>>)
           c == When(clones # 0, <<z>>)
<1>1. found("CRITICAL", d) # {}
  BY DEF found
<1>2. walk_dsl_dir(d) = IF ~readable(d) \/ get(d).type \notin DirLike
                        THEN Result(<<>>, found("CRITICAL", d), <<>>)
                        ELSE Result(<<>>, {}, a \o b \o c)
  BY DEF walk_dsl_dir
<1>3. KnownDir(d)
  BY <1>1, <1>2 DEF Result, KnownDir
<1>4. walk_dsl_dir(d).calls = a \o b \o c
  BY <1>2, <1>3 DEF Result, KnownDir
<1>5. /\ a \in Seq({x}) /\ (head # 0 => x \in ToSet(a))
      /\ b \in Seq({y}) /\ (childmap # 0 => y \in ToSet(b))
      /\ c \in Seq({z}) /\ (clones # 0 => z \in ToSet(c))
  BY WhenSet
<1> HIDE DEF a, b, c, x, y, z
<1>6. ToSet(a \o b \o c) = ToSet(a) \cup ToSet(b) \cup ToSet(c)
  <2> DEFINE S == {x, y, z}
  <2>1. a \in Seq(S) /\ b \in Seq(S) /\ c \in Seq(S)
    BY <1>5, SeqMono, {x} \subseteq S, {y} \subseteq S, {z} \subseteq S
  <2> HIDE DEF S
  <2> DEFINE ab == a \o b
  <2>2. ab \in Seq(S) /\ ToSet(ab) = ToSet(a) \cup ToSet(b)
    BY <2>1, ToSetConcat, ConcatProperties
  <2> HIDE DEF ab
  <2>3. ToSet(ab \o c) = ToSet(ab) \cup ToSet(c)
    BY <2>1, <2>2, ToSetConcat
  <2> QED
    BY <2>2, <2>3 DEF ab
<1> QED
  BY <1>3, <1>4, <1>5, <1>6 DEF x, y, z

LEMMA RunFound ==
  ASSUME CacheInv, run.findings = {}
  PROVE  LET root == ref(MosDir, "root_dataset")
         IN  /\ readable(MosDir) /\ root # 0
             /\ Call("dir", root, 0, Missing) \in ToSet(run.calls)
<1> DEFINE root == ref(MosDir, "root_dataset")
           first == <<Call("errlog_last", MosDir, 0, Missing),
                      Call("errlog_scrub", MosDir, 0, Missing),
                      Call("scan", MosDir, 0, Missing)>>
           c == Call("dir", root, 0, Missing)
           last == When(root # 0, <<c>>)
<1>1. found("CRITICAL", MosDir) # {}
  BY DEF found
<1>2. run = IF ~readable(MosDir) THEN Result(<<>>, found("CRITICAL", MosDir), <<>>)
            ELSE Result(<<>>, IF root = 0 THEN found("CRITICAL", MosDir) ELSE {},
                        first \o last)
  BY DEF run
<1>3. readable(MosDir) /\ root # 0
  BY <1>1, <1>2 DEF Result
<1>4. run.calls = first \o last
  BY <1>2, <1>3 DEF Result
<1>5. last \in Seq({c}) /\ c \in ToSet(last)
  BY <1>3, WhenSet
<1>6. c \in ToSet(first \o last)
  <2> DEFINE S == {Call("errlog_last", MosDir, 0, Missing),
                   Call("errlog_scrub", MosDir, 0, Missing),
                   Call("scan", MosDir, 0, Missing), c}
  <2>1. first \in Seq(S)
    OBVIOUS
  <2>2. last \in Seq(S)
    <3> HIDE DEF last
    <3> QED
      BY <1>5, SeqMono, {c} \subseteq S
  <2> HIDE DEF S, first, last
  <2> QED
    BY <1>5, <2>1, <2>2, ToSetConcat
<1> QED
  BY <1>3, <1>4, <1>6

\* A step of the scanner that finds nothing: h is the call that is run.
Takes(h, r) ==
  /\ cache' = cache /\ r = Outcome(h) /\ r.findings = {}
  /\ ToSet(agenda) \subseteq {h} \cup ToSet(agenda')
  /\ ToSet(r.calls) \subseteq ToSet(agenda')
  /\ visited' = IF h.do = "dir" THEN visited \cup {h.obj} ELSE visited

\* What such a call leads to is on the agenda, or clean.
LEMMA TakenSettles ==
  ASSUME CacheInv, NEW h, NEW r, Takes(h, r)
  PROVE  CallsSettle /\ SeenStays
<1>1. ASSUME NEW do, NEW o, Pending(do, o)
      PROVE  Pending(do, o)' \/ (h.do = do /\ h.obj = o)
  BY <1>1 DEF Takes, Pending
<1>2. SeenStays
  BY DEF SeenStays, Takes, get
<1>3. CacheInv'
  BY SameCache DEF Takes
<1>4. ASSUME NEW o \in Word, h.do = "dataset", h.obj = o PROVE DatasetClean(o)'
  <2>1. Outcome(h) = check_dataset(o, h.dir)
    BY <1>4 DEF Outcome
  <2>2. DatasetClean(o)
    BY <2>1, DatasetFound DEF Takes
  <2> QED
    BY <1>2, <2>2, DatasetStays
<1>5. ASSUME NEW o \in Word, h.do = "clones", h.obj = o PROVE ClonesClean(o)'
  <2>1. Outcome(h) = check_clones_zap(o)
    BY <1>5 DEF Outcome
  <2>2. ClonesClean(o)
    BY <2>1, ClonesFound DEF Takes
  <2> QED
    BY <1>2, <2>2, ClonesStay
<1>6. ASSUME NEW o \in Word, h.do = "childmap", h.obj = o PROVE MapClean(o)'
  <2>1. Outcome(h) = check_childmap(o)
    BY <1>6 DEF Outcome
  <2>2. /\ readable(o)
        /\ \A n \in NamesIn(o) \ SpecialName :
             Call("child", o, 0, n) \in ToSet(check_childmap(o).calls)
    BY <2>1, ChildmapFound DEF Takes
  <2>3. \A n \in NamesIn(o) \ SpecialName : PendingChild(o, n)'
    <3>1. \A n : /\ Call("child", o, 0, n).do = "child" /\ Call("child", o, 0, n).obj = o
                 /\ Call("child", o, 0, n).key = n
      BY DEF Call
    <3> QED
      BY <2>1, <2>2, <3>1 DEF Takes, PendingChild
  <2>4. readable(o)' /\ NamesIn(o)' = NamesIn(o)
    BY <2>2 DEF Takes, readable, get, NamesIn
  <2> QED
    BY <2>3, <2>4 DEF MapClean
<1>7. ASSUME NEW d \in Word, DirReached(d) PROVE DirReached(d)'
  BY <1>1, <1>7 DEF DirReached, Takes
<1>8. ASSUME NEW z \in Word, NEW n \in Key, PendingChild(z, n)
      PROVE  PendingChild(z, n)' \/ ChildClean(get(z).ints[n])'
  <2>1. CASE PendingChild(z, n)'
    BY <2>1
  <2>2. CASE h.do = "child" /\ h.obj = z /\ h.key = n
    <3>1. Outcome(h) = check_child(z, n)
      BY <2>2 DEF Outcome
    <3>2. PICK v : v = get(z).ints[n]
      OBVIOUS
    <3>3. /\ get(v).exists /\ get(v).type \in DirLike
          /\ Call("dir", v, 0, Missing) \in ToSet(r.calls)
      BY <3>1, <3>2, ChildFound DEF Takes
    <3>4. Pending("dir", v)'
      <4>1. Call("dir", v, 0, Missing).do = "dir" /\ Call("dir", v, 0, Missing).obj = v
        BY DEF Call
      <4> QED
        BY <3>3, <4>1 DEF Takes, Pending
    <3>5. get(v)' = get(v) /\ get(z)'.ints[n] = v
      BY <3>2 DEF Takes, get
    <3>6. ChildClean(v)'
      BY <3>3, <3>4, <3>5 DEF ChildClean, DirReached
    <3> QED
      BY <3>5, <3>6
  <2> QED
    BY <1>8, <2>1, <2>2 DEF Takes, PendingChild
<1> QED
  BY <1>1, <1>2, <1>4, <1>5, <1>6, <1>7, <1>8 DEF CallsSettle

\* Running a call keeps the invariant.  A directory that is visited now is clean
\* up to the calls that it puts on the agenda.
LEMMA WalkStep ==
  ASSUME CacheInv, AgendaInv, WalkInv, Step
  PROVE  WalkInv'
<1>1. /\ agenda # <<>> /\ agenda \in Seq(Calls) /\ mode = "scan" /\ mode' = "scan"
      /\ cache' = cache
  BY DEF Step, AgendaInv
<1>2. PICK h : h = Head(agenda)
  OBVIOUS
<1>3. PICK r : r = Outcome(h)
  OBVIOUS
<1>4. h \in Calls /\ Tail(agenda) \in Seq(Calls)
  BY <1>1, <1>2
<1>5. h.obj \in Word /\ r.calls \in Seq(Calls)
  BY <1>3, <1>4, OutcomeYields DEF Yields, Calls
<1>6. /\ agenda' = r.calls \o Tail(agenda) /\ findings' = findings \cup r.findings
      /\ visited' = IF h.do = "dir" THEN visited \cup {h.obj} ELSE visited
  BY <1>2, <1>3 DEF Step
<1>7. visited' \subseteq Word
  BY <1>5, <1>6 DEF WalkInv
<1>8. ASSUME findings' = {} PROVE RootClean' /\ \A d \in visited' : DirClean(d)'
  <2>1. findings = {} /\ r.findings = {}
    BY <1>6, <1>8
  <2>2. RootClean /\ \A d \in visited : DirClean(d)
    BY <1>1, <2>1 DEF WalkInv
  <2>3. ToSet(agenda) = {h} \cup ToSet(Tail(agenda))
    BY <1>1, <1>2, ToSetHead
  <2>4. ToSet(r.calls \o Tail(agenda)) = ToSet(r.calls) \cup ToSet(Tail(agenda))
    BY <1>4, <1>5, ToSetConcat
  <2>5. Takes(h, r)
    BY <1>1, <1>3, <1>6, <2>1, <2>3, <2>4 DEF Takes
  <2>6. CallsSettle /\ SeenStays
    BY <2>5, TakenSettles
  <2>7. RootClean'
    <3>1. CASE Pending("run", MosDir)'
      BY <3>1 DEF RootClean
    <3>2. CASE Pending("run", MosDir) /\ ~Pending("run", MosDir)'
      <4>1. h.do = "run"
        BY <2>5, <3>2 DEF Takes, Pending
      <4>2. Outcome(h) = run
        BY <4>1 DEF Outcome
      <4>3. MosDir \in Word
        BY ScannerAssumption, MissingNoWord
      <4>4. PICK root \in Word : root = ref(MosDir, "root_dataset")
        BY <4>3, RefIsWord DEF ReadName
      <4>5. /\ readable(MosDir) /\ root # 0
            /\ Call("dir", root, 0, Missing) \in ToSet(r.calls)
        BY <1>3, <2>1, <4>2, <4>4, RunFound
      <4>6. Pending("dir", root)'
        <5>1. Call("dir", root, 0, Missing).do = "dir"
              /\ Call("dir", root, 0, Missing).obj = root
          BY DEF Call
        <5> QED
          BY <2>5, <4>5, <5>1 DEF Takes, Pending
      <4>7. readable(MosDir)' /\ ref(MosDir, "root_dataset")' = root
        BY <1>1, <4>4, <4>5 DEF readable, ref, get
      <4> QED
        BY <4>5, <4>6, <4>7 DEF RootClean, DirReached
    <3>3. CASE ~Pending("run", MosDir)
      BY <2>2, <2>6, <3>3, RootStays DEF RootClean
    <3> QED
      BY <3>1, <3>2, <3>3
  <2>8. ASSUME NEW d \in visited' PROVE DirClean(d)'
    <3>1. CASE d \in visited
      <4>1. d \in Word /\ DirClean(d)
        BY <2>2, <3>1 DEF WalkInv
      <4> QED
        BY <2>6, <4>1, DirStays
    <3>2. CASE d \notin visited
      <4>1. h.do = "dir" /\ h.obj = d
        BY <1>6, <2>8, <3>2
      <4>2. r = walk_dsl_dir(d)
        BY <1>3, <4>1 DEF Outcome
      <4>3. /\ KnownDir(d)
            /\ ref(d, "head_dataset_obj") # 0 =>
                 Call("dataset", ref(d, "head_dataset_obj"), d, Missing) \in ToSet(r.calls)
            /\ ref(d, "child_dir_zapobj") # 0 =>
                 Call("childmap", ref(d, "child_dir_zapobj"), d, Missing) \in ToSet(r.calls)
            /\ ref(d, "clones") # 0 =>
                 Call("clones", ref(d, "clones"), d, Missing) \in ToSet(r.calls)
        BY <2>1, <3>2, <4>2, DirFound
      <4>4. PICK x : x = ref(d, "head_dataset_obj")
        OBVIOUS
      <4>5. PICK y : y = ref(d, "child_dir_zapobj")
        OBVIOUS
      <4>6. PICK z : z = ref(d, "clones")
        OBVIOUS
      <4>7. \A do, o : /\ Call(do, o, d, Missing).do = do /\ Call(do, o, d, Missing).obj = o
        BY DEF Call
      <4>8. /\ x # 0 => Pending("dataset", x)'
            /\ y # 0 => Pending("childmap", y)'
            /\ z # 0 => Pending("clones", z)'
        BY <2>5, <4>3, <4>4, <4>5, <4>6, <4>7 DEF Takes, Pending
      <4>9. /\ KnownDir(d)' /\ ref(d, "head_dataset_obj")' = x
            /\ ref(d, "child_dir_zapobj")' = y /\ ref(d, "clones")' = z
        BY <1>1, <4>3, <4>4, <4>5, <4>6 DEF KnownDir, readable, ref, get
      <4> QED
        BY <4>8, <4>9 DEF DirClean, HeadClean, ChildrenClean, DirClonesClean
    <3> QED
      BY <3>1, <3>2
  <2> QED
    BY <2>7, <2>8
<1> QED
  BY <1>1, <1>7, <1>8 DEF WalkInv

\* The agenda, the dumps and what was visited are all that it depends on.
LEMMA SameWalk ==
  ASSUME UNCHANGED <<cache, agenda, visited>>
  PROVE  RootClean' = RootClean /\ \A d : DirClean(d)' = DirClean(d)
<1>1. /\ \A o : get(o)' = get(o) /\ readable(o)' = readable(o) /\ NamesIn(o)' = NamesIn(o)
      /\ \A o, n : ref(o, n)' = ref(o, n)
      /\ agenda' = agenda /\ visited' = visited
  BY DEF get, readable, NamesIn, ref
<1>2. RootClean' = RootClean
  BY <1>1 DEF RootClean, Pending, DirReached
<1>3. ASSUME NEW d PROVE DirClean(d)' = DirClean(d)
  BY <1>1
  DEF DirClean, KnownDir, HeadClean, ChildrenClean, DirClonesClean, MapClean,
      ClonesClean, DatasetClean, IsDataset, ChildClean, DirReached, Pending,
      PendingChild
<1> QED
  BY <1>2, <1>3

LEMMA WalkInit == TInit => WalkInv
BY DEF TInit, Init, WalkInv

LEMMA WalkNext == TriageInv /\ WalkInv /\ [TNext]_tvars => WalkInv'
<1> SUFFICES ASSUME TriageInv, WalkInv, [TNext]_tvars PROVE WalkInv'
  OBVIOUS
<1>0. ASSUME UNCHANGED <<cache, walkVars, mode, exit>> PROVE WalkInv'
  BY <1>0, SameWalk DEF WalkInv, walkVars
<1>1. ASSUME mode' = "idle", UNCHANGED visited PROVE WalkInv'
  BY <1>1 DEF WalkInv
<1>2. CASE Commit \/ Leave \/ Alone(ZdbNotFound)
  BY <1>1, <1>2 DEF Commit, Leave, Alone, ZdbNotFound, walkVars
<1>3. CASE Alone(ScanStart)
  <2>1. /\ mode' = "scan" /\ visited' = {}
        /\ agenda' = <<Call("run", MosDir, 0, Missing)>>
    BY <1>3 DEF Alone, ScanStart
  <2>2. Pending("run", MosDir)'
    <3> DEFINE c == Call("run", MosDir, 0, Missing)
    <3>1. c.do = "run" /\ c.obj = MosDir
      BY DEF Call
    <3> HIDE DEF c
    <3>2. c \in ToSet(<<c>>)
      <4>1. DOMAIN <<c>> = {1} /\ <<c>>[1] = c
        OBVIOUS
      <4> QED
        BY <4>1 DEF ToSet
    <3> QED
      BY <2>1, <3>1, <3>2 DEF Pending, c
  <2> QED
    BY <2>1, <2>2 DEF WalkInv, RootClean
<1>4. CASE Alone(Fetch)
  <2> DEFINE o == Head(Unread)
  <2>1. /\ agenda # <<>> /\ Unread # <<>> /\ mode = "scan"
        /\ \/ \E d \in Dumps(pool, o) : cache' = [cache EXCEPT ![o] = d]
           \/ cache' = [cache EXCEPT ![o] = NoDump]
        /\ UNCHANGED <<walkVars, mode>>
    BY <1>4 DEF Alone, Fetch
  <2>2. Head(agenda) \in Calls /\ CacheInv
    BY <2>1 DEF TriageInv, AgendaInv
  <2>3. Unread \in Seq(Word \cap {p \in Obj : ~get(p).fetched})
    BY <2>2, ReadsType, OnlyType DEF Unread
  <2>4. PICK p \in Obj : p = o /\ ~cache[p].fetched
    BY <2>1, <2>3 DEF get
  <2> HIDE DEF o
  <2>5. PICK d : cache' = [cache EXCEPT ![p] = d]
    BY <2>1, <2>4
  <2> QED
    BY <2>1, <2>2, <2>4, <2>5, WalkFetch
<1>5. CASE Alone(Step)
  BY <1>5, WalkStep DEF Alone, TriageInv
<1>6. CASE Alone(Report)
  <2>1. /\ mode = "scan" /\ mode' = "done" /\ agenda = <<>>
        /\ exit' = IF findings = {} THEN "0" ELSE "1"
        /\ UNCHANGED <<cache, agenda, visited, findings>>
    BY <1>6 DEF Alone, Report
  <2> QED
    BY <2>1, SameWalk DEF WalkInv
<1>7. CASE Alone(Outside)
  BY <1>0, <1>7 DEF Alone, Outside
<1>8. CASE UNCHANGED tvars
  BY <1>0, <1>8 DEF tvars, vars
<1> QED
  BY <1>2, <1>3, <1>4, <1>5, <1>6, <1>7, <1>8 DEF TNext

\* What a scan that found nothing, and has no call left, has seen to.
Clean ==
  /\ Undisturbed /\ ZapOrBonus(pool) /\ visited \subseteq Word
  /\ readable(MosDir) /\ ref(MosDir, "root_dataset") \in visited
  /\ agenda = <<>> /\ \A d \in visited : DirClean(d)

\* What a readable object refers to is in its dump, under the same name.
LEMMA EntryShown ==
  ASSUME Clean, NEW o \in Word, readable(o)
  PROVE  /\ o \in Obj /\ Readable(pool, o) /\ pool[o].type = get(o).type
         /\ \A n \in Key : Len(pool[o].zap[n]) = 1 =>
              n \in NamesIn(o) /\ get(o).ints[n] = pool[o].zap[n][1]
         /\ \A f \in Field : pool[o].bonus[f] # 0 =>
              <<f>> \in NamesIn(o) /\ get(o).ints[<<f>>] = pool[o].bonus[f]
<1>1. pool \in Image /\ cache[o].exists /\ ~cache[o].unreadable /\ CacheInv
  BY DEF Clean, Undisturbed, TriageInv, readable, get
<1>2. o \in Obj
  BY <1>1 DEF CacheInv, DumpOf
<1>3. cache[o] \in Dumps(pool, o)
  BY <1>1, <1>2 DEF Clean, Undisturbed, TriageInv, CacheTrue, get
<1>4. pool[o].io \in BOOLEAN /\ pool[o] \in ObjState
  BY <1>1, <1>2 DEF Image, ObjState
<1>5. /\ Exists(pool, o) /\ cache[o].type = pool[o].type /\ pool[o].io
      /\ cache[o].ints = ZapInts(pool[o])
  BY <1>1, <1>2, <1>3, <1>4, DumpShows
<1>6. Readable(pool, o)
  BY <1>5 DEF Readable
<1>7. ASSUME NEW n \in Key, Len(pool[o].zap[n]) = 1
      PROVE  n \in NamesIn(o) /\ get(o).ints[n] = pool[o].zap[n][1]
  <2>1. cache[o].ints[n] = pool[o].zap[n][1]
    BY <1>5, <1>7 DEF ZapInts
  <2>2. pool[o].zap[n] \in Seq(Word)
    BY <1>4 DEF ObjState, Zap
  <2>3. pool[o].zap[n][1] \in Word
    BY <1>7, <2>2
  <2> QED
    BY <2>1, <2>3, MissingNoWord DEF NamesIn, get
<1>8. ASSUME NEW f \in Field, pool[o].bonus[f] # 0
      PROVE  <<f>> \in NamesIn(o) /\ get(o).ints[<<f>>] = pool[o].bonus[f]
  <2>1. /\ f \in BonusFields[pool[o].type]
        /\ \A k \in Key : pool[o].zap[k] = <<>>
    BY <1>2, <1>5, <1>8 DEF Clean, ZapOrBonus
  <2>2. <<f>> \in Key /\ <<f>>[1] = f /\ Len(<<>>) = 0
    BY ScannerAssumption
  <2>3. Len(pool[o].zap[<<f>>]) # 1
    BY <2>1, <2>2
  <2>4. cache[o].ints[<<f>>] = BonusInts(pool[o])[<<f>>]
    BY <1>5, <2>2, <2>3 DEF ZapInts
  <2>5. BonusInts(pool[o])[<<f>>] = pool[o].bonus[f]
    BY <2>1, <2>2 DEF BonusInts
  <2>6. pool[o].bonus[f] \in Word
    BY <1>4 DEF ObjState
  <2> QED
    BY <2>2, <2>4, <2>5, <2>6, MissingNoWord DEF NamesIn, get
<1> QED
  BY <1>2, <1>5, <1>6, <1>7, <1>8 DEF get

LEMMA FieldRef ==
  ASSUME Clean, NEW o \in Word, readable(o), NEW f \in DirField \cup LinkField,
         pool[o].bonus[f] # 0
  PROVE  ref(o, f) = pool[o].bonus[f]
<1>1. f \in Field
  BY TriageAssumption
<1>2. <<f>> \in NamesIn(o) /\ get(o).ints[<<f>>] = pool[o].bonus[f]
  BY <1>1, EntryShown
<1> QED
  BY <1>2 DEF ref, NamesIn, get

\* A reference that dangles is one under a name of the dump, to an object of
\* which no dump shows that it exists.
LEMMA DanglingShown ==
  ASSUME Clean, NEW o \in Word, readable(o), NEW k, <<o, k>> \in DanglingRefs(pool)
  PROVE  /\ k \in NamesIn(o) /\ get(o).ints[k] # 0
         /\ ~get(get(o).ints[k]).exists
<1>1. <<o, k>> \in ZapRefs(pool, o) \cup BonusRefs(pool, o)
  <2>1. PICK p \in Obj : <<o, k>> \in ZapRefs(pool, p) \cup BonusRefs(pool, p)
    BY DEF DanglingRefs
  <2>2. p = o
    BY <2>1 DEF ZapRefs, BonusRefs
  <2> QED
    BY <2>1, <2>2
<1>2. PICK v : /\ k \in NamesIn(o) /\ get(o).ints[k] = v /\ v # 0 /\ ~Exists(pool, v)
  <2>1. CASE <<o, k>> \in ZapRefs(pool, o)
    <3>1. /\ k \in Key /\ Len(pool[o].zap[k]) = 1
          /\ pool[o].zap[k][1] # 0 /\ ~Exists(pool, pool[o].zap[k][1])
      BY <2>1 DEF ZapRefs
    <3> QED
      BY <3>1, EntryShown
  <2>2. CASE <<o, k>> \in BonusRefs(pool, o)
    <3>1. PICK f \in Field : /\ k = <<f>> /\ pool[o].bonus[f] # 0
                             /\ ~Exists(pool, pool[o].bonus[f])
      BY <2>2 DEF BonusRefs
    <3> QED
      BY <3>1, EntryShown
  <2> QED
    BY <1>1, <2>1, <2>2
<1>3. v \in Word /\ CacheInv /\ pool \in Image
  BY <1>2, NamesInDump DEF get, Clean, Undisturbed, TriageInv
<1>4. ~get(v).exists
  <2> SUFFICES ASSUME get(v).exists PROVE FALSE
    OBVIOUS
  <2>1. v \in Obj /\ cache[v].exists
    BY <1>3 DEF CacheInv, DumpOf, get
  <2>2. cache[v] \in Dumps(pool, v)
    BY <2>1 DEF Clean, Undisturbed, TriageInv, CacheTrue, get
  <2> QED
    BY <1>2, <1>3, <2>1, <2>2, DumpShows
<1> QED
  BY <1>2, <1>4

LEMMA NonePending ==
  ASSUME Clean
  PROVE  \A do, o : ~Pending(do, o) /\ ~PendingChild(do, o)
<1>1. ToSet(agenda) = {}
  BY DEF Clean, ToSet
<1> QED
  BY <1>1 DEF Pending, PendingChild

\* What the dumps show of a directory that was visited.
LEMMA VisitedClean ==
  ASSUME Clean, NEW d \in visited \cap Obj
  PROVE  LET b == pool[d].bonus
         IN  /\ d \in Word /\ readable(d) /\ Readable(pool, d) /\ pool[d].type \in DirLike
             /\ \A f \in DirField : b[f] \in Word /\ (b[f] # 0 => ref(d, f) = b[f])
             /\ b["head_dataset_obj"] # 0 => DatasetClean(b["head_dataset_obj"])
             /\ b["child_dir_zapobj"] # 0 => MapClean(b["child_dir_zapobj"])
             /\ b["clones"] # 0 => ClonesClean(b["clones"])
<1>1. d \in Word /\ DirClean(d) /\ pool \in Image
  BY DEF Clean, Undisturbed, TriageInv
<1>2. readable(d) /\ get(d).type \in DirLike
  BY <1>1 DEF DirClean, KnownDir
<1>3. Readable(pool, d) /\ pool[d].type \in DirLike
  BY <1>1, <1>2, EntryShown
<1>4. ASSUME NEW f \in DirField
      PROVE  pool[d].bonus[f] \in Word /\ (pool[d].bonus[f] # 0 => ref(d, f) = pool[d].bonus[f])
  <2>1. f \in Field
    BY TriageAssumption
  <2>2. pool[d].bonus[f] \in Word
    BY <1>1, <2>1 DEF Image, ObjState
  <2> QED
    BY <1>1, <1>2, <2>2, FieldRef
<1>5. /\ HeadClean(ref(d, "head_dataset_obj"))
      /\ ChildrenClean(ref(d, "child_dir_zapobj")) /\ DirClonesClean(ref(d, "clones"))
  BY <1>1 DEF DirClean
<1>6. {"head_dataset_obj", "child_dir_zapobj", "clones"} = DirField
  BY DEF DirField
<1> QED
  BY <1>1, <1>2, <1>3, <1>4, <1>5, <1>6, NonePending
  DEF HeadClean, ChildrenClean, DirClonesClean

\* The directories below the root have all been visited: the walk is closed under
\* entering the names of a child map.
LEMMA WalkedVisited ==
  ASSUME Clean
  PROVE  WalkedDirs(pool) \subseteq visited \cap Obj
<1> DEFINE D == visited \cap Entered(pool)
<1>1. RootDir(pool) \subseteq D
  <2> SUFFICES ASSUME NEW o \in Obj, pool[MosDir].zap[<<"root_dataset">>] = <<o>>
               PROVE  o \in visited
    BY DEF RootDir, Entered
  <2>1. /\ MosDir \in Word /\ readable(MosDir) /\ <<"root_dataset">> \in Key
        /\ ref(MosDir, "root_dataset") \in visited
    BY ScannerAssumption, MissingNoWord DEF Clean, ReadName
  <2>2. Len(<<o>>) = 1 /\ <<o>>[1] = o
    OBVIOUS
  <2>3. /\ <<"root_dataset">> \in NamesIn(MosDir)
        /\ get(MosDir).ints[<<"root_dataset">>] = o
    BY <2>1, <2>2, EntryShown
  <2>4. ref(MosDir, "root_dataset") = o
    BY <2>3 DEF ref, NamesIn, get
  <2> QED
    BY <2>1, <2>4
<1>2. ASSUME NEW d \in D PROVE EnteredFrom(pool, d) \subseteq D
  <2>1. d \in visited \cap Obj
    BY <1>2 DEF Entered, RootDir, EnteredFrom
  <2> DEFINE map == pool[d].bonus["child_dir_zapobj"]
  <2> SUFFICES ASSUME NEW o \in Obj, Readable(pool, map), NEW k \in Key \ SpecialName,
                      pool[map].zap[k] = <<o>>
               PROVE  o \in visited
    <3>1. EnteredFrom(pool, d) \subseteq Entered(pool)
      BY <2>1 DEF Entered
    <3>2. EnteredFrom(pool, d) =
            IF ~Readable(pool, map) THEN {}
            ELSE {o \in Obj : \E k \in Key \ SpecialName : pool[map].zap[k] = <<o>>}
      BY DEF EnteredFrom
    <3> HIDE DEF map
    <3> QED
      BY <3>1, <3>2
  <2>2. map \in Obj /\ map # 0 /\ map \in Word
    BY MosAssumption, MissingNoWord DEF Readable, Exists
  <2>3. MapClean(map)
    BY <2>1, <2>2, VisitedClean
  <2> HIDE DEF map
  <2>4. Len(<<o>>) = 1 /\ <<o>>[1] = o
    OBVIOUS
  <2>5. readable(map)
    BY <2>3 DEF MapClean
  <2>6. k \in NamesIn(map) /\ get(map).ints[k] = o
    BY <2>2, <2>4, <2>5, EntryShown
  <2>7. ChildClean(o)
    BY <2>3, <2>6, NonePending DEF MapClean
  <2> QED
    BY <2>7, NonePending DEF ChildClean, DirReached
<1>3. D \in SUBSET Entered(pool)
  OBVIOUS
<1> HIDE DEF D
<1>4. WalkedDirs(pool) \subseteq D
  BY <1>1, <1>2, <1>3 DEF WalkedDirs
<1>5. Entered(pool) \subseteq Obj
  BY DEF Entered, RootDir, EnteredFrom
<1> QED
  BY <1>4, <1>5 DEF D

\* Nothing that the walk follows from a clean directory dangles.
LEMMA FollowedClean ==
  ASSUME Clean, NEW d \in visited \cap Obj, NEW o, NEW k,
         <<o, k>> \in FollowedOf(pool, d), <<o, k>> \in DanglingRefs(pool)
  PROVE  FALSE
<1>1. PICK b : b = pool[d].bonus
  OBVIOUS
<1>2. /\ d \in Word /\ readable(d) /\ Readable(pool, d) /\ pool[d].type \in DirLike
      /\ \A f \in DirField : b[f] \in Word /\ (b[f] # 0 => ref(d, f) = b[f])
      /\ b["head_dataset_obj"] # 0 => DatasetClean(b["head_dataset_obj"])
      /\ b["child_dir_zapobj"] # 0 => MapClean(b["child_dir_zapobj"])
      /\ b["clones"] # 0 => ClonesClean(b["clones"])
  BY <1>1, VisitedClean
<1>3. o \in Obj /\ o \in Word /\ o # 0
  BY MosAssumption, MissingNoWord DEF DanglingRefs, ZapRefs, BonusRefs
<1>4. ASSUME readable(o)
      PROVE  k \in NamesIn(o) /\ get(o).ints[k] # 0 /\ ~get(get(o).ints[k]).exists
  BY <1>3, <1>4, DanglingShown
<1>5. ASSUME ClonesClean(o) PROVE FALSE
  BY <1>4, <1>5 DEF ClonesClean, IsDataset, readable
<1>6. ASSUME NEW f, k = <<f>>, readable(o) PROVE ref(o, f) # 0 /\ ~get(ref(o, f)).exists
  BY <1>4, <1>6 DEF ref, NamesIn, get
<1> DEFINE head == b["head_dataset_obj"]
<1>7. CASE o = d /\ \E f \in DirField : k = <<f>>
  <2>1. PICK f \in DirField : k = <<f>>
    BY <1>7
  <2>2. ref(d, f) # 0 /\ ~get(ref(d, f)).exists
    BY <1>2, <1>6, <1>7, <2>1
  <2>3. DirClean(d)
    BY <1>2 DEF Clean
  <2>4. /\ f = "head_dataset_obj" => DatasetClean(ref(d, f))
        /\ f = "child_dir_zapobj" => MapClean(ref(d, f))
        /\ f = "clones" => ClonesClean(ref(d, f))
    BY <2>2, <2>3, NonePending DEF DirClean, HeadClean, ChildrenClean, DirClonesClean
  <2> QED
    BY <2>2, <2>4
    DEF DirField, DatasetClean, IsDataset, MapClean, ClonesClean, readable
<1>8. CASE o = b["child_dir_zapobj"] /\ k \in Key \ SpecialName
  <2>1. MapClean(o)
    BY <1>2, <1>3, <1>8
  <2>2. k \in NamesIn(o) \ SpecialName /\ ~get(get(o).ints[k]).exists
    BY <1>4, <1>8, <2>1 DEF MapClean
  <2> QED
    BY <2>1, <2>2, NonePending DEF MapClean, ChildClean
<1>9. CASE o = b["clones"]
  BY <1>2, <1>3, <1>5, <1>9
<1>10. ASSUME Readable(pool, head) PROVE DatasetClean(head) /\ head \in Word /\ readable(head)
  <2>1. head \in Obj /\ head # 0
    BY <1>10, MosAssumption DEF Readable, Exists
  <2> QED
    BY <1>2, <2>1, MissingNoWord DEF DatasetClean, IsDataset
<1>11. CASE Readable(pool, head) /\ o = head /\ \E f \in LinkField : k = <<f>>
  <2>1. PICK f \in LinkField : k = <<f>>
    BY <1>11
  <2>2. DatasetClean(o) /\ readable(o)
    BY <1>10, <1>11
  <2>3. ref(o, f) # 0 /\ ~get(ref(o, f)).exists
    BY <1>6, <2>1, <2>2
  <2> QED
    BY <2>2, <2>3 DEF DatasetClean
<1>12. CASE Readable(pool, head) /\ o = pool[head].bonus["next_clones_obj"]
  <2>1. DatasetClean(head) /\ head \in Word /\ readable(head)
    BY <1>10, <1>12
  <2>2. ref(head, "next_clones_obj") = o
    BY <1>3, <1>12, <2>1, FieldRef DEF LinkField
  <2>3. ClonesClean(o)
    BY <1>3, <2>1, <2>2 DEF DatasetClean
  <2> QED
    BY <1>5, <2>3
<1>13. FollowedOf(pool, d) =
         ({d} \X {<<f>> : f \in DirField})
         \cup ({b["child_dir_zapobj"]} \X (Key \ SpecialName))
         \cup ({b["clones"]} \X Key)
         \cup (IF ~Readable(pool, head) THEN {}
               ELSE ({head} \X {<<f>> : f \in LinkField})
                    \cup ({pool[head].bonus["next_clones_obj"]} \X Key))
  BY <1>1 DEF FollowedOf
<1> HIDE DEF head
<1> QED
  BY <1>7, <1>8, <1>9, <1>11, <1>12, <1>13

LEMMA CleanIsTrue ==
  ASSUME Clean
  PROVE  /\ \A d \in WalkedDirs(pool) : SoundDir(pool, d)
         /\ FollowedRefs(pool) \cap DanglingRefs(pool) = {}
<1>1. ASSUME NEW d \in WalkedDirs(pool) PROVE SoundDir(pool, d)
  <2>1. d \in visited \cap Obj
    BY <1>1, WalkedVisited
  <2>2. PICK head : head = pool[d].bonus["head_dataset_obj"]
    OBVIOUS
  <2>3. /\ Readable(pool, d) /\ pool[d].type \in DirLike /\ head \in Word
        /\ head # 0 => DatasetClean(head)
    BY <2>1, <2>2, VisitedClean DEF DirField
  <2>4. head # 0 => Readable(pool, head) /\ pool[head].type \in DatasetLike
    BY <2>3, EntryShown DEF DatasetClean, IsDataset
  <2> QED
    BY <2>2, <2>3, <2>4 DEF SoundDir
<1>2. FollowedRefs(pool) \cap DanglingRefs(pool) = {}
  <2> SUFFICES ASSUME NEW x \in FollowedRefs(pool), x \in DanglingRefs(pool)
               PROVE  FALSE
    OBVIOUS
  <2>1. PICK o, k : x = <<o, k>>
    BY DEF DanglingRefs, ZapRefs, BonusRefs
  <2>2. PICK d \in WalkedDirs(pool) : x \in FollowedOf(pool, d)
    BY DEF FollowedRefs
  <2>3. d \in visited \cap Obj
    BY <2>2, WalkedVisited
  <2> QED
    BY <2>1, <2>2, <2>3, FollowedClean
<1> QED
  BY <1>1, <1>2

\* "The MOS namespace is referentially consistent": when the scanner prints it, of
\* a pool that nobody changed meanwhile, every directory below the root can be
\* read and is one, and so is its head, and no reference that the walk follows
\* dangles, whatever dumps were lost.  Where nothing else dangles either, the pool
\* is consistent.
THEOREM CleanReportIsTrue ==
  TSpec => [](ZapOrBonus(pool) => CleanWalk /\ (FollowsAll(pool) => CleanIsConsistent))
<1>1. TriageInv /\ WalkInv =>
        (ZapOrBonus(pool) => CleanWalk /\ (FollowsAll(pool) => CleanIsConsistent))
  <2> SUFFICES ASSUME TriageInv, WalkInv, ZapOrBonus(pool),
                      mode = "done", exit = "0", drift = 0
               PROVE  /\ \A d \in WalkedDirs(pool) : SoundDir(pool, d)
                      /\ FollowedRefs(pool) \cap DanglingRefs(pool) = {}
                      /\ FollowsAll(pool) => DanglingRefs(pool) = {}
    BY DEF CleanWalk, CleanIsConsistent
  <2>1. agenda = <<>> /\ RootClean /\ (\A d \in visited : DirClean(d))
        /\ visited \subseteq Word
    BY DEF WalkInv
  <2>2. ToSet(agenda) = {}
    BY <2>1 DEF ToSet
  <2>3. readable(MosDir) /\ ref(MosDir, "root_dataset") \in visited
    BY <2>1, <2>2 DEF RootClean, DirReached, Pending
  <2>4. Clean
    BY <2>1, <2>3 DEF Clean, Undisturbed
  <2> QED
    BY <2>4, CleanIsTrue DEF FollowsAll
<1> QED
  BY <1>1, TriageInvHolds, WalkInit, WalkNext, PTL DEF TSpec

-----------------------------------------------------------------------------
(***************************************************************************)
(* Nothing that stays refers to what is freed.  A plan adds no reference   *)
(* (TrailDrops), so one that dangles anew names something that was freed.  *)
(* By the invariant CoverInv that is an error log or a part of an orphan,  *)
(* and the plan also frees the directory of the orphan and removes its     *)
(* names from the child map above it.                                      *)
(***************************************************************************)
\* The words under a key of a ZAP are no reference.
NamesNothing(w) == ~(Len(w) = 1 /\ w[1] # 0)

\* What an operation, or a plan, leaves of an object: the state of the object
\* unless it is gone, and of its references some or none.
KeepsOrDrops(new, old) ==
  /\ new.type = NoType \/ (new.type = old.type /\ new.io = old.io)
  /\ old.type = NoType => new.type = NoType
  /\ \A k \in Key : new.zap[k] = old.zap[k] \/ NamesNothing(new.zap[k])
  /\ \A f \in Field \ {"num_children"} : new.bonus[f] = old.bonus[f] \/ new.bonus[f] = 0

Unset(op) == op.kind = "zap_set" => op.value = 0

LEMMA ApplyDrops ==
  ASSUME NEW m \in Image, NEW op \in Op, Unset(op), NEW o \in Obj
  PROVE  KeepsOrDrops(apply_op(m, op)[o], m[o])
<1>1. op.kind \in OpKind /\ op.obj \in Obj /\ op.count \in Nat /\ op.value \in Word
  BY PlanFileAssumption DEF Op
<1>2. m[o] \in ObjState /\ m[op.obj] \in ObjState
  BY <1>1 DEF Image
<1>3. CASE op.obj # o
  <2>1. apply_op(m, op)[o] = m[o]
    BY <1>3, ApplyFrame
  <2> QED
    BY <2>1 DEF KeepsOrDrops
<1>4. ASSUME op.obj = o, NEW w \in Seq(Word), NamesNothing(w),
             apply_op(m, op) = [m EXCEPT ![o].zap[op.key] = w]
      PROVE  KeepsOrDrops(apply_op(m, op)[o], m[o])
  BY <1>4, ZapWritten DEF KeepsOrDrops
<1>5. CASE op.obj = o /\ op.kind = "zap_set"
  <2>1. <<op.value>> \in Seq(Word) /\ NamesNothing(<<op.value>>)
    BY <1>1, <1>5 DEF Unset, NamesNothing
  <2> QED
    BY <1>4, <1>5, <2>1 DEF apply_op, zap_update
<1>6. CASE op.obj = o /\ op.kind = "zap_zero"
  <2> DEFINE w == [i \in 1 .. op.count |-> 0]
  <2>1. w \in Seq(Word) /\ NamesNothing(w)
    BY <1>1, MissingNoWord DEF NamesNothing
  <2> HIDE DEF w
  <2>2. apply_op(m, op) = [m EXCEPT ![o].zap[op.key] = w]
    BY <1>6 DEF apply_op, zap_update, w
  <2> QED
    BY <1>4, <1>6, <2>1, <2>2
<1>7. CASE op.obj = o /\ op.kind = "zap_remove"
  <2>1. <<>> \in Seq(Word) /\ NamesNothing(<<>>)
    BY DEF NamesNothing
  <2> QED
    BY <1>4, <1>7, <2>1 DEF apply_op, zap_remove
<1>8. CASE op.obj = o /\ op.kind = "bonus_set"
  <2>1. apply_op(m, op)[o] = [m[o] EXCEPT !.bonus["num_children"] = op.value]
    BY <1>8 DEF apply_op, Image
  <2>2. m[o].bonus \in [Field -> Word]
    BY <1>2 DEF ObjState
  <2>3. /\ apply_op(m, op)[o].type = m[o].type /\ apply_op(m, op)[o].io = m[o].io
        /\ apply_op(m, op)[o].zap = m[o].zap
        /\ apply_op(m, op)[o].bonus = [m[o].bonus EXCEPT !["num_children"] = op.value]
    BY <1>2, <2>1 DEF ObjState
  <2> QED
    BY <2>2, <2>3 DEF KeepsOrDrops
<1>9. CASE op.obj = o /\ op.kind = "free"
  <2>1. apply_op(m, op)[o] = FreeSlot
    BY <1>9 DEF apply_op, dmu_object_free, Image
  <2>2. Len(<<>>) = 0
    OBVIOUS
  <2> QED
    BY <2>1, <2>2 DEF FreeSlot, EmptyZap, NamesNothing, KeepsOrDrops
<1> QED
  BY <1>1, <1>3, <1>5, <1>6, <1>7, <1>8, <1>9 DEF OpKind, ZapKind

\* A reference that is gone does not come back.
LEMMA DropsTwice ==
  ASSUME NEW a, NEW b, NEW c, KeepsOrDrops(a, b), KeepsOrDrops(b, c)
  PROVE  KeepsOrDrops(a, c)
<1>1. /\ a.type = NoType \/ (a.type = c.type /\ a.io = c.io)
      /\ c.type = NoType => a.type = NoType
  BY DEF KeepsOrDrops
<1>2. \A k \in Key : a.zap[k] = c.zap[k] \/ NamesNothing(a.zap[k])
  BY DEF KeepsOrDrops
<1>3. \A f \in Field \ {"num_children"} : a.bonus[f] = c.bonus[f] \/ a.bonus[f] = 0
  BY DEF KeepsOrDrops
<1> QED
  BY <1>1, <1>2, <1>3 DEF KeepsOrDrops

\* What an operation has freed, or removed from a ZAP, is gone.
Effect(op, m) ==
  /\ op.kind = "free" => m[op.obj].type = NoType
  /\ op.kind = "zap_remove" /\ op.key \in Key => NamesNothing(m[op.obj].zap[op.key])

LEMMA ApplyEffect ==
  ASSUME NEW m \in Image, NEW op \in Op
  PROVE  Effect(op, apply_op(m, op))
<1>1. op.obj \in Obj
  BY DEF Op
<1>2. op.kind = "free" => apply_op(m, op)[op.obj].type = NoType
  BY <1>1 DEF apply_op, dmu_object_free, FreeSlot, Image
<1>3. ASSUME op.kind = "zap_remove", op.key \in Key
      PROVE  NamesNothing(apply_op(m, op)[op.obj].zap[op.key])
  <2>1. PICK w \in Seq(Word) : w = <<>> /\ NamesNothing(w)
    <3>1. <<>> \in Seq(Word) /\ NamesNothing(<<>>)
      BY DEF NamesNothing
    <3> QED
      BY <3>1
  <2>2. apply_op(m, op) = [m EXCEPT ![op.obj].zap[op.key] = w]
    BY <1>3, <2>1 DEF apply_op, zap_remove
  <2>3. apply_op(m, op)[op.obj].zap[op.key] = w
    BY <1>1, <1>3, <2>2, ZapWritten
  <2> QED
    BY <2>1, <2>3
<1> QED
  BY <1>2, <1>3 DEF Effect

LEMMA EffectStays ==
  ASSUME NEW op \in Op, NEW m, NEW n, Effect(op, m),
         \A o \in Obj : KeepsOrDrops(n[o], m[o])
  PROVE  Effect(op, n)
<1>1. op.obj \in Obj /\ KeepsOrDrops(n[op.obj], m[op.obj])
  BY DEF Op
<1> QED
  BY <1>1 DEF Effect, KeepsOrDrops

\* After a plan whose zap_set lines write 0 every object is as it was, or with
\* fewer references, and whatever the plan has freed or removed is still gone.
LEMMA TrailDrops ==
  ASSUME NEW plan \in Seq(Op), NEW m \in Image, \A j \in 1 .. Len(plan) : Unset(plan[j])
  PROVE  /\ \A o \in Obj : KeepsOrDrops(PlanResult(plan, m)[o], m[o])
         /\ \A j \in 1 .. Len(plan) : Effect(plan[j], PlanResult(plan, m))
<1> DEFINE t == PlanTrail(plan, m)
           Fine(j) == /\ t[j] \in Image
                      /\ \A o \in Obj : KeepsOrDrops(t[j][o], m[o])
                      /\ \A i \in 1 .. Len(plan) : i <= j => Effect(plan[i], t[j])
           D == {j \in Nat : j <= Len(plan) /\ ~Fine(j)}
<1>1. /\ t[0] = m
      /\ \A j \in 1 .. Len(plan) : t[j] = apply_op(t[j - 1], plan[j])
  BY PlanTrailDef
<1> HIDE DEF t
<1>2. D = {}
  <2> SUFFICES ASSUME D # {} PROVE FALSE
    OBVIOUS
  <2>1. PICK j \in D : \A k \in D : ~(k < j)
    BY NatMin
  <2>2. j # 0
    <3>1. \A o \in Obj : KeepsOrDrops(m[o], m[o])
      BY DEF KeepsOrDrops
    <3>2. Fine(0)
      BY <1>1, <3>1
    <3> QED
      BY <3>2
  <2>3. j \in 1 .. Len(plan) /\ plan[j] \in Op /\ Unset(plan[j])
    BY <2>2
  <2>4. Fine(j - 1)
    BY <2>1, <2>3
  <2>5. t[j] = apply_op(t[j - 1], plan[j])
    BY <1>1, <2>3
  <2>6. t[j] \in Image /\ \A o \in Obj : KeepsOrDrops(t[j][o], t[j - 1][o])
    BY <2>3, <2>4, <2>5, ApplyType, ApplyDrops
  <2>7. \A o \in Obj : KeepsOrDrops(t[j][o], m[o])
    BY <2>4, <2>6, DropsTwice
  <2>8. ASSUME NEW i \in 1 .. Len(plan), i <= j PROVE Effect(plan[i], t[j])
    <3>1. CASE i = j
      BY <2>3, <2>4, <2>5, <3>1, ApplyEffect
    <3>2. CASE i <= j - 1
      <4>1. plan[i] \in Op /\ Effect(plan[i], t[j - 1])
        BY <2>4, <3>2
      <4> QED
        BY <2>6, <4>1, EffectStays
    <3> QED
      BY <2>3, <2>8, <3>1, <3>2
  <2> QED
    BY <2>6, <2>7, <2>8
<1>3. Fine(Len(plan))
  <2>1. Len(plan) \in Nat /\ Len(plan) <= Len(plan)
    OBVIOUS
  <2> QED
    BY <1>2, <2>1
<1> QED
  BY <1>3 DEF PlanResult, t


\* The parts of an orphan that the dumps show, but for its dead head.
PartsSeen(dir) ==
  {dir, ref(dir, "props_zapobj"), ref(dir, "child_dir_zapobj"),
   ref(HeadOf(dir), "snapnames_zapobj"), ref(HeadOf(dir), "deadlist_obj")}

\* The dump of an object has been taken, or lost.
Asked(o) == get(o).fetched \/ o \notin Obj

\* Among the lines are those that free the directory of an orphan and that remove
\* each name it has in the child map above it.
Unlinked(dir, lines) ==
  /\ KnownDir(dir) /\ get(HeadOf(dir)).exists /\ get(HeadOf(dir)).unreadable
  /\ Asked(ref(dir, "parent_dir_obj")) /\ Asked(ParentMap(dir))
  /\ FreeObj(dir) \in lines
  /\ \A n \in NamesIn(ParentMap(dir)) :
       get(ParentMap(dir)).ints[n] = dir => ZapRemove(ParentMap(dir), n) \in lines

\* What is freed is an error log, or a part of an orphan that is unlinked.
FreeCovered(o, lines) ==
  /\ get(o).exists
  /\ \/ get(o).type \in ErrlogLike
     \/ \E dir \in Word : o \in PartsSeen(dir) /\ Unlinked(dir, lines)

\* As long as no dump is lost, the dumps show all that is in the pool.
NoLoss ==
  drift = 0 /\ faults = 0 /\ mode # "idle" =>
    \A o \in Obj : get(o).fetched => get(o) \in Dumps(pool, o)

Covered(lines) == \A l \in lines : l.kind = "free" => FreeCovered(l.obj, lines)

CoverInv == Covered(ToSet(ops)) /\ faults \in Nat /\ NoLoss

\* Dumps that were taken stay.
DumpsStay == \A o \in Word : Asked(o) => get(o)' = get(o)

LEMMA UnlinkedStays ==
  ASSUME CacheInv, CacheInv', DumpsStay, NEW dir \in Word, NEW lines, Unlinked(dir, lines)
  PROVE  Unlinked(dir, lines)' /\ PartsSeen(dir)' = PartsSeen(dir)
<1>1. ASSUME NEW o \in Word, Asked(o)
      PROVE  /\ get(o)' = get(o) /\ Asked(o)' /\ readable(o)' = readable(o)
             /\ NamesIn(o)' = NamesIn(o) /\ \A n : ref(o, n)' = ref(o, n)
  <2>1. get(o)' = get(o)
    BY <1>1 DEF DumpsStay
  <2> QED
    BY <1>1, <2>1 DEF Asked, readable, NamesIn, ref, get
<1>2. \A o \in Word : get(o).exists => Asked(o)
  BY DEF CacheInv, DumpOf, Asked, get
<1>3. Asked(dir) /\ readable(dir)
  BY <1>2 DEF Unlinked, KnownDir, readable
<1>4. PICK head \in Word : head = HeadOf(dir)
  BY RefIsWord DEF HeadOf, ReadName
<1>5. PICK parent \in Word : parent = ref(dir, "parent_dir_obj")
  BY RefIsWord DEF ReadName
<1>6. PICK map \in Word : map = ParentMap(dir)
  BY RefIsWord, <1>5, MissingNoWord DEF ParentMap, ReadName
<1>7. HeadOf(dir)' = head /\ Asked(head) /\ ref(dir, "parent_dir_obj")' = parent
  BY <1>1, <1>2, <1>3, <1>4, <1>5 DEF HeadOf, Unlinked
<1>8. Asked(parent) /\ Asked(map)
  BY <1>5, <1>6 DEF Unlinked
<1>9. ParentMap(dir)' = map
  BY <1>1, <1>5, <1>6, <1>7, <1>8 DEF ParentMap
<1>10. PartsSeen(dir)' = PartsSeen(dir)
  BY <1>1, <1>3, <1>4, <1>7 DEF PartsSeen
<1>11. FreeObj(dir)' = FreeObj(dir) /\ \A n : ZapRemove(map, n)' = ZapRemove(map, n)
  BY <1>1, <1>3, <1>8 DEF FreeObj, ZapRemove, PlanLine
<1>12. KnownDir(dir)' /\ get(head)'.exists /\ get(head)'.unreadable
  BY <1>1, <1>3, <1>4, <1>7 DEF KnownDir, Unlinked
<1>13. \A n \in NamesIn(map)' : get(map)'.ints[n] = dir => ZapRemove(map, n)' \in lines
  BY <1>1, <1>6, <1>8, <1>11 DEF Unlinked
<1>14. Asked(parent)' /\ Asked(map)' /\ FreeObj(dir)' \in lines
  BY <1>1, <1>8, <1>11 DEF Unlinked
<1> QED
  BY <1>7, <1>9, <1>10, <1>12, <1>13, <1>14 DEF Unlinked

LEMMA CoveredStays ==
  ASSUME CacheInv, CacheInv', DumpsStay, NEW o \in Word, NEW lines, FreeCovered(o, lines)
  PROVE  FreeCovered(o, lines)'
<1>1. get(o)' = get(o)
  BY DEF FreeCovered, CacheInv, DumpOf, Asked, get, DumpsStay
<1>2. CASE get(o).type \in ErrlogLike
  BY <1>1, <1>2 DEF FreeCovered
<1>3. CASE get(o).type \notin ErrlogLike
  <2>1. PICK dir \in Word : o \in PartsSeen(dir) /\ Unlinked(dir, lines)
    BY <1>3 DEF FreeCovered
  <2>2. o \in PartsSeen(dir)' /\ Unlinked(dir, lines)'
    BY <2>1, UnlinkedStays
  <2> QED
    BY <1>1, <2>2 DEF FreeCovered
<1> QED
  BY <1>2, <1>3

LEMMA MoreLines ==
  ASSUME NEW o, NEW lines, NEW more, lines \subseteq more, FreeCovered(o, lines)
  PROVE  FreeCovered(o, more)
BY DEF FreeCovered, Unlinked

\* dedupe_ops() keeps one of each line.
LEMMA DedupeKeeps ==
  ASSUME NEW S, NEW lines \in Seq(S)
  PROVE  ToSet(dedupe_ops(lines)) = ToSet(lines)
<1> DEFINE all == [j \in DOMAIN lines |-> j]
           set == {j \in DOMAIN lines : \A k \in 1 .. (j - 1) : lines[k] # lines[j]}
           keep == Only(all, set)
<1>1. DOMAIN lines = 1 .. Len(lines) /\ Len(lines) \in Nat
  OBVIOUS
<1>2. all \in Seq(DOMAIN lines) /\ Len(all) = Len(lines) /\ \A j \in DOMAIN lines : all[j] = j
  OBVIOUS
<1>3. dedupe_ops(lines) = Each(LAMBDA j : lines[j], keep)
  BY DEF dedupe_ops
<1> HIDE DEF all
<1>4. keep \in Seq(DOMAIN lines \cap set)
  BY <1>2, OnlyType
<1>5. \A j \in DOMAIN lines \cap set : j \in ToSet(keep)
  <2> SUFFICES ASSUME NEW j \in DOMAIN lines \cap set PROVE j \in ToSet(keep)
    OBVIOUS
  <2> HIDE DEF set
  <2>1. j \in 1 .. Len(all) /\ all[j] \in set
    BY <1>1, <1>2
  <2>2. all[j] \in ToSet(Only(all, set))
    BY <1>2, <2>1, OnlyKeeps
  <2> QED
    BY <1>2, <2>2
<1>6. ASSUME NEW l \in ToSet(lines) PROVE \E j \in DOMAIN lines \cap set : lines[j] = l
  <2> DEFINE T == {j \in DOMAIN lines : lines[j] = l}
  <2>1. T # {} /\ T \subseteq Nat
    BY <1>1 DEF ToSet
  <2>2. PICK j \in T : \A k \in T : ~(k < j)
    <3> HIDE DEF T
    <3> QED
      BY <2>1, NatMin
  <2>3. j \in set
    BY <1>1, <2>2
  <2> QED
    BY <2>2, <2>3
<1> HIDE DEF keep, set
<1>7. DOMAIN keep = 1 .. Len(keep) /\ \A j \in DOMAIN keep : keep[j] \in DOMAIN lines
  BY <1>4
<1>8. /\ DOMAIN dedupe_ops(lines) = DOMAIN keep
      /\ \A j \in DOMAIN keep : dedupe_ops(lines)[j] = lines[keep[j]]
  BY <1>3 DEF Each
<1>9. ToSet(lines) \subseteq ToSet(dedupe_ops(lines))
  <2> SUFFICES ASSUME NEW l \in ToSet(lines) PROVE l \in ToSet(dedupe_ops(lines))
    OBVIOUS
  <2>1. PICK j \in ToSet(keep) : lines[j] = l
    BY <1>5, <1>6
  <2>2. PICK i \in DOMAIN keep : keep[i] = j
    BY <2>1 DEF ToSet
  <2> QED
    BY <1>8, <2>1, <2>2 DEF ToSet
<1>10. ToSet(dedupe_ops(lines)) \subseteq ToSet(lines)
  BY <1>7, <1>8 DEF ToSet
<1> QED
  BY <1>9, <1>10


\* The lines that edit a map or a count.
EditLines ==
  {ZapRemove(o, n) : o \in Word, n \in Key} \cup {NumChildren(o, e, v) : o \in Word, e \in Word, v \in Int}

LEMMA EditsFreeNone ==
  ASSUME NEW s \in Seq(EditLines)
  PROVE  \A l \in ToSet(s) : l.kind # "free"
<1>1. \A o, n : ZapRemove(o, n).kind = "zap_remove"
  BY DEF ZapRemove, PlanLine
<1>2. \A o, e, v : NumChildren(o, e, v).kind = "bonus_set"
  BY DEF NumChildren, PlanLine
<1>3. \A l \in EditLines : l.kind # "free"
  BY <1>1, <1>2 DEF EditLines
<1>4. \A j \in DOMAIN s : s[j] \in EditLines
  OBVIOUS
<1> QED
  BY <1>3, <1>4 DEF ToSet

\* The lines that remove names from a map.
LEMMA RemovesEdit ==
  ASSUME NEW zap \in Word, NEW keys \in Seq(Key)
  PROVE  LET s == [j \in DOMAIN keys |-> ZapRemove(zap, keys[j])]
         IN  /\ s \in Seq(EditLines) /\ Len(s) = Len(keys)
             /\ \A n \in ToSet(keys) : ZapRemove(zap, n) \in ToSet(s)
<1> DEFINE s == [j \in DOMAIN keys |-> ZapRemove(zap, keys[j])]
<1>1. \A n \in Key : ZapRemove(zap, n) \in EditLines
  BY DEF EditLines
<1>2. DOMAIN keys = 1 .. Len(keys) /\ Len(keys) \in Nat
      /\ \A j \in DOMAIN keys : keys[j] \in Key
  OBVIOUS
<1>3. s \in Seq(EditLines) /\ Len(s) = Len(keys)
  BY <1>1, <1>2
<1>4. DOMAIN s = DOMAIN keys /\ \A j \in DOMAIN keys : s[j] = ZapRemove(zap, keys[j])
  OBVIOUS
<1> HIDE DEF s
<1>5. ASSUME NEW n \in ToSet(keys) PROVE ZapRemove(zap, n) \in ToSet(s)
  <2>1. PICK j \in DOMAIN keys : keys[j] = n
    BY DEF ToSet
  <2> QED
    BY <1>4, <2>1 DEF ToSet
<1> QED
  BY <1>3, <1>5 DEF s

LEMMA ClonesEdit ==
  ASSUME NEW zap \in Word
  PROVE  check_clones_zap(zap).ops \in Seq(EditLines)
<1>1. DanglingClones(zap) \in Seq(Key)
  <2>1. NameOrder \in Seq(Key)
    BY ScannerAssumption
  <2>2. ASSUME NEW set PROVE Only(NameOrder, set) \in Seq(Key)
    <3>1. Only(NameOrder, set) \in Seq(Key \cap set) /\ Key \cap set \subseteq Key
      BY <2>1, OnlyType
    <3> QED
      BY <3>1, SeqMono
  <2>3. <<>> \in Seq(Key)
    OBVIOUS
  <2> QED
    BY <2>2, <2>3 DEF DanglingClones, names
<1>2. check_clones_zap(zap).ops = [j \in DOMAIN DanglingClones(zap) |->
                                     ZapRemove(zap, DanglingClones(zap)[j])]
  BY DEF check_clones_zap, Result, Each
<1> QED
  BY <1>1, <1>2, RemovesEdit

LEMMA CountEdits ==
  ASSUME CacheInv, NEW o \in Word, NEW k \in Int
  PROVE  LET e == get(o).ints[<<"num_children">>]
         IN  e # Missing => <<NumChildren(o, e, e - k)>> \in Seq(EditLines)
<1> DEFINE e == get(o).ints[<<"num_children">>]
<1>1. <<"num_children">> \in Key /\ cache[o].ints \in [Key -> Word \cup {Missing}]
  BY ScannerAssumption DEF CacheInv, DumpOf, Dump, ReadName
<1>2. e \in Word \cup {Missing}
  BY <1>1 DEF get
<1> HIDE DEF e
<1>3. e # Missing => e \in Word /\ e - k \in Int
  BY <1>2, MosAssumption DEF Word
<1>4. e # Missing => NumChildren(o, e, e - k) \in EditLines
  BY <1>3 DEF EditLines
<1>5. e # Missing => <<NumChildren(o, e, e - k)>> \in Seq(EditLines)
  BY <1>4
<1> QED
  BY <1>5 DEF e

LEMMA DatasetEdits ==
  ASSUME CacheInv, NEW ds \in Word, NEW dir
  PROVE  check_dataset(ds, dir).ops \in Seq(EditLines)
<1> DEFINE nco == ref(ds, "next_clones_obj")
           clones == IF nco = 0 THEN Quiet ELSE check_clones_zap(nco)
           k == Len(clones.ops)
           nc == get(ds).ints[<<"num_children">>]
           count == When(k # 0 /\ nc # Missing, <<NumChildren(ds, nc, nc - k)>>)
<1>1. nco \in Word
  BY RefIsWord DEF ReadName
<1>2. clones.ops \in Seq(EditLines)
  <2>1. Quiet.ops \in Seq(EditLines)
    BY DEF Quiet, Result
  <2> HIDE DEF nco
  <2> QED
    BY <1>1, <2>1, ClonesEdit
<1> HIDE DEF clones
<1>3. k \in Int
  BY <1>2
<1> HIDE DEF k
<1>4. count \in Seq(EditLines)
  <2>1. nc # Missing => <<NumChildren(ds, nc, nc - k)>> \in Seq(EditLines)
    BY <1>3, CountEdits
  <2> QED
    BY <2>1, WhenType
<1> HIDE DEF count
<1>5. clones.ops \o count \in Seq(EditLines) /\ <<>> \in Seq(EditLines)
  BY <1>2, <1>4, ConcatProperties
<1>6. check_dataset(ds, dir).ops \in {<<>>, clones.ops \o count}
  BY DEF check_dataset, Result, clones, count, k
<1> QED
  BY <1>5, <1>6

\* Only two of the checks free anything.
LEMMA OthersFreeNone ==
  ASSUME CacheInv, NEW c \in Calls, c.do \notin {"errlog_last", "errlog_scrub", "orphan"}
  PROVE  \A l \in ToSet(Outcome(c).ops) : l.kind # "free"
<1>1. c.obj \in Word /\ CallGrounded(c)
  BY DEF Calls
<1>2. <<>> \in Seq(EditLines)
  OBVIOUS
<1>3. CASE c.do = "run"
  <2>1. run.ops = <<>>
    BY DEF run, Result
  <2> QED
    BY <1>2, <1>3, <2>1, EditsFreeNone DEF Outcome
<1>4. CASE c.do = "scan"
  <2>1. check_scan.ops \in {<<>>, <<ZapZeroScan>>}
    BY DEF check_scan, Quiet, Result
  <2>2. ZapZeroScan.kind = "zap_zero"
    BY DEF ZapZeroScan, PlanLine
  <2> HIDE DEF ZapZeroScan
  <2>3. \A l \in ToSet(<<ZapZeroScan>>) : l = ZapZeroScan
    BY DEF ToSet
  <2>4. \A l \in ToSet(check_scan.ops) : l.kind # "free"
    BY <1>2, <2>1, <2>2, <2>3, EditsFreeNone
  <2> QED
    BY <1>4, <2>4 DEF Outcome
<1>5. CASE c.do = "dir"
  <2>1. walk_dsl_dir(c.obj).ops = <<>>
    BY DEF walk_dsl_dir, Quiet, Result
  <2> QED
    BY <1>2, <1>5, <2>1, EditsFreeNone DEF Outcome
<1>6. CASE c.do = "childmap"
  <2>1. check_childmap(c.obj).ops = <<>>
    BY DEF check_childmap, Quiet, Result
  <2> QED
    BY <1>2, <1>6, <2>1, EditsFreeNone DEF Outcome
<1>7. CASE c.do = "child"
  <2>1. c.key \in Key
    BY <1>1, <1>7 DEF CallGrounded, NamesIn
  <2>2. ZapRemove(c.obj, c.key) \in EditLines
    BY <1>1, <2>1 DEF EditLines
  <2>3. check_child(c.obj, c.key).ops \in {<<>>, <<ZapRemove(c.obj, c.key)>>}
    BY DEF check_child, Result
  <2>4. check_child(c.obj, c.key).ops \in Seq(EditLines)
    <3>1. PICK l \in EditLines : l = ZapRemove(c.obj, c.key)
      BY <2>2
    <3>2. <<l>> \in Seq(EditLines)
      OBVIOUS
    <3> QED
      BY <1>2, <2>3, <3>1, <3>2
  <2> QED
    BY <1>7, <2>4, EditsFreeNone DEF Outcome
<1>8. CASE c.do = "dataset"
  <2>1. check_dataset(c.obj, c.dir).ops \in Seq(EditLines)
    BY <1>1, DatasetEdits
  <2> QED
    BY <1>8, <2>1, EditsFreeNone DEF Outcome
<1>9. CASE c.do = "clones"
  BY <1>1, <1>9, ClonesEdit, EditsFreeNone DEF Outcome
<1> QED
  BY <1>3, <1>4, <1>5, <1>6, <1>7, <1>8, <1>9 DEF Calls


\* check_errlog() frees error logs.
LEMMA ErrlogCovers ==
  ASSUME CacheInv, NEW n \in {"errlog_last", "errlog_scrub"}, NEW lines
  PROVE  \A l \in ToSet(check_errlog(n).ops) : l.kind = "free" => FreeCovered(l.obj, lines)
<1> DEFINE head == ref(MosDir, n)
           logs == Only(PerObjset(head), {o \in Obj : IsErrlog(o)})
           E == {o \in Word : IsErrlog(o)}
           clear == ZapSet0(n, head)
           L == {clear} \cup {FreeObj(o) : o \in E}
           frees == Each(FreeObj, <<head>> \o logs)
<1>1. MosDir \in Word /\ head \in Word
  BY ScannerAssumption, MissingNoWord, RefIsWord DEF ReadName
<1>2. \A l \in L : l.kind = "free" => FreeCovered(l.obj, lines)
  <2>1. clear.kind = "zap_set"
    BY DEF ZapSet0, PlanLine
  <2>2. \A o : FreeObj(o).obj = o
    BY DEF FreeObj, PlanLine
  <2>3. \A o \in E : FreeCovered(o, lines)
    BY DEF FreeCovered, IsErrlog
  <2> HIDE DEF clear, E
  <2> QED
    BY <2>1, <2>2, <2>3
<1> HIDE DEF head
<1>3. <<clear>> \in Seq(L) /\ <<>> \in Seq(L)
  <2>1. clear \in L
    OBVIOUS
  <2> HIDE DEF L
  <2> QED
    BY <2>1
<1>4. ASSUME IsErrlog(head) PROVE frees \in Seq(L)
  <2>1. logs \in Seq(Word \cap {o \in Obj : IsErrlog(o)})
    BY <1>1, ErrlogNames, OnlyType
  <2>2. Word \cap {o \in Obj : IsErrlog(o)} \subseteq E
    OBVIOUS
  <2>3. logs \in Seq(E)
    BY <2>1, <2>2, SeqMono
  <2>4. <<head>> \in Seq(E)
    BY <1>1, <1>4
  <2>5. \A o \in E : FreeObj(o) \in L
    OBVIOUS
  <2> HIDE DEF E, logs, L
  <2>6. <<head>> \o logs \in Seq(E)
    BY <2>3, <2>4, ConcatProperties
  <2> QED
    BY <2>5, <2>6 DEF Each
<1> HIDE DEF frees, L
<1>5. IsErrlog(head) => <<clear>> \o frees \in Seq(L)
  BY <1>3, <1>4, ConcatProperties
<1>6. check_errlog(n).ops \in Seq(L)
  <2>1. \/ check_errlog(n).ops \in {<<>>, <<clear>>}
        \/ IsErrlog(head) /\ check_errlog(n).ops = <<clear>> \o frees
    BY DEF check_errlog, Quiet, Result, head, frees, clear
  <2> QED
    BY <1>3, <1>5, <2>1
<1>7. \A j \in DOMAIN check_errlog(n).ops : check_errlog(n).ops[j] \in L
  BY <1>6
<1> QED
  BY <1>2, <1>7 DEF ToSet

\* A check runs when there is nothing that it reads left to be dumped.
LEMMA AskedReads ==
  ASSUME CacheInv, NEW c \in Calls, Only(Reads(c), {o \in Obj : ~get(o).fetched}) = <<>>
  PROVE  \A o \in ToSet(Reads(c)) : Asked(o)
<1> SUFFICES ASSUME NEW o \in ToSet(Reads(c)), o \in Obj, ~get(o).fetched PROVE FALSE
  BY DEF Asked
<1> DEFINE set == {p \in Obj : ~get(p).fetched}
<1>1. Reads(c) \in Seq(Word) /\ o \in set
  BY ReadsType
<1>2. DOMAIN Reads(c) = 1 .. Len(Reads(c))
  BY <1>1
<1>3. PICK i \in 1 .. Len(Reads(c)) : Reads(c)[i] = o
  BY <1>2 DEF ToSet
<1> HIDE DEF set
<1>4. o \in ToSet(Only(Reads(c), set))
  BY <1>1, <1>3, OnlyKeeps
<1>5. ToSet(<<>>) = {}
  BY DEF ToSet
<1> QED
  BY <1>4, <1>5 DEF set

\* What plan_orphan_removal() frees are parts of the orphan, and it frees the
\* directory itself, after it has removed the names that the directory has in
\* the child map above it.
LEMMA OrphanCovers ==
  ASSUME CacheInv, NEW ds \in Word, NEW dir \in Word, KnownDir(dir), ds = HeadOf(dir),
         get(ds).exists, get(ds).unreadable,
         \A o \in ToSet(orphan_reads(ds, dir)) : Asked(o),
         NEW lines, lines = ToSet(plan_orphan_removal(ds, dir).ops)
  PROVE  Covered(lines)
<1> DEFINE parent == DropFrom(ParentMap(dir), dir)
           unclone == Each(LAMBDA n : Unclone(dir, n), NamesOf(OriginClones(dir), ds))
           clones == DropFrom(OriginDirClones(dir), ds)
           R == {o \in Obj : Removable(o)}
           kept == Only(Subtree(ds, dir), R)
           frees == Each(FreeObj, kept)
           P == {o \in Word : get(o).exists /\ o \in PartsSeen(dir)}
<1>0. readable(dir) /\ dir \in Obj
  BY DEF KnownDir, readable, get, CacheInv, DumpOf
<1>1. parent \in Seq(EditLines) /\ clones \in Seq(EditLines)
      /\ \A n \in ToSet(NamesOf(ParentMap(dir), dir)) : ZapRemove(ParentMap(dir), n) \in ToSet(parent)
  <2>1. ASSUME NEW zap \in Word, NEW target
        PROVE  /\ DropFrom(zap, target) \in Seq(EditLines)
               /\ \A n \in ToSet(NamesOf(zap, target)) : ZapRemove(zap, n) \in ToSet(DropFrom(zap, target))
    <3>1. NamesOf(zap, target) \in Seq(Key)
      <4> DEFINE set == {n \in Key : get(zap).ints[n] # Missing /\ get(zap).ints[n] = target}
      <4>1. NamesOf(zap, target) = Only(NameOrder, set)
        BY DEF NamesOf, names
      <4>2. NameOrder \in Seq(Key)
        BY ScannerAssumption
      <4> HIDE DEF set
      <4>3. Only(NameOrder, set) \in Seq(Key \cap set) /\ Key \cap set \subseteq Key
        BY <4>2, OnlyType
      <4> QED
        BY <4>1, <4>3, SeqMono
    <3>2. DropFrom(zap, target) = [j \in DOMAIN NamesOf(zap, target) |->
                                     ZapRemove(zap, NamesOf(zap, target)[j])]
      BY DEF DropFrom, Each
    <3> QED
      BY <3>1, <3>2, RemovesEdit
  <2> QED
    BY <2>1, OrphanRefs
<1>2. FlattenSeq(unclone) \in Seq(EditLines)
  <2>1. /\ OriginClones(dir) \in RefsBy(MapField) \cup {0} /\ OriginClones(dir) \in Word
        /\ Origin(dir) \in Word
    BY OrphanMaps, OrphanRefs
  <2>2. NamesOf(OriginClones(dir), ds) \in Seq(NamesIn(OriginClones(dir)))
    BY <2>1, DropYields
  <2>3. ASSUME NEW n \in NamesIn(OriginClones(dir)) PROVE Unclone(dir, n) \in Seq(EditLines)
    <3> DEFINE nc == get(Origin(dir)).ints[<<"num_children">>]
               count == When(nc # Missing, <<NumChildren(Origin(dir), nc, nc - 1)>>)
    <3>1. PICK l \in EditLines : l = ZapRemove(OriginClones(dir), n)
      BY <2>1 DEF EditLines, NamesIn
    <3>2. <<l>> \in Seq(EditLines)
      OBVIOUS
    <3>3. nc # Missing => <<NumChildren(Origin(dir), nc, nc - 1)>> \in Seq(EditLines)
      BY <2>1, CountEdits
    <3> HIDE DEF nc
    <3>4. count \in Seq(EditLines)
      BY <3>3, WhenType
    <3> HIDE DEF count
    <3>5. <<l>> \o count \in Seq(EditLines)
      BY <3>2, <3>4, ConcatProperties
    <3> QED
      BY <3>1, <3>5 DEF Unclone, count, nc
  <2>4. unclone \in Seq(Seq(EditLines))
    <3> DEFINE keys == NamesOf(OriginClones(dir), ds)
               U(n) == Unclone(dir, n)
    <3>1. keys \in Seq(NamesIn(OriginClones(dir)))
          /\ \A n \in NamesIn(OriginClones(dir)) : U(n) \in Seq(EditLines)
      BY <2>2, <2>3
    <3>2. unclone = [j \in DOMAIN keys |-> U(keys[j])]
      BY DEF Each
    <3> DEFINE SS == Seq(EditLines)
    <3> HIDE DEF keys, U, unclone, SS
    <3>3. DOMAIN keys = 1 .. Len(keys) /\ Len(keys) \in Nat
          /\ \A j \in DOMAIN keys : U(keys[j]) \in SS
      BY <3>1 DEF SS
    <3>4. unclone \in [1 .. Len(keys) -> SS]
      BY <3>2, <3>3
    <3>5. unclone \in Seq(SS)
      BY <3>3, <3>4
    <3> QED
      BY <3>5 DEF SS
  <2> QED
    BY <2>4, FlattenType
<1>3. Subtree(ds, dir) \in Seq(Word)
  BY OrphanRefs
<1>4. kept \in Seq(P) /\ dir \in ToSet(kept)
  <2> DEFINE t == <<dir, ref(dir, "props_zapobj"), ref(dir, "child_dir_zapobj"), ds,
                    ref(ds, "snapnames_zapobj"), ref(ds, "deadlist_obj")>>
             Q == PartsSeen(dir) \cup {ds}
  <2>1. t \in Seq(Word \cap Q)
    <3>1. /\ ref(dir, "props_zapobj") \in Word /\ ref(dir, "child_dir_zapobj") \in Word
          /\ ref(ds, "snapnames_zapobj") \in Word /\ ref(ds, "deadlist_obj") \in Word
      BY RefIsWord DEF ReadName
    <3>2. \A o \in {dir, ds, ref(dir, "props_zapobj"), ref(dir, "child_dir_zapobj"),
                    ref(ds, "snapnames_zapobj"), ref(ds, "deadlist_obj")} : o \in Word \cap Q
      BY <3>1 DEF PartsSeen
    <3> HIDE DEF Q
    <3> QED
      BY <3>2
  <2>2. t[1] = dir /\ 1 \in 1 .. Len(t)
    OBVIOUS
  <2> DEFINE W == Word \ {0}
  <2>3. Subtree(ds, dir) = Only(t, W)
    BY DEF Subtree, Nonzero
  <2>4. dir \in W
    BY <1>0, MosAssumption
  <2> HIDE DEF t, W, Q, R
  <2>5. Only(t, W) \in Seq(Word \cap Q \cap W) /\ dir \in ToSet(Only(t, W))
    BY <2>1, <2>2, <2>4, OnlyType, OnlyKeeps
  <2>6. PICK s \in Seq(Word \cap Q \cap W) : s = Subtree(ds, dir) /\ dir \in ToSet(s)
    BY <2>3, <2>5
  <2>7. DOMAIN s = 1 .. Len(s)
    OBVIOUS
  <2>8. PICK i \in 1 .. Len(s) : s[i] = dir
    BY <2>6, <2>7 DEF ToSet
  <2>9. dir \in R
    BY <1>0 DEF R, Removable, readable
  <2>10. Only(s, R) \in Seq(Word \cap Q \cap W \cap R) /\ dir \in ToSet(Only(s, R))
    BY <2>8, <2>9, OnlyType, OnlyKeeps
  <2>11. Word \cap Q \cap W \cap R \subseteq P
    BY DEF Q, R, W, Removable
  <2>12. Only(s, R) \in Seq(P)
    <3> HIDE DEF P
    <3> QED
      BY <2>10, <2>11, SeqMono
  <2> QED
    BY <2>6, <2>10, <2>12
<1> HIDE DEF parent, unclone, clones, kept, P
<1>5. DOMAIN frees = DOMAIN kept /\ \A j \in DOMAIN kept : frees[j] = FreeObj(kept[j])
  BY DEF Each
<1> DEFINE All == EditLines \cup {FreeObj(o) : o \in P}
<1>6. frees \in Seq(All) /\ FreeObj(dir) \in ToSet(frees)
      /\ \A l \in ToSet(frees) : \E o \in P : l = FreeObj(o)
  <2>1. \A j \in DOMAIN kept : kept[j] \in P
    BY <1>4
  <2>2. \A l \in ToSet(frees) : \E o \in P : l = FreeObj(o)
    BY <1>5, <2>1 DEF ToSet
  <2>3. PICK j \in DOMAIN kept : kept[j] = dir
    BY <1>4 DEF ToSet
  <2>4. FreeObj(dir) \in ToSet(frees)
    BY <1>5, <2>3 DEF ToSet
  <2>5. \A o \in P : FreeObj(o) \in All
    OBVIOUS
  <2> HIDE DEF All
  <2>6. frees \in Seq(All)
    BY <1>4, <2>5 DEF Each
  <2> QED
    BY <2>2, <2>4, <2>6
<1>7. parent \in Seq(All) /\ FlattenSeq(unclone) \in Seq(All) /\ clones \in Seq(All)
  BY <1>1, <1>2, SeqMono, EditLines \subseteq All
<1> HIDE DEF frees, All
<1>8. parent \o FlattenSeq(unclone) \in Seq(All)
      /\ parent \o FlattenSeq(unclone) \o clones \in Seq(All)
  BY <1>7, ConcatProperties
<1>9. plan_orphan_removal(ds, dir).ops = parent \o FlattenSeq(unclone) \o clones \o frees
  BY <1>0 DEF plan_orphan_removal, Result, parent, unclone, clones, kept, frees
<1>10. lines = ToSet(parent) \cup ToSet(FlattenSeq(unclone)) \cup ToSet(clones) \cup ToSet(frees)
  <2>1. ToSet(parent \o FlattenSeq(unclone)) = ToSet(parent) \cup ToSet(FlattenSeq(unclone))
    BY <1>7, ToSetConcat
  <2>2. ToSet(parent \o FlattenSeq(unclone) \o clones)
          = ToSet(parent \o FlattenSeq(unclone)) \cup ToSet(clones)
    BY <1>7, <1>8, ToSetConcat
  <2>3. ToSet(parent \o FlattenSeq(unclone) \o clones \o frees)
          = ToSet(parent \o FlattenSeq(unclone) \o clones) \cup ToSet(frees)
    <3>1. PICK s \in Seq(All) : s = parent \o FlattenSeq(unclone) \o clones
      BY <1>8
    <3>2. frees \in Seq(All)
      BY <1>6
    <3> QED
      BY <3>1, <3>2, ToSetConcat
  <2> QED
    BY <1>9, <2>1, <2>2, <2>3, Zenon
<1>11. Unlinked(dir, lines)
  <2>1. Asked(ref(dir, "parent_dir_obj")) /\ Asked(ParentMap(dir))
    <3> DEFINE around == <<ref(dir, "parent_dir_obj"), ParentMap(dir), ref(dir, "origin_obj"),
                           OriginClones(dir), ref(Origin(dir), "dir_obj"),
                           OriginDirClones(dir)>>
    <3>1. around \in Seq(Word)
      <4>1. /\ ref(dir, "parent_dir_obj") \in Word /\ ref(dir, "origin_obj") \in Word
            /\ ref(Origin(dir), "dir_obj") \in Word
        BY RefIsWord, OrphanRefs DEF ReadName
      <4> QED
        BY <4>1, OrphanRefs
    <3>2. 1 \in DOMAIN around /\ 2 \in DOMAIN around
          /\ around[1] = ref(dir, "parent_dir_obj") /\ around[2] = ParentMap(dir)
      OBVIOUS
    <3> HIDE DEF around
    <3>3. orphan_reads(ds, dir) = <<dir>> \o (around \o Subtree(ds, dir))
      BY <1>0 DEF orphan_reads, When, around
    <3>4. <<dir>> \in Seq(Word) /\ around \o Subtree(ds, dir) \in Seq(Word)
      BY <1>3, <3>1, ConcatProperties
    <3>5. ToSet(around) \subseteq ToSet(orphan_reads(ds, dir))
      <4>1. ToSet(around \o Subtree(ds, dir)) = ToSet(around) \cup ToSet(Subtree(ds, dir))
        BY <1>3, <3>1, ToSetConcat
      <4>2. ToSet(orphan_reads(ds, dir)) = ToSet(<<dir>>) \cup ToSet(around \o Subtree(ds, dir))
        <5>1. PICK d \in Seq(Word), r \in Seq(Word) : d = <<dir>> /\ r = around \o Subtree(ds, dir)
          BY <3>4
        <5>2. ToSet(d \o r) = ToSet(d) \cup ToSet(r)
          BY ToSetConcat
        <5> QED
          BY <3>3, <5>1, <5>2
      <4> QED
        BY <4>1, <4>2
    <3> QED
      BY <3>2, <3>5 DEF ToSet
  <2>2. FreeObj(dir) \in lines
    BY <1>6, <1>10
  <2>3. ASSUME NEW n \in NamesIn(ParentMap(dir)), get(ParentMap(dir)).ints[n] = dir
        PROVE  ZapRemove(ParentMap(dir), n) \in lines
    <3> DEFINE set == {k \in Key : get(ParentMap(dir)).ints[k] # Missing
                                   /\ get(ParentMap(dir)).ints[k] = dir}
    <3>1. NamesOf(ParentMap(dir), dir) = Only(NameOrder, set)
      BY DEF NamesOf, names
    <3>2. n \in Key \cap set
      BY <2>3 DEF NamesIn, get
    <3> HIDE DEF set
    <3>3. n \in ToSet(NamesOf(ParentMap(dir), dir))
      BY <3>1, <3>2, NamesKept
    <3> QED
      BY <1>1, <1>10, <3>3
  <2> QED
    BY <2>1, <2>2, <2>3 DEF Unlinked
<1>12. \A l \in ToSet(parent) \cup ToSet(FlattenSeq(unclone)) \cup ToSet(clones) : l.kind # "free"
  BY <1>1, <1>2, EditsFreeNone
<1>13. \A o : FreeObj(o).obj = o
  BY DEF FreeObj, PlanLine
<1>14. \A o \in P : FreeCovered(o, lines)
  BY <1>11 DEF FreeCovered, P
<1> QED
  BY <1>6, <1>10, <1>12, <1>13, <1>14 DEF Covered


LEMMA StepCovers ==
  ASSUME CacheInv, NEW c \in Calls, Only(Reads(c), {o \in Obj : ~get(o).fetched}) = <<>>,
         NEW lines, lines = ToSet(Outcome(c).ops)
  PROVE  Covered(lines)
<1>1. c.obj \in Word /\ c.dir \in Word /\ CallGrounded(c)
  BY DEF Calls
<1>2. CASE c.do \in {"errlog_last", "errlog_scrub"}
  <2>1. Outcome(c) = check_errlog(c.do)
    BY <1>2 DEF Outcome
  <2>2. \A l \in ToSet(check_errlog(c.do).ops) : l.kind = "free" => FreeCovered(l.obj, lines)
    BY <1>2, ErrlogCovers
  <2> QED
    BY <2>1, <2>2 DEF Covered
<1>3. CASE c.do = "orphan"
  <2>1. KnownDir(c.dir) /\ c.obj = HeadOf(c.dir) /\ get(c.obj).exists /\ get(c.obj).unreadable
    BY <1>1, <1>3 DEF CallGrounded
  <2>2. Outcome(c) = plan_orphan_removal(c.obj, c.dir) /\ Reads(c) = orphan_reads(c.obj, c.dir)
    BY <1>3 DEF Outcome, Reads
  <2>3. \A o \in ToSet(orphan_reads(c.obj, c.dir)) : Asked(o)
    BY <2>2, AskedReads
  <2> QED
    BY <1>1, <2>1, <2>2, <2>3, OrphanCovers
<1>4. CASE c.do \notin {"errlog_last", "errlog_scrub", "orphan"}
  <2>1. \A l \in lines : l.kind # "free"
    BY <1>4, OthersFreeNone
  <2> QED
    BY <2>1 DEF Covered
<1> QED
  BY <1>2, <1>3, <1>4

LEMMA CoverStays ==
  ASSUME CacheInv, CacheInv', DumpsStay, NEW lines, Covered(lines),
         \A l \in lines : l.kind = "free" => l.obj \in Word
  PROVE  Covered(lines)'
<1> SUFFICES ASSUME NEW l \in lines, l.kind = "free" PROVE FreeCovered(l.obj, lines)'
  BY DEF Covered
<1>1. PICK o \in Word : o = l.obj
  OBVIOUS
<1>2. FreeCovered(o, lines)
  BY <1>1 DEF Covered
<1>3. FreeCovered(o, lines)'
  BY <1>2, CoveredStays
<1> QED
  BY <1>1, <1>3

\* The lines of the plan so far, taken as a set that does not change.
LEMMA CoverLines ==
  ASSUME NEW lines, lines = ToSet(ops)', Covered(lines)'
  PROVE  Covered(ToSet(ops))'
BY DEF Covered, FreeCovered, Unlinked

LEMMA MoreCovered ==
  ASSUME NEW a, NEW b, Covered(a), Covered(b)
  PROVE  Covered(a \cup b)
BY MoreLines DEF Covered

LEMMA FreesAreWords == OpsInv => \A l \in ToSet(ops) : l.kind = "free" => l.obj \in Word
<1> SUFFICES ASSUME OpsInv, NEW l \in ToSet(ops) PROVE l.obj \in Word
  OBVIOUS
<1>1. DOMAIN ops = 1 .. Len(ops) /\ \A j \in 1 .. Len(ops) : ops[j] \in PlanLines
  BY DEF OpsInv
<1>2. l \in PlanLines
  BY <1>1 DEF ToSet
<1> QED
  BY <1>2, MissingNoWord DEF PlanLines, Line, BadLine

LEMMA CoverInit == TInit => CoverInv
<1> SUFFICES ASSUME TInit PROVE CoverInv
  OBVIOUS
<1>1. ops = <<>> /\ faults = 0 /\ mode = "idle"
  BY DEF TInit, Init
<1>2. ToSet(ops) = {}
  BY <1>1 DEF ToSet
<1> QED
  BY <1>1, <1>2 DEF CoverInv, Covered, NoLoss

LEMMA CoverNext == TriageInv /\ CoverInv /\ [TNext]_tvars => CoverInv'
<1> SUFFICES ASSUME TriageInv, CoverInv, [TNext]_tvars PROVE CoverInv'
  OBVIOUS
<1>1. CacheInv /\ CacheInv' /\ OpsInv
  BY InvNext DEF TriageInv
<1>2. PICK lines : lines = ToSet(ops)
  OBVIOUS
<1>3. Covered(lines) /\ \A l \in lines : l.kind = "free" => l.obj \in Word
  BY <1>1, <1>2, FreesAreWords DEF CoverInv
<1>4. ASSUME cache' = cache PROVE DumpsStay
  BY <1>4 DEF DumpsStay, get
<1>5. ASSUME cache' = cache, ToSet(ops') = ToSet(ops) PROVE Covered(ToSet(ops))'
  <2>1. Covered(lines)'
    BY <1>1, <1>3, <1>4, <1>5, CoverStays
  <2>2. lines = ToSet(ops)'
    BY <1>2, <1>5
  <2> QED
    BY <2>1, <2>2, CoverLines
<1>6. CASE Commit \/ Leave \/ Alone(ZdbNotFound)
  <2>1. cache' = cache /\ ops' = ops /\ faults' = faults /\ mode' = "idle"
    BY <1>6 DEF Commit, Leave, Alone, ZdbNotFound, walkVars
  <2> QED
    BY <1>5, <2>1 DEF CoverInv, NoLoss
<1>7. CASE Alone(ScanStart)
  <2>1. ops' = <<>> /\ cache' = EmptyCache /\ faults' = faults
    BY <1>7 DEF Alone, ScanStart
  <2>2. ToSet(ops') = {}
    BY <2>1 DEF ToSet
  <2>3. \A o \in Obj : ~cache'[o].fetched
    BY <2>1, MissingNoWord DEF EmptyCache, Unfetched, NoDump
  <2> QED
    BY <2>1, <2>2, <2>3 DEF CoverInv, Covered, NoLoss, get
<1>8. CASE Alone(Fetch)
  <2> DEFINE o == Head(Unread)
  <2>1. /\ agenda # <<>> /\ Unread # <<>> /\ mode = "scan"
        /\ \/ (\E d \in Dumps(pool, o) : cache' = [cache EXCEPT ![o] = d]) /\ faults' = faults
           \/ cache' = [cache EXCEPT ![o] = NoDump] /\ faults' = faults + 1
        /\ UNCHANGED <<pool, ops, mode, drift>>
    BY <1>8 DEF Alone, Fetch, walkVars
  <2>2. Head(agenda) \in Calls
    BY <2>1 DEF TriageInv, AgendaInv
  <2>3. Unread \in Seq(Word \cap {p \in Obj : ~get(p).fetched})
    BY <1>1, <2>2, ReadsType, OnlyType DEF Unread
  <2>4. PICK p \in Obj : p = o /\ ~cache[p].fetched
    BY <2>1, <2>3 DEF get
  <2> HIDE DEF o
  <2>5. PICK d : /\ cache' = [cache EXCEPT ![p] = d]
                 /\ \/ d \in Dumps(pool, p) /\ faults' = faults
                    \/ faults' = faults + 1
    BY <2>1, <2>4
  <2>6. \A q \in Word : q # p => cache'[q] = cache[q]
    BY <2>5, <1>1 DEF CacheInv
  <2>7. DumpsStay
    BY <2>4, <2>6 DEF DumpsStay, Asked, get
  <2>8. Covered(lines)'
    BY <1>1, <1>3, <2>7, CoverStays
  <2>9. Covered(ToSet(ops))'
    <3>1. lines = ToSet(ops)'
      BY <1>2, <2>1
    <3> QED
      BY <2>8, <3>1, CoverLines
  <2>10. faults' \in Nat /\ faults \in Nat
    BY <2>5 DEF CoverInv
  <2>11. NoLoss'
    <3> SUFFICES ASSUME drift = 0, faults' = 0, NEW q \in Obj, cache'[q].fetched
                 PROVE  cache'[q] \in Dumps(pool, q)
      BY <2>1 DEF NoLoss, get
    <3>1. faults = 0 /\ d \in Dumps(pool, p)
      BY <2>5, <2>10
    <3>2. DOMAIN cache = Word /\ q \in Word
      BY <1>1, MissingNoWord DEF CacheInv
    <3>3. CASE q = p
      BY <2>5, <3>1, <3>2, <3>3
    <3>4. CASE q # p
      BY <2>1, <2>6, <3>1, <3>2, <3>4 DEF CoverInv, NoLoss, get
    <3> QED
      BY <3>3, <3>4
  <2> QED
    BY <2>9, <2>10, <2>11 DEF CoverInv
<1>9. CASE Alone(Step)
  <2> DEFINE r == Outcome(Head(agenda))
  <2>1. /\ agenda # <<>> /\ ops' = ops \o r.ops /\ Unread = <<>>
        /\ UNCHANGED <<pool, cache, drift, mode, faults>>
    BY <1>9 DEF Alone, Step
  <2>2. Head(agenda) \in Calls
    BY <2>1 DEF TriageInv, AgendaInv
  <2>3. r.ops \in Seq(PlanLines) /\ ops \in Seq(PlanLines)
    BY <1>1, <2>2, OutcomeYields DEF Yields, OpsInv
  <2>4. PICK new : new = ToSet(r.ops)
    OBVIOUS
  <2>5. Covered(new)
    BY <1>1, <2>1, <2>2, <2>4, StepCovers DEF Unread
  <2> HIDE DEF r
  <2>6. ToSet(ops') = lines \cup new
    BY <1>2, <2>1, <2>3, <2>4, ToSetConcat
  <2>7. PICK both : both = lines \cup new
    OBVIOUS
  <2>8. Covered(both)
    BY <1>3, <2>5, <2>7, MoreCovered
  <2>9. \A l \in both : l.kind = "free" => l.obj \in Word
    <3>1. \A l \in ToSet(ops') : l.kind = "free" => l.obj \in Word
      <4>1. PICK s : s = ops'
        OBVIOUS
      <4>2. s \in Seq(PlanLines)
        BY <2>1, <2>3, <4>1, ConcatProperties
      <4>3. DOMAIN s = 1 .. Len(s) /\ \A j \in 1 .. Len(s) : s[j] \in PlanLines
        BY <4>2
      <4>4. \A l \in ToSet(s) : l \in PlanLines
        BY <4>3 DEF ToSet
      <4> QED
        BY <4>1, <4>4, MissingNoWord DEF PlanLines, Line, BadLine
    <3> QED
      BY <2>6, <2>7, <3>1
  <2>10. Covered(both)'
    BY <1>1, <1>4, <2>1, <2>8, <2>9, CoverStays
  <2>11. Covered(ToSet(ops))'
    <3>1. both = ToSet(ops)'
      BY <2>6, <2>7
    <3> QED
      BY <2>10, <3>1, CoverLines
  <2>12. NoLoss' /\ faults' \in Nat
    BY <2>1 DEF CoverInv, NoLoss, get
  <2> QED
    BY <2>11, <2>12 DEF CoverInv
<1>10. CASE Alone(Report)
  <2>1. /\ ops' = dedupe_ops(ops) /\ mode = "scan"
        /\ UNCHANGED <<pool, cache, drift, faults>>
    BY <1>10 DEF Alone, Report
  <2>2. ToSet(ops') = ToSet(ops)
    BY <1>1, <2>1, DedupeKeeps DEF OpsInv
  <2>3. Covered(ToSet(ops))'
    BY <1>5, <2>1, <2>2
  <2>4. NoLoss' /\ faults' \in Nat
    BY <2>1 DEF CoverInv, NoLoss, get
  <2> QED
    BY <2>3, <2>4 DEF CoverInv
<1>11. CASE Alone(Outside)
  <2>1. cache' = cache /\ ops' = ops /\ faults' = faults /\ drift' = drift + 1
    BY <1>11 DEF Alone, Outside, walkVars
  <2>2. drift' # 0
    BY <2>1 DEF TriageInv
  <2> QED
    BY <1>5, <2>1, <2>2 DEF CoverInv, NoLoss
<1>12. CASE UNCHANGED tvars
  <2>1. UNCHANGED <<pool, cache, ops, mode, drift, faults>>
    BY <1>12 DEF tvars, vars, walkVars
  <2> QED
    BY <1>5, <2>1 DEF CoverInv, NoLoss, get
<1> QED
  BY <1>6, <1>7, <1>8, <1>9, <1>10, <1>11, <1>12 DEF TNext


\* As long as dumps were neither lost nor overtaken by changes of the pool.
WholeView == Undisturbed /\ CoverInv /\ faults = 0

LEMMA ViewShows ==
  ASSUME WholeView, NEW o \in Obj, Asked(o) \/ get(o).exists
  PROVE  /\ get(o) \in Dumps(pool, o)
         /\ get(o).exists <=> Exists(pool, o)
         /\ get(o).exists => get(o).type = pool[o].type /\ (get(o).unreadable <=> ~pool[o].io)
         /\ Readable(pool, o) => readable(o) /\ get(o).ints = ZapInts(pool[o])
<1>1. pool \in Image /\ o \in Word
  BY MissingNoWord DEF WholeView, Undisturbed, TriageInv
<1>2. get(o) \in Dumps(pool, o)
  BY DEF WholeView, Undisturbed, TriageInv, CacheTrue, CoverInv, NoLoss, Asked
<1>3. get(o).exists => Exists(pool, o)
  BY <1>1, <1>2, DumpShows
<1>4. Exists(pool, o) => get(o).exists
  BY <1>2 DEF Dumps
<1>5. get(o).exists => get(o).type = pool[o].type /\ (get(o).unreadable <=> ~pool[o].io)
  BY <1>1, <1>2, DumpShows
<1>6. get(o).exists /\ pool[o].io => get(o).ints = ZapInts(pool[o])
  BY <1>1, <1>2, DumpShows
<1> QED
  BY <1>2, <1>3, <1>4, <1>5, <1>6 DEF Readable, readable

\* An orphan in the dumps is one in the pool, and so are its parts.
LEMMA OrphanShown ==
  ASSUME WholeView, NEW dir \in Word, NEW lines, Unlinked(dir, lines)
  PROVE  /\ dir \in Orphans(pool) /\ Readable(pool, dir)
         /\ \A v \in Obj : v \in PartsSeen(dir) => v \in Parts(pool, dir)
<1>1. CacheInv /\ 0 \notin Obj /\ pool \in Image
  BY MosAssumption DEF WholeView, Undisturbed, TriageInv
<1>2. PICK head \in Word : head = HeadOf(dir)
  BY <1>1, RefIsWord DEF HeadOf, ReadName
<1>3. KnownDir(dir) /\ get(head).exists /\ get(head).unreadable
  BY <1>2 DEF Unlinked
<1>4. dir \in Obj /\ head \in Obj /\ get(dir).exists
  BY <1>1, <1>3 DEF KnownDir, readable, get, CacheInv, DumpOf
<1>5. get(dir) \in Dumps(pool, dir) /\ get(head) \in Dumps(pool, head)
  BY <1>3, <1>4, ViewShows
<1>6. /\ Exists(pool, dir) /\ get(dir).type = pool[dir].type /\ ~get(dir).unreadable
      /\ Exists(pool, head) /\ ~pool[head].io
  BY <1>3, <1>4, ViewShows DEF KnownDir, readable
<1>7. pool[dir].io
  <2>1. pool[dir].io \in BOOLEAN
    BY <1>1, <1>4 DEF Image, ObjState
  <2> QED
    BY <1>4, <1>6, <2>1, ViewShows
<1>8. ASSUME NEW o \in Obj, get(o) \in Dumps(pool, o), NEW fields, NEW f \in fields \cap ReadName,
             ref(o, f) \in Obj
      PROVE  ref(o, f) \in ShownOf(pool, o, fields)
  <2>1. PICK d : d = get(o)
    OBVIOUS
  <2>2. d \in Dumps(pool, o)
    BY <1>8, <2>1
  <2>3. ref(o, f) = d.ints[<<f>>]
    BY <1>1, <1>8, <2>1 DEF ref
  <2>4. ref(o, f) \in {d.ints[<<g>>] : g \in fields}
    BY <2>3
  <2> QED
    BY <1>8, <2>2, <2>4 DEF ShownOf
<1>9. head \in Heads(pool, dir)
  BY <1>2, <1>4, <1>5, <1>8 DEF Heads, HeadOf, ReadName
<1>10. dir \in Orphans(pool)
  BY <1>3, <1>4, <1>6, <1>7, <1>9 DEF Orphans, Readable, KnownDir
<1>11. ASSUME NEW v \in Obj, v \in PartsSeen(dir) PROVE v \in Parts(pool, dir)
  <2>1. CASE v = dir
    BY <2>1 DEF Parts
  <2>2. CASE v = ref(dir, "props_zapobj") \/ v = ref(dir, "child_dir_zapobj")
    <3>1. v \in ShownOf(pool, dir, {"props_zapobj", "child_dir_zapobj"})
      BY <1>4, <1>5, <1>8, <2>2 DEF ReadName
    <3> QED
      BY <3>1 DEF Parts
  <2>3. CASE v = ref(head, "snapnames_zapobj") \/ v = ref(head, "deadlist_obj")
    <3>1. v \in ShownOf(pool, head, {"snapnames_zapobj", "deadlist_obj"})
      BY <1>4, <1>5, <1>8, <2>3 DEF ReadName
    <3> QED
      BY <1>9, <3>1 DEF Parts
  <2> QED
    BY <1>2, <1>11, <2>1, <2>2, <2>3 DEF PartsSeen
<1> QED
  BY <1>6, <1>7, <1>10, <1>11 DEF Readable

\* A name of the orphan in a child map above it is one of those that are removed.
LEMMA NameRemoved ==
  ASSUME WholeView, NEW dir \in Word, NEW lines, Unlinked(dir, lines),
         NEW o \in MapsOver(pool, dir), Readable(pool, o),
         NEW k \in Key, pool[o].zap[k] = <<dir>>
  PROVE  ZapRemove(o, k) \in lines /\ o \in Shown(pool, MapField)
<1>1. CacheInv /\ 0 \notin Obj /\ pool \in Image /\ Missing \notin Obj
  BY MosAssumption, PlanFileAssumption DEF WholeView, Undisturbed, TriageInv
<1>2. Readable(pool, dir)
  BY OrphanShown
<1>3. dir \in Obj /\ get(dir).exists
  BY <1>1, <1>2 DEF Unlinked, KnownDir, readable, Readable, Exists
<1>4. PICK p \in ShownOf(pool, dir, {"parent_dir_obj"}) :
        Readable(pool, p) /\ o \in ShownOf(pool, p, {"child_dir_zapobj"})
  BY DEF MapsOver
<1>5. ASSUME NEW q \in Obj, Readable(pool, q), Asked(q) \/ get(q).exists, NEW f \in ReadName,
             NEW v \in ShownOf(pool, q, {f})
      PROVE  v \in Obj /\ v = ref(q, f)
  <2>1. PICK d \in Dumps(pool, q) : v \in {d.ints[<<g>>] : g \in {f}}
    BY DEF ShownOf
  <2>2. v \in Obj /\ v = d.ints[<<f>>]
    BY <2>1 DEF ShownOf
  <2>3. d.exists
    BY <1>5, <2>1 DEF Dumps, Readable
  <2>4. d.ints = ZapInts(pool[q])
    BY <1>1, <1>5, <2>1, <2>3, DumpShows DEF Readable
  <2>5. get(q).ints = ZapInts(pool[q])
    BY <1>5, ViewShows
  <2> QED
    BY <1>1, <2>2, <2>4, <2>5 DEF ref
<1>6. p \in Obj /\ p = ref(dir, "parent_dir_obj")
  BY <1>2, <1>3, <1>4, <1>5 DEF ReadName
<1>7. Asked(p) /\ readable(p)
  BY <1>4, <1>6, ViewShows DEF Unlinked
<1>8. o \in Obj /\ o = ref(p, "child_dir_zapobj")
  BY <1>4, <1>5, <1>6, <1>7 DEF ReadName
<1>9. o = ParentMap(dir)
  BY <1>1, <1>6, <1>7, <1>8 DEF ParentMap
<1>10. get(o).ints = ZapInts(pool[o])
  BY <1>8, <1>9, ViewShows DEF Unlinked
<1>11. get(o).ints[k] = dir
  <2>1. Len(<<dir>>) = 1 /\ <<dir>>[1] = dir
    OBVIOUS
  <2> QED
    BY <1>10, <2>1 DEF ZapInts
<1>12. k \in NamesIn(o)
  BY <1>1, <1>3, <1>11 DEF NamesIn, get
<1>13. ZapRemove(o, k) \in lines
  BY <1>9, <1>11, <1>12 DEF Unlinked
<1>14. o \in Shown(pool, MapField)
  <2>1. PICK d \in Dumps(pool, p) : o \in {d.ints[<<g>>] : g \in {"child_dir_zapobj"}}
    BY <1>4 DEF ShownOf
  <2>2. o \in {d.ints[<<g>>] : g \in MapField}
    BY <2>1 DEF MapField
  <2>3. d \in UNION {Dumps(pool, q) : q \in Obj}
    BY <1>6, <2>1
  <2> QED
    BY <1>8, <2>2, <2>3 DEF Shown
<1> QED
  BY <1>13, <1>14

\* What the lines of the plan do to the pool.
LEMMA LinesDo ==
  ASSUME Undisturbed, NEW m, m = PlanResult(Plan, pool)
  PROVE  /\ \A o \in Obj : KeepsOrDrops(m[o], pool[o])
         /\ \A o \in Obj : Exists(pool, o) /\ ~Exists(m, o) =>
              \E l \in ToSet(ops) : l.kind = "free" /\ l.obj = o
         /\ \A l \in ToSet(ops) :
              /\ l.kind = "free" => l.obj \in Obj /\ m[l.obj].type = NoType
              /\ l.kind = "zap_remove" /\ Len(l.key) = 1 => NamesNothing(m[l.obj].zap[l.key])
<1>1. /\ Plan \in Seq(Op) /\ Len(Plan) = Len(ops) /\ pool \in Image
      /\ \A j \in 1 .. Len(ops) : Plan[j] = ParseOp(ops[j]) /\ ops[j] \in PlanLines
      /\ DOMAIN ops = 1 .. Len(ops)
  BY PlanType DEF Undisturbed, TriageInv, OpsInv
<1>2. \A j \in 1 .. Len(Plan) : Unset(Plan[j])
  <2> SUFFICES ASSUME NEW j \in 1 .. Len(Plan), Plan[j].kind = "zap_set"
               PROVE  Plan[j].value = 0
    BY DEF Unset
  <2>1. Plan[j] = ParseOp(ops[j]) /\ ops[j] \in PlanLines
    BY <1>1
  <2>2. ops[j].kind = "zap_set" /\ Plan[j].value = kv_u64(ops[j].value)
    BY <2>1 DEF ParseOp
  <2>3. ops[j].value = 0
    BY <2>1, <2>2 DEF PlanLines, LineGrounded, ZapSetGrounded
  <2> QED
    BY <2>2, <2>3, WordRead, MissingNoWord
<1>3. /\ \A o \in Obj : KeepsOrDrops(m[o], pool[o])
      /\ \A j \in 1 .. Len(Plan) : Effect(Plan[j], m)
  BY <1>1, <1>2, TrailDrops
<1>4. ASSUME NEW o \in Obj, Exists(pool, o), ~Exists(m, o)
      PROVE  \E l \in ToSet(ops) : l.kind = "free" /\ l.obj = o
  <2>1. PlanResult(Plan, pool)[o].type # pool[o].type
    BY <1>4 DEF Exists
  <2>2. PICK j \in 1 .. Len(Plan) : Plan[j].kind = "free" /\ Plan[j].obj = o
    <3>1. \E j \in 1 .. Len(Plan) : Plan[j].kind = "free" /\ Plan[j].obj = o
      BY <1>1, <2>1, TrailFrame
    <3> QED
      BY <3>1
  <2>3. ops[j].kind = "free" /\ ops[j].obj = o
    <3>1. j \in 1 .. Len(ops) /\ Plan[j] = ParseOp(ops[j])
      BY <1>1
    <3> QED
      BY <2>2, <3>1 DEF ParseOp
  <2>4. ops[j] \in ToSet(ops)
    BY <1>1, <2>2 DEF ToSet
  <2> QED
    BY <2>3, <2>4
<1>5. ASSUME NEW l \in ToSet(ops), l.kind = "free"
      PROVE  l.obj \in Obj /\ m[l.obj].type = NoType
  <2>1. PICK j \in 1 .. Len(ops) : l = ops[j]
    BY <1>1 DEF ToSet
  <2>2. Plan[j] = ParseOp(l) /\ Plan[j] \in Op /\ Effect(Plan[j], m)
    BY <1>1, <1>3, <2>1
  <2>3. Plan[j].kind = "free" /\ Plan[j].obj = l.obj /\ Plan[j].obj \in Obj
    BY <1>5, <2>2 DEF ParseOp, Op
  <2> QED
    BY <2>2, <2>3 DEF Effect
<1>6. ASSUME NEW l \in ToSet(ops), l.kind = "zap_remove", Len(l.key) = 1
      PROVE  NamesNothing(m[l.obj].zap[l.key])
  <2>1. PICK j \in 1 .. Len(ops) : l = ops[j]
    BY <1>1 DEF ToSet
  <2>2. Plan[j] = ParseOp(l) /\ l \in PlanLines /\ Effect(Plan[j], m)
    BY <1>1, <1>3, <2>1
  <2>3. l \in Line /\ ~l.quoted /\ l.key \in Key
    BY <1>6, <2>2 DEF PlanLines, LineGrounded, ZapRemoveGrounded, NamesIn
  <2>4. Plan[j].kind = "zap_remove" /\ Plan[j].obj = l.obj /\ Plan[j].key = l.key
    BY <1>6, <2>2, <2>3, ParsedZap DEF ZapKind
  <2> QED
    BY <2>2, <2>3, <2>4 DEF Effect
<1> QED
  BY <1>3, <1>4, <1>5, <1>6

\* Whatever a readable object still refers to was not freed.
LEMMA StaysGrounded ==
  ASSUME WholeView, Shaped(pool), Contained(pool), NEW m, m = PlanResult(Plan, pool),
         NEW o \in Obj, Readable(m, o), NEW v, Exists(pool, v),
         \/ pool[o].type \in RefType /\ \E k \in Key : m[o].zap[k] = <<v>> /\ pool[o].zap[k] = <<v>>
         \/ BonusNames(pool, o, v)
  PROVE  Exists(m, v)
<1> SUFFICES ASSUME ~Exists(m, v) PROVE FALSE
  OBVIOUS
<1>1. PICK lines : lines = ToSet(ops)
  OBVIOUS
<1>2. Undisturbed /\ Covered(lines) /\ pool \in Image
  BY <1>1 DEF WholeView, CoverInv, Undisturbed, TriageInv
<1>3. Readable(pool, o)
  BY <1>2, LinesDo DEF KeepsOrDrops, Readable, Exists
<1>4. v \in Obj /\ v \in Word
  BY MissingNoWord DEF Exists
<1>5. PICK l \in lines : l.kind = "free" /\ l.obj = v
  BY <1>1, <1>2, <1>4, LinesDo
<1>6. FreeCovered(v, lines)
  BY <1>2, <1>5 DEF Covered
<1>7. ZapNames(pool, o, v) \/ BonusNames(pool, o, v)
  BY DEF ZapNames
<1>8. /\ pool[v].type \notin ErrlogLike
      /\ \A dir \in Orphans(pool) : v \in Parts(pool, dir) =>
           \/ o = dir
           \/ v = dir /\ o \in MapsOver(pool, dir) /\ ~BonusNames(pool, o, v)
  BY <1>3, <1>4, <1>7 DEF Contained
<1>9. get(v).type = pool[v].type
  BY <1>4, <1>6, ViewShows DEF FreeCovered
<1>10. PICK dir \in Word : v \in PartsSeen(dir) /\ Unlinked(dir, lines)
  BY <1>6, <1>8, <1>9 DEF FreeCovered
<1>11. \/ o = dir
       \/ v = dir /\ o \in MapsOver(pool, dir) /\ ~BonusNames(pool, o, v)
  BY <1>4, <1>8, <1>10, OrphanShown
<1>12. o # dir
  <2>1. FreeObj(dir) \in lines
    BY <1>10 DEF Unlinked
  <2>2. FreeObj(dir).kind = "free" /\ FreeObj(dir).obj = dir
    BY DEF FreeObj, PlanLine
  <2>3. m[dir].type = NoType
    BY <1>1, <1>2, <2>1, <2>2, LinesDo
  <2> QED
    BY <2>3 DEF Readable, Exists
<1>13. PICK k \in Key : m[o].zap[k] = <<dir>> /\ pool[o].zap[k] = <<dir>>
  BY <1>11, <1>12
<1>14. ZapRemove(o, k) \in lines /\ o \in Shown(pool, MapField)
  BY <1>3, <1>10, <1>11, <1>12, <1>13, NameRemoved
<1>15. Len(<<dir>>) = 1 /\ <<dir>> # <<>> /\ <<dir>>[1] = dir
  OBVIOUS
<1>16. Len(k) = 1
  BY <1>3, <1>13, <1>14, <1>15 DEF Shaped, MapsAreZaps, Readable
<1>17. ZapRemove(o, k).kind = "zap_remove" /\ ZapRemove(o, k).obj = o /\ ZapRemove(o, k).key = k
  BY DEF ZapRemove, PlanLine
<1>18. NamesNothing(m[o].zap[k])
  BY <1>1, <1>2, <1>14, <1>16, <1>17, LinesDo
<1>19. dir # 0
  BY <1>4, <1>11, <1>12, MosAssumption
<1> QED
  BY <1>13, <1>15, <1>18, <1>19 DEF NamesNothing

LEMMA DanglesNoMore ==
  ASSUME WholeView, Shaped(pool), Contained(pool), NEW m, m = PlanResult(Plan, pool)
  PROVE  DanglingRefs(m) \subseteq DanglingRefs(pool)
<1>1. Undisturbed /\ pool \in Image /\ m \in Image
  BY PlanType, TrailFrame DEF WholeView, Undisturbed, TriageInv
<1>2. ASSUME NEW o \in Obj, Readable(m, o)
      PROVE  Readable(pool, o) /\ pool[o].type = m[o].type /\ KeepsOrDrops(m[o], pool[o])
  BY <1>1, <1>2, LinesDo DEF KeepsOrDrops, Readable, Exists
<1>3. ASSUME NEW o \in Obj, Readable(m, o) PROVE ZapRefs(m, o) \subseteq ZapRefs(pool, o)
  <2> SUFFICES ASSUME NEW k \in Key, Len(m[o].zap[k]) = 1, m[o].type \in RefType,
                      m[o].zap[k][1] # 0, ~Exists(m, m[o].zap[k][1])
               PROVE  /\ Len(pool[o].zap[k]) = 1 /\ pool[o].type \in RefType
                      /\ pool[o].zap[k][1] # 0 /\ ~Exists(pool, pool[o].zap[k][1])
    BY DEF ZapRefs
  <2>1. m[o].zap[k] = pool[o].zap[k]
    BY <1>2, <1>3 DEF KeepsOrDrops, NamesNothing
  <2>2. PICK v : v = pool[o].zap[k][1]
    OBVIOUS
  <2>3. pool[o].zap[k] = <<v>>
    <3>1. pool[o].zap[k] \in Seq(Word)
      BY <1>1 DEF Image, ObjState, Zap
    <3> QED
      BY <2>1, <2>2, <3>1
  <2>4. ~Exists(pool, v)
    <3> SUFFICES ASSUME Exists(pool, v) PROVE FALSE
      OBVIOUS
    <3>1. Exists(m, v)
      BY <1>2, <1>3, <2>1, <2>3, StaysGrounded
    <3> QED
      BY <2>1, <2>2, <3>1
  <2> QED
    BY <1>2, <1>3, <2>1, <2>2, <2>4
<1>4. ASSUME NEW o \in Obj, Readable(m, o) PROVE BonusRefs(m, o) \subseteq BonusRefs(pool, o)
  <2> SUFFICES ASSUME NEW f \in Field \ {"num_children"}, m[o].bonus[f] # 0,
                      ~Exists(m, m[o].bonus[f])
               PROVE  pool[o].bonus[f] # 0 /\ ~Exists(pool, pool[o].bonus[f])
    BY DEF BonusRefs
  <2>1. m[o].bonus[f] = pool[o].bonus[f]
    BY <1>2, <1>4 DEF KeepsOrDrops
  <2>2. BonusNames(pool, o, pool[o].bonus[f])
    BY DEF BonusNames
  <2>3. Exists(pool, pool[o].bonus[f]) => Exists(m, pool[o].bonus[f])
    BY <1>4, <2>2, StaysGrounded
  <2> QED
    BY <2>1, <2>3
<1> QED
  BY <1>2, <1>3, <1>4 DEF DanglingRefs

\* What the scanner knew of the pool when its plan was committed.
SureCommit ==
  Commit => drift = 0 /\ faults = 0 /\ Shaped(pool) /\ Contained(pool)

\* Freeing is safe for every pool in which nothing outside an orphan holds on to
\* its parts, however many orphans, clones and error logs there are: what
\* plan_orphan_removal() and check_errlog() free is not referred to afterwards.
THEOREM ContainedRepairIsClean == TSpec /\ [][SureCommit]_tvars => NoNewDangling
<1>1. TSpec => []CoverInv
  BY CoverInit, CoverNext, TriageInvHolds, PTL DEF TSpec
<1>2. TriageInv /\ CoverInv /\ [SureCommit]_tvars
        => [Commit => DanglingRefs(pool') \subseteq DanglingRefs(pool)]_tvars
  <2> SUFFICES ASSUME TriageInv, CoverInv, SureCommit, Commit
               PROVE  DanglingRefs(pool') \subseteq DanglingRefs(pool)
    OBVIOUS
  <2>1. PICK m : m = PlanResult(Plan, pool)
    OBVIOUS
  <2>2. pool' = m /\ mode = "done"
    BY <2>1 DEF Commit
  <2>3. WholeView /\ Shaped(pool) /\ Contained(pool)
    BY <2>2 DEF SureCommit, WholeView, Undisturbed
  <2>4. DanglingRefs(m) \subseteq DanglingRefs(pool)
    BY <2>1, <2>3, DanglesNoMore
  <2> QED
    BY <2>2, <2>4 DEF DanglingRefs, ZapRefs, BonusRefs
<1> QED
  BY <1>1, <1>2, TriageInvHolds, PTL DEF NoNewDangling


-----------------------------------------------------------------------------
(***************************************************************************)
(* The workflow implements AtomicRepair.  The operators of RepairOps mean  *)
(* the same inside the instance.                                           *)
(***************************************************************************)
LEMMA SameOp ==
  ASSUME NEW m, NEW op
  PROVE  /\ AR!check_op(m, op) <=> check_op(m, op)
         /\ AR!apply_err(m, op) = apply_err(m, op)
         /\ AR!apply_op(m, op) = apply_op(m, op)
BY DEF AR!check_op, check_op, AR!ReportedNoop, ReportedNoop, AR!ZapValueHolds,
       ZapValueHolds, AR!type_name_matches, type_name_matches, AR!apply_err,
       apply_err, AR!apply_op, apply_op, AR!zap_lookup_err, zap_lookup_err,
       AR!zap_hold_err, zap_hold_err, AR!dmu_read_err, dmu_read_err,
       AR!dmu_object_info_err, dmu_object_info_err, AR!Exists, Exists,
       AR!zap_update, zap_update, AR!zap_remove, zap_remove,
       AR!dmu_object_free, dmu_object_free, AR!FreeSlot, FreeSlot,
       AR!EmptyZap, EmptyZap

LEMMA SamePlan ==
  ASSUME NEW p, NEW m
  PROVE  /\ AR!PlanHolds(p, m) <=> PlanHolds(p, m)
         /\ AR!PlanApplies(p, m) <=> PlanApplies(p, m)
         /\ AR!PlanResult(p, m) = PlanResult(p, m)
<1>1. AR!PlanTrail(p, m) = PlanTrail(p, m)
  BY SameOp DEF AR!PlanTrail, PlanTrail
<1> QED
  BY <1>1, SameOp
  DEF AR!PlanHolds, PlanHolds, AR!PlanApplies, PlanApplies, AR!PlanResult, PlanResult

LEMMA ContractNext == TriageInv /\ [TNext]_tvars => [AR!Next]_AR!avars
<1> SUFFICES ASSUME TriageInv, [TNext]_tvars
             PROVE  AR!Next \/ UNCHANGED AR!avars
  OBVIOUS
<1>0. ASSUME UNCHANGED <<pool, drift>>, ~Armed, ~Armed' PROVE UNCHANGED AR!avars
  BY <1>0 DEF AR!avars, Armed
<1>1. CASE Commit
  <2>1. Armed /\ ~Armed'
    BY <1>1 DEF Commit, Armed, Accepted
  <2>2. /\ PlanHolds(Plan, pool) /\ PlanApplies(Plan, pool)
        /\ pool' = PlanResult(Plan, pool) /\ drift' = drift
    BY <1>1 DEF Commit, Accepted
  <2>3. AR!Repair
    BY <2>1, <2>2, SamePlan DEF AR!Repair
  <2> QED
    BY <2>3 DEF AR!Next
<1>2. CASE Leave
  <2>1. ~Armed' /\ pool' = pool /\ drift' = drift
    BY <1>2 DEF Leave, Armed
  <2>2. CASE Armed
    <3>1. AR!Disarm
      BY <2>1, <2>2 DEF AR!Disarm
    <3> QED
      BY <3>1 DEF AR!Next
  <2> QED
    BY <1>0, <2>1, <2>2
<1>3. CASE Alone(ScanStart) \/ Alone(Fetch) \/ Alone(Step) \/ Alone(ZdbNotFound)
  <2>1. mode # "done" /\ mode' # "done" /\ UNCHANGED <<pool, drift>>
    BY <1>3 DEF Alone, ScanStart, Fetch, Step, ZdbNotFound
  <2> QED
    BY <1>0, <2>1 DEF Armed
<1>4. CASE Alone(Report)
  <2>1. ~Armed /\ pool' = pool /\ drift' = drift
    BY <1>4 DEF Alone, Report, Armed
  <2>2. CASE Armed'
    <3>1. OpsInv'
      BY InvNext DEF TriageInv
    <3>2. Plan' \in Seq(Op) /\ Plan' # <<>>
      <4>1. ops' # <<>> /\ ops' \in Seq(PlanLines')
        BY <2>2, <3>1 DEF Armed, OpsInv
      <4>2. \A l \in PlanLines' : ParseOp(l) \in Op
        BY ParseOpType DEF PlanLines, OpKind, ZapKind, Ignored
      <4>3. Plan' = [j \in 1 .. Len(ops') |-> ParseOp(ops'[j])]
        BY <4>1 DEF Plan
      <4>4. Len(ops') \in Nat /\ Len(ops') # 0
        BY <4>1
      <4>5. \A j \in 1 .. Len(ops') : ParseOp(ops'[j]) \in Op
        BY <4>1, <4>2
      <4> QED
        BY <4>3, <4>4, <4>5
    <3>3. AR!Op = Op
      BY DEF AR!Op, Op, AR!OpKind, OpKind, AR!ZapKind, ZapKind, AR!Word, Word
    <3>4. AR!Arm
      BY <2>1, <2>2, <3>2, <3>3 DEF AR!Arm
    <3> QED
      BY <3>4 DEF AR!Next
  <2> QED
    BY <1>0, <2>1, <2>2
<1>5. CASE Alone(Outside)
  <2>1. /\ \E o \in Obj : \E s \in Drift[o] : pool' = [pool EXCEPT ![o] = s]
        /\ drift' = drift + 1 /\ ops' = ops /\ mode' = mode
    BY <1>5 DEF Alone, Outside, walkVars
  <2>2. Armed' = Armed /\ Plan' = Plan
    BY <2>1 DEF Armed, Parses, Plan
  <2>3. AR!Outside
    BY <2>1, <2>2 DEF AR!Outside
  <2> QED
    BY <2>3 DEF AR!Next
<1>6. CASE UNCHANGED tvars
  BY <1>6 DEF tvars, vars, walkVars, AR!avars, Armed, Parses, Plan
<1> QED
  BY <1>1, <1>2, <1>3, <1>4, <1>5, <1>6 DEF TNext

\* What the scanner hands over is always a plan of the surgeon's contract, and
\* the pool changes only as that contract allows, or by others.
THEOREM WorkflowKeepsContract == TSpec => RepairsByContract
<1>1. TInit => AR!Init
  BY DEF TInit, Init, AR!Init, Armed
<1> QED
  BY <1>1, ContractNext, TriageInvHolds, PTL DEF TSpec, RepairsByContract, AR!Spec
==============================================================================
