---------------------------- MODULE AtomicsProofs ----------------------------
(***************************************************************************)
(* Proofs about the atomic operations, for any number of threads and words *)
(* of any width: reference counts, flag words, exchanged values, messages  *)
(* printed once and 64-bit accesses.                                       *)
(***************************************************************************)
EXTENDS Atomics, Sums

Held == SumFunctionOnSet(hold, Thread)

\* The 64-bit values whose halves are from one store.
Even == {[h \in {"lo", "hi"} |-> v] : v \in {0, 1}}

\* What a thread keeps, by what the words are used for.
Kept == IF use = "wide" THEN Even ELSE IF use = "swap" THEN Thread \cup {0} ELSE Nat

TypeInv ==
  /\ use \in {"none"} \cup Uses /\ lp64 \in BOOLEAN
  /\ word \in Nat /\ bits \subseteq Thread /\ slot \in Thread \cup {0} /\ wide \in Even
  /\ pc \in [Thread -> {"out", "in", "dropped", "asked", "store", "load"}]
  /\ loc \in [Thread -> Kept]
  /\ todo \in [Thread -> SUBSET Whole]
  /\ hold \in [Thread -> Nat] /\ freed \in Nat /\ printed \in Nat

\* Before the threads start, nothing has happened.
NoneInv ==
  use = "none" =>
    /\ word = 0 /\ bits = {} /\ slot = 0 /\ freed = 0 /\ printed = 0
    /\ \A t \in Thread : pc[t] = "out" /\ loc[t] = 0 /\ todo[t] = {} /\ hold[t] = 0

\* Thread t has been told that its drop was the last one and has not freed yet.
ToFree(t) == pc[t] = "dropped" /\ loc[t] = 0

\* The count fits its word and is the number of references; from the moment
\* it is zero, either one thread is about to free or the object is freed.
RefsInv ==
  use = "refs" =>
    /\ word = Held /\ word <= MaxHold
    /\ \A t \in Thread : pc[t] \in {"out", "dropped"}
    /\ word > 0 => freed = 0 /\ \A t \in Thread : ~ToFree(t)
    /\ word = 0 => \/ freed = 1 /\ \A t \in Thread : ~ToFree(t)
                   \/ freed = 0 /\ \E t \in Thread :
                        ToFree(t) /\ \A u \in Thread : ToFree(u) => u = t

FlagsInv ==
  use = "flags" => /\ bits = {t \in Thread : pc[t] = "in"}
                   /\ \A t \in Thread : pc[t] \in {"out", "in"}

\* What is in the slot is with no thread.
SwapInv ==
  use = "swap" =>
    /\ \A t \in Thread : loc[t] # slot
    /\ \A t, u \in Thread : loc[t] = loc[u] => t = u
    /\ \A v \in Thread \cup {0} : v = slot \/ \E t \in Thread : loc[t] = v

\* Thread t was the one to set the flag and has not printed yet.
ToPrint(t) == pc[t] = "asked" /\ loc[t] = 0

OnceInv ==
  use = "once" =>
    /\ word \in {0, 1} /\ \A t \in Thread : pc[t] \in {"out", "asked"}
    /\ word = 0 => printed = 0 /\ \A t \in Thread : ~ToPrint(t)
    /\ word = 1 => \/ printed = 1 /\ \A t \in Thread : ~ToPrint(t)
                   \/ printed = 0 /\ \E t \in Thread :
                        ToPrint(t) /\ \A u \in Thread : ToPrint(u) => u = t

AtomicsInv == TypeInv /\ NoneInv /\ RefsInv /\ FlagsInv /\ SwapInv /\ OnceInv

(***************************************************************************)
(* The operators                                                           *)
(***************************************************************************)
\* Below the width of the word no operation wraps.
LEMMA NoWrap ==
  ASSUME AtomicsAssumption, NEW v \in Nat, NEW n \in Nat
  PROVE  /\ v + n <= MaxHold =>
              atomic_add_nv(v, n) = v + n /\ (n = 1 => atomic_inc_nv(v) = v + n)
         /\ v <= MaxHold /\ n <= v =>
              /\ atomic_sub_nv(v, n) = v - n /\ atomic_add_nv(v, -n) = v - n
              /\ (n = 1 => atomic_dec_nv(v) = v - n)
<1>1. \A x \in Nat : x < WordMod => x % WordMod = x
  BY DEF AtomicsAssumption
<1>2. v + n <= MaxHold => v + n < WordMod /\ v + n \in Nat
  BY DEF AtomicsAssumption
<1>3. v <= MaxHold /\ n <= v => v - n < WordMod /\ v - n \in Nat /\ v + (-n) = v - n
  BY DEF AtomicsAssumption
<1>4. v + n <= MaxHold =>
        atomic_add_nv(v, n) = v + n /\ (n = 1 => atomic_inc_nv(v) = v + n)
  BY <1>1, <1>2 DEF atomic_add_nv, atomic_inc_nv, atomic_add, atomic_inc
<1>5. v <= MaxHold /\ n <= v =>
        /\ atomic_sub_nv(v, n) = v - n /\ atomic_add_nv(v, -n) = v - n
        /\ (n = 1 => atomic_dec_nv(v) = v - n)
  BY <1>1, <1>3 DEF atomic_sub_nv, atomic_add_nv, atomic_dec_nv, atomic_sub, atomic_add, atomic_dec
<1> QED
  BY <1>4, <1>5

\* On every build a 64-bit access moves both halves in one piece.
LEMMA WholeAccess ==
  ASSUME lp64 \in BOOLEAN
  PROVE  atomic_load_64 = Whole /\ atomic_store_64 = Whole
BY DEF atomic_load_64, atomic_store_64, PlainAccess

\* A value moved in one piece is moved as it is.
LEMMA MixWhole ==
  ASSUME NEW chunk \in Whole, NEW new \in Even, NEW old
  PROVE  Mix(chunk, new, old) = new
BY DEF Mix, Whole, Zero, Even

\* The references add up to a natural that is no less than any thread's, and
\* an update of one thread's references changes it by as much.
LEMMA HeldFacts ==
  ASSUME AtomicsAssumption, TypeInv
  PROVE  /\ Held \in Nat /\ \A t \in Thread : hold[t] <= Held
         /\ SumFunction(hold) = Held
         /\ Held = 0 <=> \A t \in Thread : hold[t] = 0
         /\ \A t \in Thread : \A e \in Nat :
              SumFunctionOnSet([hold EXCEPT ![t] = e], Thread) = Held - hold[t] + e
<1>1. IsFiniteSet(Thread) /\ hold \in [Thread -> Nat]
  BY DEF AtomicsAssumption, TypeInv
<1>2. \A t \in Thread : hold[t] \in Nat
  BY <1>1
<1>3. Held \in Nat /\ \A t \in Thread : hold[t] <= Held
  BY <1>1, <1>2, SumNat DEF Held
<1>4. SumFunction(hold) = Held
  BY <1>1 DEF SumFunction, Held
<1>5. (\A t \in Thread : hold[t] = 0) => Held = 0
  BY <1>1, SumZero DEF Held
<1>6. ASSUME NEW t \in Thread, NEW e \in Nat
      PROVE  SumFunctionOnSet([hold EXCEPT ![t] = e], Thread) = Held - hold[t] + e
  <2> DEFINE g == [hold EXCEPT ![t] = e]
  <2>1. /\ \A u \in Thread : hold[u] \in Int
        /\ g[t] = e /\ g[t] \in Int /\ \A u \in Thread \ {t} : hold[u] = g[u]
    BY <1>1
  <2> HIDE DEF g
  <2>2. SumFunctionOnSet(g, Thread) = SumFunctionOnSet(hold, Thread) - hold[t] + g[t]
    BY <1>1, <2>1, SumUpdate
  <2> QED
    BY <2>1, <2>2 DEF Held, g
<1>7. Held = 0 => \A t \in Thread : hold[t] = 0
  BY <1>2, <1>3
<1> QED
  BY <1>3, <1>4, <1>5, <1>6, <1>7, Zenon

(***************************************************************************)
(* The invariant is inductive: one lemma per use of the words              *)
(***************************************************************************)
LEMMA InitInv == ASSUME AtomicsAssumption PROVE Init => AtomicsInv
<1> SUFFICES ASSUME Init PROVE AtomicsInv
  OBVIOUS
<1>1. wide \in Even
  BY DEF Init, Zero, Even
<1>2. TypeInv
  BY <1>1 DEF Init, TypeInv, Kept
<1>3. NoneInv
  BY DEF Init, NoneInv
<1> QED
  BY <1>2, <1>3 DEF Init, AtomicsInv, RefsInv, FlagsInv, SwapInv, OnceInv

LEMMA BeginInv ==
  ASSUME AtomicsAssumption, AtomicsInv, NEW u \in Uses, NEW lp \in BOOLEAN, NEW t \in Thread,
         Begin(u, lp, t)
  PROVE  AtomicsInv'
<1> USE DEF AtomicsInv
<1>1. use = "none" /\ use' = u /\ u # "none"
  BY DEF Begin, Uses
<1>2. /\ \A x \in Thread : pc[x] = "out" /\ loc[x] = 0 /\ todo[x] = {} /\ hold[x] = 0
      /\ word = 0 /\ bits = {} /\ slot = 0 /\ freed = 0 /\ printed = 0
  BY <1>1 DEF NoneInv
<1>3. hold' \in [Thread -> Nat] /\ \A x \in Thread : x # t => hold'[x] = 0
  BY <1>2 DEF Begin, TypeInv
<1>4. loc' \in [Thread -> Kept']
  <2>1. CASE u = "swap"
    BY <1>1, <2>1 DEF Begin, Kept
  <2>2. CASE u = "wide"
    <3>1. Zero \in Even
      BY DEF Zero, Even
    <3> QED
      BY <1>1, <2>2, <3>1 DEF Begin, Kept
  <2>3. CASE u \notin {"swap", "wide"}
    BY <1>1, <2>3 DEF Begin, Kept, TypeInv
  <2> QED
    BY <2>1, <2>2, <2>3
<1>5. lp64' \in BOOLEAN
  BY Zenon DEF Begin
<1>6. TypeInv'
  BY <1>1, <1>3, <1>4, <1>5 DEF Begin, TypeInv
<1>7. RefsInv'
  <2> SUFFICES ASSUME u = "refs" PROVE RefsInv'
    BY <1>1 DEF RefsInv
  <2>1. word' = 1 /\ hold' = [hold EXCEPT ![t] = 1]
    BY DEF Begin
  <2>2. Held' = Held - hold[t] + 1 /\ Held = 0
    BY <1>2, <2>1, HeldFacts DEF Held
  <2>3. Held' = 1
    BY <1>2, <2>2
  <2>4. 1 <= MaxHold
    BY DEF AtomicsAssumption
  <2> QED
    BY <1>2, <2>1, <2>3, <2>4 DEF Begin, RefsInv, ToFree
<1>8. FlagsInv'
  BY <1>1, <1>2 DEF Begin, FlagsInv
<1>9. SwapInv'
  BY <1>1, <1>2 DEF Begin, SwapInv, AtomicsAssumption
<1>10. OnceInv'
  BY <1>1, <1>2 DEF Begin, OnceInv, ToPrint
<1> QED
  BY <1>1, <1>6, <1>7, <1>8, <1>9, <1>10 DEF NoneInv

LEMMA HoldInv ==
  ASSUME AtomicsAssumption, AtomicsInv, NEW t \in Thread, NEW n \in 1 .. MaxHold, Hold(t, n)
  PROVE  AtomicsInv'
<1> USE DEF AtomicsInv
<1>1. use = "refs" /\ use' = "refs"
  BY DEF Hold
<1>2. n \in Nat /\ Held \in Nat /\ word = Held /\ Held + n <= MaxHold /\ Held > 0
  <2>1. PICK u \in Thread : hold[u] > 0
    BY DEF Hold
  <2>2. hold[u] \in Nat /\ hold[u] <= Held /\ Held \in Nat
    BY HeldFacts DEF TypeInv
  <2> QED
    BY <1>1, <2>1, <2>2, HeldFacts DEF Hold, RefsInv, AtomicsAssumption
<1>3. word' = word + n
  BY <1>2, NoWrap DEF Hold
<1>4. hold[t] \in Nat /\ hold[t] + n \in Nat /\ hold' = [hold EXCEPT ![t] = hold[t] + n]
  BY <1>2 DEF Hold, TypeInv
<1>5. Held' = Held + n
  <2>1. Held' = Held - hold[t] + (hold[t] + n)
    BY <1>4, HeldFacts DEF Held
  <2> QED
    BY <1>2, <1>4, <2>1
<1>6. TypeInv'
  BY <1>2, <1>3, <1>4 DEF Hold, TypeInv, Kept
<1>7. RefsInv'
  BY <1>1, <1>2, <1>3, <1>5 DEF Hold, RefsInv, ToFree
<1> QED
  BY <1>1, <1>6, <1>7 DEF NoneInv, FlagsInv, SwapInv, OnceInv

LEMMA DropInv ==
  ASSUME AtomicsAssumption, AtomicsInv, NEW t \in Thread, NEW n \in 1 .. MaxHold,
         NEW negated \in BOOLEAN, Drop(t, n, negated)
  PROVE  AtomicsInv'
<1> USE DEF AtomicsInv
<1>1. use = "refs" /\ use' = "refs" /\ pc[t] = "out"
  BY DEF Drop
<1>2. /\ n \in Nat /\ n > 0 /\ word \in Nat /\ word = Held /\ word <= MaxHold
      /\ hold[t] \in Nat /\ hold[t] <= word /\ n <= hold[t]
  BY <1>1, HeldFacts DEF Drop, RefsInv, TypeInv, AtomicsAssumption
<1>3. n <= word /\ word > 0
  BY <1>2
<1>4. word' = word - n /\ loc' = [loc EXCEPT ![t] = word - n]
      /\ pc' = [pc EXCEPT ![t] = "dropped"]
  <2>1. /\ n = 1 => atomic_dec_nv(word) = word - n
        /\ atomic_add_nv(word, -n) = word - n /\ atomic_sub_nv(word, n) = word - n
    BY <1>2, <1>3, NoWrap
  <2> QED
    BY <2>1 DEF Drop, Local
<1>5. hold[t] - n \in Nat /\ hold' = [hold EXCEPT ![t] = hold[t] - n]
  BY <1>2 DEF Drop
<1>6. Held' = word - n
  <2>1. Held' = Held - hold[t] + (hold[t] - n)
    BY <1>5, HeldFacts DEF Held
  <2> QED
    BY <1>2, <2>1
<1>7. TypeInv'
  <2>1. word - n \in Nat
    BY <1>2, <1>3
  <2> QED
    BY <1>1, <1>4, <1>5, <2>1 DEF Drop, TypeInv, Kept
<1>8. RefsInv'
  <2>1. freed' = 0 /\ \A u \in Thread : ~ToFree(u)
    BY <1>1, <1>3 DEF RefsInv, Drop
  <2>2. \A u \in Thread : u # t => ToFree(u)' = ToFree(u)
    BY <1>4 DEF TypeInv, ToFree
  <2>3. ToFree(t)' <=> word - n = 0
    BY <1>4 DEF TypeInv, ToFree
  <2>4. word' \in Nat /\ word' <= MaxHold
    BY <1>2, <1>3, <1>4 DEF AtomicsAssumption
  <2>5. \A u \in Thread : pc'[u] \in {"out", "dropped"}
    BY <1>1, <1>4 DEF RefsInv, TypeInv
  <2>6. CASE word - n = 0
    BY <1>1, <1>4, <1>6, <2>1, <2>2, <2>3, <2>4, <2>5, <2>6 DEF RefsInv
  <2>7. CASE word - n # 0
    BY <1>1, <1>4, <1>6, <2>1, <2>2, <2>3, <2>4, <2>5, <2>7 DEF RefsInv
  <2> QED
    BY <2>6, <2>7
<1> QED
  BY <1>1, <1>7, <1>8 DEF NoneInv, FlagsInv, SwapInv, OnceInv

LEMMA LastOneInv ==
  ASSUME AtomicsAssumption, AtomicsInv, NEW t \in Thread, LastOne(t)
  PROVE  AtomicsInv'
<1> USE DEF AtomicsInv
<1>1. /\ use = "refs" /\ use' = "refs" /\ pc[t] = "dropped" /\ word' = word /\ hold' = hold
      /\ pc' = [pc EXCEPT ![t] = "out"] /\ loc' = [loc EXCEPT ![t] = 0]
  BY DEF LastOne, Local, shared
<1>2. TypeInv'
  BY <1>1 DEF LastOne, shared, TypeInv, Kept, WentToZero
<1>3. /\ ~ToFree(t)' /\ \A u \in Thread : u # t => ToFree(u)' = ToFree(u)
      /\ \A u \in Thread : pc'[u] \in {"out", "dropped"}
  BY <1>1 DEF TypeInv, ToFree, RefsInv
<1>4. Held' = Held /\ word \in Nat
  BY <1>1 DEF Held, TypeInv
<1>5. RefsInv'
  <2>1. CASE ToFree(t)
    <3>1. word = 0 /\ freed = 0 /\ \A u \in Thread : ToFree(u) => u = t
      BY <1>1, <1>4, <2>1 DEF RefsInv
    <3>2. freed' = 1
      BY <2>1, <3>1 DEF LastOne, WentToZero, ToFree
    <3> QED
      BY <1>1, <1>3, <1>4, <3>1, <3>2 DEF RefsInv
  <2>2. CASE ~ToFree(t)
    <3>1. freed' = freed
      BY <1>1, <2>2 DEF LastOne, WentToZero, ToFree
    <3>2. \A u \in Thread : ToFree(u)' <=> ToFree(u)
      BY <1>3, <2>2
    <3> QED
      BY <1>1, <1>3, <1>4, <3>1, <3>2 DEF RefsInv
  <2> QED
    BY <2>1, <2>2
<1> QED
  BY <1>1, <1>2, <1>5 DEF NoneInv, FlagsInv, SwapInv, OnceInv

LEMMA FlagInv ==
  ASSUME AtomicsAssumption, AtomicsInv, NEW t \in Thread, SetBit(t) \/ ClearBit(t)
  PROVE  AtomicsInv'
<1> USE DEF AtomicsInv
<1>1. use = "flags" /\ use' = "flags"
  BY DEF SetBit, ClearBit
<1>2. CASE SetBit(t)
  <2>1. bits' = bits \cup {t} /\ pc' = [pc EXCEPT ![t] = "in"]
    BY <1>2 DEF SetBit, atomic_or_nv, atomic_or
  <2>2. TypeInv'
    BY <1>2, <2>1 DEF SetBit, TypeInv, Kept
  <2>3. FlagsInv'
    BY <1>1, <2>1 DEF FlagsInv, TypeInv
  <2> QED
    BY <1>1, <2>2, <2>3 DEF NoneInv, RefsInv, SwapInv, OnceInv
<1>3. CASE ClearBit(t)
  <2>1. bits' = bits \cap (Thread \ {t}) /\ pc' = [pc EXCEPT ![t] = "out"]
    BY <1>3 DEF ClearBit, atomic_and_nv, atomic_and
  <2>2. TypeInv'
    BY <1>3, <2>1 DEF ClearBit, TypeInv, Kept
  <2>3. FlagsInv'
    BY <1>1, <2>1 DEF FlagsInv, TypeInv
  <2> QED
    BY <1>1, <2>2, <2>3 DEF NoneInv, RefsInv, SwapInv, OnceInv
<1> QED
  BY <1>2, <1>3

LEMMA ExchangeInv ==
  ASSUME AtomicsAssumption, AtomicsInv, NEW t \in Thread, Exchange(t)
  PROVE  AtomicsInv'
<1> USE DEF AtomicsInv
<1>1. /\ use = "swap" /\ use' = "swap"
      /\ slot' = loc[t] /\ loc' = [loc EXCEPT ![t] = slot] /\ pc' = [pc EXCEPT ![t] = "out"]
  BY DEF Exchange, atomic_swap, Local
<1>2. loc \in [Thread -> Thread \cup {0}] /\ slot \in Thread \cup {0}
  BY <1>1 DEF TypeInv, Kept
<1>3. TypeInv'
  BY <1>1, <1>2 DEF Exchange, TypeInv, Kept
<1>4. SwapInv'
  <2>1. /\ \A u \in Thread : loc[u] # slot
        /\ \A u, w \in Thread : loc[u] = loc[w] => u = w
        /\ \A v \in Thread \cup {0} : v = slot \/ \E u \in Thread : loc[u] = v
    BY <1>1 DEF SwapInv
  <2>2. \A u \in Thread : loc'[u] = IF u = t THEN slot ELSE loc[u]
    BY <1>1, <1>2
  <2>3. \A u \in Thread : loc'[u] # slot'
    BY <1>1, <2>1, <2>2
  <2>4. \A u, w \in Thread : loc'[u] = loc'[w] => u = w
    BY <2>1, <2>2
  <2>5. \A v \in Thread \cup {0} : v = slot' \/ \E u \in Thread : loc'[u] = v
    BY <1>1, <2>1, <2>2
  <2> QED
    BY <2>3, <2>4, <2>5 DEF SwapInv
<1> QED
  BY <1>1, <1>3, <1>4 DEF NoneInv, RefsInv, FlagsInv, OnceInv

LEMMA OnceStepInv ==
  ASSUME AtomicsAssumption, AtomicsInv, NEW t \in Thread, cmn_err_once(t) \/ cmn_err(t)
  PROVE  AtomicsInv'
<1> USE DEF AtomicsInv
<1>1. use = "once" /\ use' = "once" /\ loc \in [Thread -> Nat] /\ word \in {0, 1}
  BY DEF cmn_err_once, cmn_err, TypeInv, Kept, OnceInv
<1>2. CASE cmn_err_once(t)
  <2>1. /\ word' = 1 /\ pc[t] = "out" /\ printed' = printed
        /\ pc' = [pc EXCEPT ![t] = "asked"] /\ loc' = [loc EXCEPT ![t] = word]
    BY <1>1, <1>2 DEF cmn_err_once, atomic_cas, Local
  <2>2. TypeInv'
    BY <1>1, <1>2, <2>1 DEF cmn_err_once, TypeInv, Kept
  <2>3. /\ \A u \in Thread : u # t => ToPrint(u)' = ToPrint(u)
        /\ ToPrint(t)' <=> word = 0
        /\ ~ToPrint(t) /\ \A u \in Thread : pc'[u] \in {"out", "asked"}
    BY <1>1, <2>1 DEF ToPrint, TypeInv, OnceInv
  <2>4. ASSUME word = 0 PROVE OnceInv'
    <3>1. printed' = 0 /\ ToPrint(t)' /\ \A u \in Thread : ToPrint(u)' => u = t
      BY <1>1, <2>1, <2>3, <2>4 DEF OnceInv
    <3> QED
      BY <1>1, <2>1, <2>3, <3>1 DEF OnceInv
  <2>5. ASSUME word = 1 PROVE OnceInv'
    <3>1. \A u \in Thread : ToPrint(u)' <=> ToPrint(u)
      BY <2>3, <2>5
    <3> QED
      BY <1>1, <2>1, <2>3, <2>5, <3>1 DEF OnceInv
  <2>6. OnceInv'
    BY <1>1, <2>4, <2>5
  <2> QED
    BY <1>1, <2>2, <2>6 DEF NoneInv, RefsInv, FlagsInv, SwapInv
<1>3. CASE cmn_err(t)
  <2>1. /\ word' = word /\ pc[t] = "asked"
        /\ pc' = [pc EXCEPT ![t] = "out"] /\ loc' = [loc EXCEPT ![t] = 0]
    BY <1>3 DEF cmn_err, Local, shared
  <2>2. TypeInv'
    BY <1>1, <1>3, <2>1 DEF cmn_err, shared, TypeInv, Kept
  <2>3. /\ \A u \in Thread : u # t => ToPrint(u)' = ToPrint(u)
        /\ ~ToPrint(t)' /\ \A u \in Thread : pc'[u] \in {"out", "asked"}
    BY <1>1, <2>1 DEF ToPrint, TypeInv, OnceInv
  <2>4. CASE ToPrint(t)
    <3>1. word = 1 /\ printed = 0 /\ \A u \in Thread : ToPrint(u) => u = t
      BY <1>1, <2>4 DEF OnceInv
    <3>2. printed' = 1
      BY <1>3, <2>4, <3>1 DEF cmn_err, ToPrint
    <3>3. OnceInv'
      BY <1>1, <2>1, <2>3, <3>1, <3>2 DEF OnceInv
    <3> QED
      BY <1>1, <2>2, <3>3 DEF NoneInv, RefsInv, FlagsInv, SwapInv
  <2>5. CASE ~ToPrint(t)
    <3>1. printed' = printed
      BY <1>3, <2>1, <2>5 DEF cmn_err, ToPrint
    <3>2. \A u \in Thread : ToPrint(u)' <=> ToPrint(u)
      BY <2>3, <2>5
    <3>3. OnceInv'
      BY <1>1, <2>1, <2>3, <3>1, <3>2 DEF OnceInv
    <3> QED
      BY <1>1, <2>2, <3>3 DEF NoneInv, RefsInv, FlagsInv, SwapInv
  <2> QED
    BY <2>4, <2>5
<1> QED
  BY <1>2, <1>3

LEMMA WideStepInv ==
  ASSUME AtomicsAssumption, AtomicsInv, NEW t \in Thread,
         \/ \E v \in {0, 1} : StoreWide(t, v)
         \/ LoadWide(t)
         \/ \E chunk \in todo[t] : Move(t, chunk)
         \/ Moved(t)
  PROVE  AtomicsInv'
<1> USE DEF AtomicsInv
<1>1. use = "wide" /\ use' = "wide" /\ lp64' = lp64
  BY DEF StoreWide, LoadWide, Move, Moved
<1>2. lp64 \in BOOLEAN
  BY Zenon DEF TypeInv
<1>3. loc \in [Thread -> Even] /\ Zero \in Even
  BY <1>1 DEF TypeInv, Kept, Zero, Even
<1>4. TypeInv'
  <2>1. ASSUME NEW v \in {0, 1}, StoreWide(t, v) PROVE TypeInv'
    <3>1. [h \in DOMAIN Zero |-> v] \in Even
      BY DEF Zero, Even
    <3> HIDE DEF AtomicsInv
    <3>2. todo' = [todo EXCEPT ![t] = Whole] /\ Whole \in SUBSET Whole
      BY <1>2, <2>1, WholeAccess DEF StoreWide
    <3> QED
      BY <1>1, <1>3, <2>1, <3>1, <3>2 DEF AtomicsInv, StoreWide, Local, shared, TypeInv, Kept
  <2>2. CASE LoadWide(t)
    <3>1. todo' = [todo EXCEPT ![t] = Whole] /\ Whole \in SUBSET Whole
      BY <1>2, <2>2, WholeAccess DEF LoadWide
    <3> QED
      BY <1>1, <1>3, <2>2, <3>1 DEF LoadWide, Local, shared, TypeInv, Kept
  <2>3. ASSUME NEW chunk \in todo[t], Move(t, chunk) PROVE TypeInv'
    <3>1. chunk \in Whole /\ loc[t] \in Even /\ wide \in Even
      BY <1>3 DEF TypeInv
    <3>2. Mix(chunk, loc[t], wide) = loc[t] /\ Mix(chunk, wide, loc[t]) = wide
      BY <3>1, MixWhole
    <3>3. wide' \in Even /\ loc' \in [Thread -> Even]
      BY <1>3, <2>3, <3>1, <3>2 DEF Move
    <3>4. todo' \in [Thread -> SUBSET Whole]
      BY <2>3 DEF Move, TypeInv
    <3> QED
      BY <1>1, <2>3, <3>3, <3>4 DEF Move, TypeInv, Kept
  <2>4. CASE Moved(t)
    BY <1>1, <1>3, <2>4 DEF Moved, Local, shared, TypeInv, Kept
  <2> QED
    BY <2>1, <2>2, <2>3, <2>4
<1> QED
  BY <1>1, <1>4 DEF NoneInv, RefsInv, FlagsInv, SwapInv, OnceInv

LEMMA NextInv ==
  ASSUME AtomicsAssumption, AtomicsInv, [Next]_vars
  PROVE  AtomicsInv'
<1>1. CASE Next
  BY <1>1, BeginInv, HoldInv, DropInv, LastOneInv, FlagInv, ExchangeInv, OnceStepInv,
     WideStepInv DEF Next
<1>2. CASE UNCHANGED vars
  BY <1>2 DEF vars, shared, AtomicsInv, TypeInv, Kept, NoneInv, RefsInv, Held, ToFree,
              FlagsInv, SwapInv, OnceInv, ToPrint
<1> QED
  BY <1>1, <1>2

(***************************************************************************)
(* The properties                                                          *)
(***************************************************************************)
LEMMA InvSafe ==
  ASSUME AtomicsAssumption, AtomicsInv
  PROVE  FreedExactlyOnce /\ NoLostUpdate /\ PrintedOnce /\ NeverTorn
<1> USE DEF AtomicsInv
<1>1. FreedExactlyOnce
  <2> SUFFICES ASSUME use = "refs" PROVE FreedExactlyOnce
    BY DEF FreedExactlyOnce
  <2>1. word = Held /\ Held \in Nat
    BY HeldFacts DEF RefsInv
  <2>2. freed <= 1
    BY <2>1 DEF RefsInv
  <2>3. freed = 1 => \A t \in Thread : hold[t] = 0
    BY <2>1, HeldFacts DEF RefsInv
  <2>4. ASSUME \A t \in Thread : hold[t] = 0 /\ pc[t] = "out" PROVE freed = 1
    <3>1. word = 0
      BY <2>1, <2>4, HeldFacts
    <3> QED
      BY <2>4, <3>1 DEF RefsInv, ToFree
  <2> QED
    BY <2>2, <2>3, <2>4 DEF FreedExactlyOnce
<1>2. NoLostUpdate
  <2>1. use = "refs" => word = SumFunction(hold)
    BY HeldFacts DEF RefsInv
  <2>2. use = "flags" => bits = {t \in Thread : pc[t] = "in"}
    BY DEF FlagsInv
  <2>3. ASSUME use = "swap"
        PROVE  {slot} \cup Range(loc) = {0} \cup Thread /\ IsInjective(loc)
    <3>1. loc \in [Thread -> Thread \cup {0}] /\ slot \in Thread \cup {0}
      BY <2>3 DEF TypeInv, Kept
    <3> QED
      BY <2>3, <3>1 DEF SwapInv, Range, IsInjective
  <2> QED
    BY <2>1, <2>2, <2>3 DEF NoLostUpdate
<1>3. PrintedOnce
  BY DEF OnceInv, ToPrint, PrintedOnce
<1>4. NeverTorn
  <2> SUFFICES ASSUME use = "wide", NEW t \in Thread PROVE loc[t].lo = loc[t].hi
    BY DEF NeverTorn
  <2>1. loc[t] \in Even
    BY DEF TypeInv, Kept
  <2> QED
    BY <2>1 DEF Even
<1> QED
  BY <1>1, <1>2, <1>3, <1>4

\* For any number of threads and any width of the words: the object behind a
\* reference count is freed exactly once and never while it is held, no update
\* of a count, a flag word or an exchanged value is lost, cmn_err_once() prints
\* once, and a 64-bit load is never torn on either kind of build.
THEOREM AtomicsSafe ==
  ASSUME AtomicsAssumption
  PROVE  Spec => [](FreedExactlyOnce /\ NoLostUpdate /\ PrintedOnce /\ NeverTorn)
<1>1. Init => AtomicsInv
  BY InitInv
<1>2. AtomicsInv /\ [Next]_vars => AtomicsInv'
  BY NextInv
<1>3. AtomicsInv => FreedExactlyOnce /\ NoLostUpdate /\ PrintedOnce /\ NeverTorn
  BY InvSafe
<1> QED
  BY <1>1, <1>2, <1>3, PTL DEF Spec
=============================================================================
