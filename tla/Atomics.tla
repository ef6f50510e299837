------------------------------- MODULE Atomics -------------------------------
(***************************************************************************)
(* compat/atomic.h under concurrent threads, in the uses that the header   *)
(* and compat/sys/cmn_err.h describe: reference counts, flag words, values *)
(* that change hands, messages printed once, and 64-bit words.  The header *)
(* declares the functions and their bodies are in libspl; an operator here *)
(* is the step its comment promises.                                       *)
(***************************************************************************)
EXTENDS Integers, FiniteSets, Functions

CONSTANTS Thread,   \* threads that share the words
          WordMod,  \* 2^8 to 2^64 in the code
          MaxHold   \* bound: references held at a time

AtomicsAssumption ==
  /\ WordMod \in Nat /\ MaxHold \in Nat \ {0} /\ MaxHold < WordMod
  /\ IsFiniteSet(Thread) /\ 0 \notin Thread

VARIABLES use,     \* what the threads use the words for
          lp64,    \* the build has 64-bit registers
          word, bits, slot, wide,   \* the shared words
          pc, loc, todo,            \* of each thread
          hold, freed, printed      \* history

shared == <<word, bits, slot, wide>>
vars == <<use, lp64, shared, pc, loc, todo, hold, freed, printed>>

(***************************************************************************)
(* The operations: the new value of the word, which _nv returns            *)
(***************************************************************************)
atomic_inc(v) == (v + 1) % WordMod
atomic_dec(v) == (v - 1) % WordMod
atomic_add(v, delta) == (v + delta) % WordMod
atomic_sub(v, delta) == (v - delta) % WordMod
atomic_inc_nv(v) == atomic_inc(v)
atomic_dec_nv(v) == atomic_dec(v)
atomic_add_nv(v, delta) == atomic_add(v, delta)
atomic_sub_nv(v, delta) == atomic_sub(v, delta)

\* A word of flags is the set of its bits that are 1.
atomic_or(v, mask) == v \cup mask

\* Mutant: the mask is stored instead of being applied.
atomic_and_Assigns(v, mask) == mask
atomic_and(v, mask) == v \cap mask
atomic_or_nv(v, mask) == atomic_or(v, mask)
atomic_and_nv(v, mask) == atomic_and(v, mask)

\* These two return the old value.
atomic_cas(v, old, new) == IF v = old THEN new ELSE v
atomic_swap(v, new) == new

(***************************************************************************)
(* 64-bit loads and stores.  A plain access moves as much at a time as a   *)
(* register holds; without _LP64 the header declares functions instead.    *)
(***************************************************************************)
Whole == {{"lo", "hi"}}
PlainAccess == IF lp64 THEN Whole ELSE {{"lo"}, {"hi"}}

\* Mutant: the plain access of the shorter types, whatever the build.
atomic_load_64_Plain == PlainAccess

atomic_load_64 == IF lp64 THEN PlainAccess ELSE Whole
atomic_store_64 == IF lp64 THEN PlainAccess ELSE Whole

Zero == [h \in {"lo", "hi"} |-> 0]

Init ==
  /\ use = "none" /\ lp64 = FALSE
  /\ word = 0 /\ bits = {} /\ slot = 0 /\ wide = Zero
  /\ pc = [t \in Thread |-> "out"] /\ loc = [t \in Thread |-> 0]
  /\ todo = [t \in Thread |-> {}]
  /\ hold = [t \in Thread |-> 0] /\ freed = 0 /\ printed = 0

Local(t, label, v) == pc' = [pc EXCEPT ![t] = label] /\ loc' = [loc EXCEPT ![t] = v]

\* The threads start on one use; a reference count starts with one holder.
Begin(u, lp, t) ==
  /\ use = "none" /\ use' = u /\ lp64' = lp
  /\ word' = IF u = "refs" THEN 1 ELSE 0
  /\ hold' = [hold EXCEPT ![t] = IF u = "refs" THEN 1 ELSE 0]
  /\ loc' = IF u = "swap" THEN [x \in Thread |-> x]
            ELSE IF u = "wide" THEN [x \in Thread |-> Zero] ELSE loc
  /\ UNCHANGED <<bits, slot, wide, pc, todo, freed, printed>>

(***************************************************************************)
(* "when decrementing a reference count and checking whether it went to    *)
(* zero": a thread gets its references from one that holds some            *)
(***************************************************************************)
Hold(t, n) ==
  /\ use = "refs" /\ pc[t] = "out"
  /\ \E u \in Thread : hold[u] > 0
  /\ SumFunction(hold) + n <= MaxHold
  /\ word' = IF n = 1 THEN atomic_inc_nv(word) ELSE atomic_add_nv(word, n)
  /\ hold' = [hold EXCEPT ![t] = @ + n]
  /\ UNCHANGED <<use, lp64, bits, slot, wide, pc, loc, todo, freed, printed>>

\* One reference, or several with either spelling of the subtraction.
Drop(t, n, negated) ==
  /\ use = "refs" /\ pc[t] = "out" /\ hold[t] >= n
  /\ LET new == IF n = 1 THEN atomic_dec_nv(word)
                ELSE IF negated THEN atomic_add_nv(word, -n) ELSE atomic_sub_nv(word, n)
     IN  word' = new /\ Local(t, "dropped", new)
  /\ hold' = [hold EXCEPT ![t] = @ - n]
  /\ UNCHANGED <<use, lp64, bits, slot, wide, todo, freed, printed>>

\* Mutant: the count is read again instead of taking what _nv returned.
WentToZero_Reload(t) == word = 0

WentToZero(t) == loc[t] = 0

LastOne(t) ==
  /\ use = "refs" /\ pc[t] = "dropped"
  /\ freed' = IF WentToZero(t) THEN freed + 1 ELSE freed
  /\ Local(t, "out", 0)
  /\ UNCHANGED <<use, lp64, shared, todo, hold, printed>>

(***************************************************************************)
(* Each thread sets and clears a bit of its own                            *)
(***************************************************************************)
SetBit(t) ==
  /\ use = "flags" /\ pc[t] = "out" /\ bits' = atomic_or_nv(bits, {t})
  /\ pc' = [pc EXCEPT ![t] = "in"]
  /\ UNCHANGED <<use, lp64, word, slot, wide, loc, todo, hold, freed, printed>>

ClearBit(t) ==
  /\ use = "flags" /\ pc[t] = "in" /\ bits' = atomic_and_nv(bits, Thread \ {t})
  /\ pc' = [pc EXCEPT ![t] = "out"]
  /\ UNCHANGED <<use, lp64, word, slot, wide, loc, todo, hold, freed, printed>>

\* A thread leaves what it has in the slot and takes what was there.
Exchange(t) ==
  /\ use = "swap"
  /\ slot' = atomic_swap(slot, loc[t]) /\ Local(t, "out", slot)
  /\ UNCHANGED <<use, lp64, word, bits, wide, todo, hold, freed, printed>>

(***************************************************************************)
(* cmn_err_once() and its three variants, called by any thread again and   *)
(* again                                                                   *)
(***************************************************************************)
\* Mutant: the flag is looked at first and set in a second step.
cmn_err_once_TestThenSet(t) ==
  /\ use = "once"
  /\ \/ pc[t] = "out" /\ Local(t, "tested", word) /\ UNCHANGED word
     \/ pc[t] = "tested" /\ Local(t, "asked", loc[t]) /\ word' = 1
  /\ UNCHANGED <<use, lp64, bits, slot, wide, todo, hold, freed, printed>>

cmn_err_once(t) ==
  /\ use = "once" /\ pc[t] = "out"
  /\ word' = atomic_cas(word, 0, 1) /\ Local(t, "asked", word)
  /\ UNCHANGED <<use, lp64, bits, slot, wide, todo, hold, freed, printed>>

cmn_err(t) ==
  /\ use = "once" /\ pc[t] = "asked"
  /\ printed' = IF loc[t] = 0 THEN printed + 1 ELSE printed
  /\ Local(t, "out", 0)
  /\ UNCHANGED <<use, lp64, shared, todo, hold, freed>>

(***************************************************************************)
(* 64-bit words: one chunk after the other until both halves have moved    *)
(***************************************************************************)
StoreWide(t, v) ==
  /\ use = "wide" /\ pc[t] = "out"
  /\ Local(t, "store", [h \in DOMAIN Zero |-> v])
  /\ todo' = [todo EXCEPT ![t] = atomic_store_64]
  /\ UNCHANGED <<use, lp64, shared, hold, freed, printed>>

LoadWide(t) ==
  /\ use = "wide" /\ pc[t] = "out" /\ Local(t, "load", Zero)
  /\ todo' = [todo EXCEPT ![t] = atomic_load_64]
  /\ UNCHANGED <<use, lp64, shared, hold, freed, printed>>

Mix(chunk, new, old) == [h \in DOMAIN Zero |-> IF h \in chunk THEN new[h] ELSE old[h]]

Move(t, chunk) ==
  /\ use = "wide" /\ chunk \in todo[t]
  /\ todo' = [todo EXCEPT ![t] = @ \ {chunk}]
  /\ IF pc[t] = "store"
     THEN wide' = Mix(chunk, loc[t], wide) /\ UNCHANGED loc
     ELSE loc' = [loc EXCEPT ![t] = Mix(chunk, wide, @)] /\ UNCHANGED wide
  /\ UNCHANGED <<use, lp64, word, bits, slot, pc, hold, freed, printed>>

Moved(t) ==
  /\ use = "wide" /\ pc[t] # "out" /\ todo[t] = {} /\ Local(t, "out", Zero)
  /\ UNCHANGED <<use, lp64, shared, todo, hold, freed, printed>>

Uses == {"refs", "flags", "swap", "once", "wide"}

Next ==
  \/ \E u \in Uses, lp \in BOOLEAN, t \in Thread : Begin(u, lp, t)
  \/ \E t \in Thread :
       \/ \E n \in 1 .. MaxHold : Hold(t, n) \/ \E neg \in BOOLEAN : Drop(t, n, neg)
       \/ LastOne(t)
       \/ SetBit(t) \/ ClearBit(t) \/ Exchange(t)
       \/ cmn_err_once(t) \/ cmn_err(t)
       \/ \E v \in {0, 1} : StoreWide(t, v)
       \/ LoadWide(t) \/ \E chunk \in todo[t] : Move(t, chunk)
       \/ Moved(t)

Spec == Init /\ [][Next]_vars

(***************************************************************************)
(* Properties                                                              *)
(***************************************************************************)
\* The thread that sees a reference count go to zero is one and only one,
\* however the drops interleave: the object is freed once, never while
\* somebody still holds it, and never forgotten.
FreedExactlyOnce ==
  use = "refs" =>
    /\ freed <= 1
    /\ freed = 1 => \A t \in Thread : hold[t] = 0
    /\ (\A t \in Thread : hold[t] = 0 /\ pc[t] = "out") => freed = 1

\* No update of a shared word is lost: the count is the sum of the references,
\* the flags are those of the threads that set them, and what the threads
\* exchange is neither lost nor duplicated.
NoLostUpdate ==
  /\ use = "refs" => word = SumFunction(hold)
  /\ use = "flags" => bits = {t \in Thread : pc[t] = "in"}
  /\ use = "swap" => /\ {slot} \cup Range(loc) = {0} \cup Thread
                     /\ IsInjective(loc)

\* cmn_err_once() prints once: no two threads pass its test, and when a call
\* has returned the message has been printed or is about to be.
PrintedOnce ==
  use = "once" =>
    /\ printed <= 1
    /\ word = 1 => printed = 1 \/ \E t \in Thread : pc[t] = "asked" /\ loc[t] = 0

\* A 64-bit load never returns half of one store and half of another, also
\* where registers have 32 bits.
NeverTorn ==
  use = "wide" => \A t \in Thread :
    pc[t] = "load" /\ todo[t] = {} => loc[t].lo = loc[t].hi
=============================================================================
