---------------------------- MODULE MembarProofs -----------------------------
(***************************************************************************)
(* Proofs about the barriers, for any number of threads and critical       *)
(* sections: the lock protects its data and the mailbox never shows old    *)
(* data, although every thread delays stores and loads ahead.              *)
(***************************************************************************)
EXTENDS Membar, TLAPS

LockLabel == {"out", "enter", "read", "write", "exit", "release"}
MailLabel == {"out", "stored", "ordered", "done", "seen", "sample", "sampled"}

TypeInv ==
  /\ protocol \in {"none", "lock", "mailbox"} /\ mem \in [Cell -> Int]
  /\ locked \in BOOLEAN /\ buf \in [Thread -> SUBSET (Cell \X Int)]
  /\ ahead \in [Thread -> Int \cup {None}]
  /\ pc \in [Thread -> LockLabel \cup MailLabel] /\ reg \in [Thread -> Int]
  /\ rounds \in Nat

\* Nothing has happened while no protocol was chosen.
FreshInv ==
  protocol = "none" =>
    /\ mem["data"] = 0 /\ mem["flag"] = 0 /\ ~locked /\ rounds = 0
    /\ \A t \in Thread : pc[t] = "out" /\ buf[t] = {}

\* The data is one ahead of rounds from the moment the new value has left the
\* buffer until the lock is released.  A store is in a buffer only before the
\* exit barrier, and what a section loads ahead of its read is current.
LockInv ==
  protocol = "lock" =>
    /\ \A t \in Thread : pc[t] \in LockLabel
    /\ \A t, u \in Thread : InSection(t) /\ InSection(u) => t = u
    /\ locked <=> \E t \in Thread : InSection(t)
    /\ \A t \in Thread :
         /\ pc[t] # "exit" => buf[t] = {}
         /\ pc[t] = "exit" => \/ buf[t] = {<<"data", rounds + 1>>} /\ mem["data"] = rounds
                              \/ buf[t] = {} /\ mem["data"] = rounds + 1
         /\ pc[t] \in {"enter", "read", "write"} => mem["data"] = rounds
         /\ pc[t] = "release" => mem["data"] = rounds + 1
         /\ pc[t] = "read" => ahead[t] \in {None, rounds}
         /\ pc[t] = "write" => reg[t] = rounds
    /\ ~locked => mem["data"] = rounds

\* The flag is raised behind the data, and only the producer stores.
MailInv ==
  protocol = "mailbox" =>
    /\ pc[Producer] \in {"out", "stored", "ordered", "done"}
    /\ pc[Producer] \in {"out", "ordered"} => buf[Producer] = {}
    /\ pc[Producer] = "stored" => \/ buf[Producer] = {<<"data", 1>>}
                                  \/ buf[Producer] = {} /\ mem["data"] = 1
    /\ pc[Producer] = "done" => buf[Producer] \subseteq {<<"flag", 1>>}
    /\ pc[Producer] \in {"ordered", "done"} => mem["data"] = 1
    /\ mem["flag"] = 1 => pc[Producer] = "done"
    /\ \A t \in Thread \ {Producer} :
         /\ buf[t] = {} /\ pc[t] \in {"out", "seen", "sample", "sampled"}
         /\ pc[t] # "out" => pc[Producer] = "done"
         /\ pc[t] = "sample" => ahead[t] \in {None, 1}
         /\ pc[t] = "sampled" => reg[t] = 1

MembarInv == TypeInv /\ FreshInv /\ LockInv /\ MailInv

\* What a load returns: an integer, and without a store of the thread's own in
\* the buffer what was loaded ahead or is in memory.
LEMMA LoadedIs ==
  ASSUME TypeInv, MembarAssumption, NEW t \in Thread
  PROVE  /\ Loaded(t) \in Int
         /\ buf[t] = {} => Loaded(t) = IF ahead[t] # None THEN ahead[t] ELSE mem["data"]
<1>1. CASE \E s \in buf[t] : s[1] = "data"
  <2>1. PICK s : s = (CHOOSE x \in buf[t] : x[1] = "data")
    OBVIOUS
  <2>2. s \in buf[t]
    BY <1>1, <2>1
  <2>3. s[2] \in Int
    BY <2>2 DEF TypeInv
  <2> QED
    BY <1>1, <2>1, <2>3 DEF Loaded
<1>2. CASE ~\E s \in buf[t] : s[1] = "data"
  BY <1>2 DEF Loaded, TypeInv, Cell
<1> QED
  BY <1>1, <1>2

\* Nothing is stored, loaded or locked at the start.
LEMMA MembarInit == MembarAssumption /\ Init => MembarInv
<1> SUFFICES ASSUME MembarAssumption, Init PROVE MembarInv
  OBVIOUS
<1>1. TypeInv
  <2>1. buf \in [Thread -> SUBSET (Cell \X Int)] /\ locked \in BOOLEAN
    BY DEF Init
  <2>2. /\ mem \in [Cell -> Int] /\ ahead \in [Thread -> Int \cup {None}]
        /\ pc \in [Thread -> LockLabel \cup MailLabel] /\ reg \in [Thread -> Int]
    BY DEF Init, LockLabel
  <2> QED
    BY <2>1, <2>2 DEF Init, TypeInv
<1>2. FreshInv /\ LockInv /\ MailInv
  BY DEF Init, FreshInv, LockInv, MailInv, Cell
<1> QED
  BY <1>1, <1>2 DEF MembarInv

\* No step leaves the domains.
LEMMA TypeNext ==
  ASSUME MembarAssumption, TypeInv, Next
  PROVE  TypeInv'
<1> USE DEF TypeInv, LockLabel, MailLabel
<1>1. CASE \E p \in {"lock", "mailbox"} : Begin(p)
  BY <1>1 DEF Begin
<1>2. ASSUME NEW t \in Thread, Drain(t) PROVE TypeInv'
  <2>1. PICK s \in buf[t] : /\ mem' = [mem EXCEPT ![s[1]] = s[2]]
                             /\ buf' = [buf EXCEPT ![t] = buf[t] \ {s}]
                             /\ UNCHANGED <<protocol, locked, ahead, pc, reg, rounds>>
    BY <1>2 DEF Drain
  <2>2. s[2] \in Int
    OBVIOUS
  <2> QED
    BY <2>1, <2>2
<1>3. ASSUME NEW t \in Thread, Read(t) \/ Sample(t) PROVE TypeInv'
  BY <1>3, LoadedIs DEF Read, Sample, Goto
<1>4. ASSUME NEW t \in Thread, LoadAhead(t) PROVE TypeInv'
  BY <1>4 DEF LoadAhead, Cell
<1>5. ASSUME NEW t \in Thread, Write(t) \/ Produce(t) \/ Raise(t) PROVE TypeInv'
  <2>1. PICK c \in Cell, v \in Int : Store(t, c, v)
    BY <1>5 DEF Write, Produce, Raise, Cell
  <2>2. buf' \in [Thread -> SUBSET (Cell \X Int)]
    BY <2>1 DEF Store
  <2> QED
    BY <1>5, <2>2 DEF Write, Produce, Raise, Goto
<1>6. ASSUME NEW t \in Thread, atomic_set_long_excl(t) \/ atomic_clear_long_excl(t) \/ SeeFlag(t)
      PROVE  TypeInv'
  <2>1. pc' \in [Thread -> LockLabel \cup MailLabel] /\ rounds' \in Nat
    BY <1>6 DEF atomic_set_long_excl, atomic_clear_long_excl, SeeFlag, Goto
  <2>2. locked' \in BOOLEAN
    BY <1>6, Zenon DEF atomic_set_long_excl, atomic_clear_long_excl, SeeFlag
  <2> QED
    BY <1>6, <2>1, <2>2 DEF atomic_set_long_excl, atomic_clear_long_excl, SeeFlag
<1>7. ASSUME NEW t \in Thread, Enter(t) \/ Exit(t) \/ Publish(t) \/ Order(t)
      PROVE  TypeInv'
  <2>1. ahead' \in [Thread -> Int \cup {None}] /\ buf' = buf
    BY <1>7 DEF Enter, Exit, Publish, Order, membar_enter, membar_exit, membar_producer,
                membar_consumer
  <2>2. pc' \in [Thread -> LockLabel \cup MailLabel]
    BY <1>7 DEF Enter, Exit, Publish, Order, Goto
  <2> QED
    BY <1>7, <2>1, <2>2 DEF Enter, Exit, Publish, Order
<1> QED
  BY <1>1, <1>2, <1>3, <1>4, <1>5, <1>6, <1>7 DEF Next

\* A protocol begins in the initial state.
LEMMA BeginInv ==
  ASSUME MembarAssumption, MembarInv, NEW p \in {"lock", "mailbox"}, Begin(p)
  PROVE  FreshInv' /\ LockInv' /\ MailInv'
<1>1. /\ mem'["data"] = 0 /\ mem'["flag"] = 0 /\ ~locked' /\ rounds' = 0
      /\ \A t \in Thread : pc'[t] = "out" /\ buf'[t] = {}
  BY DEF Begin, MembarInv, FreshInv
<1> QED
  BY <1>1 DEF Begin, FreshInv, LockInv, MailInv, LockLabel, InSection, MembarAssumption

\* The steps of the lock, and what the processor does in between.
LEMMA LockNext ==
  ASSUME MembarAssumption, MembarInv, Next, protocol = "lock"
  PROVE  LockInv'
<1> USE DEF MembarInv, InSection
<1>1. PICK t \in Thread :
        \/ Drain(t) \/ LoadAhead(t)
        \/ atomic_set_long_excl(t) \/ Enter(t) \/ Read(t) \/ Write(t) \/ Exit(t)
        \/ atomic_clear_long_excl(t)
  BY DEF Next, Begin, Produce, Publish, Raise, SeeFlag, Order, Sample
<1>2. CASE Drain(t)
  <2>1. PICK s \in buf[t] : /\ mem' = [mem EXCEPT ![s[1]] = s[2]]
                             /\ buf' = [buf EXCEPT ![t] = buf[t] \ {s}]
                             /\ UNCHANGED <<protocol, locked, ahead, pc, reg, rounds>>
    BY <1>2 DEF Drain
  <2>2. pc[t] = "exit" /\ s = <<"data", rounds + 1>> /\ buf[t] = {s} /\ locked
    BY DEF LockInv
  <2>3. buf'[t] = {} /\ mem'["data"] = rounds + 1
        /\ \A u \in Thread : u # t => buf'[u] = buf[u] /\ pc[u] = "out"
    BY <2>1, <2>2 DEF TypeInv, LockInv, LockLabel, Cell
  <2> QED
    BY <2>1, <2>2, <2>3 DEF LockInv, TypeInv
<1>3. CASE LoadAhead(t)
  BY <1>3 DEF LoadAhead, LockInv, TypeInv
<1>4. CASE atomic_set_long_excl(t)
  BY <1>4 DEF atomic_set_long_excl, Goto, LockInv, TypeInv, LockLabel
<1>5. CASE Enter(t)
  BY <1>5 DEF Enter, membar_enter, Goto, LockInv, TypeInv, LockLabel
<1>6. CASE Read(t)
  <2>1. Loaded(t) = rounds
    BY <1>6, LoadedIs DEF Read, LockInv
  <2> QED
    BY <1>6, <2>1 DEF Read, Goto, LockInv, TypeInv, LockLabel
<1>7. CASE Write(t)
  <2>1. buf' = [buf EXCEPT ![t] = {<<"data", rounds + 1>>}]
    BY <1>7 DEF Write, Store, LockInv
  <2> QED
    BY <1>7, <2>1 DEF Write, Goto, LockInv, TypeInv, LockLabel
<1>8. CASE Exit(t)
  BY <1>8 DEF Exit, membar_exit, Goto, LockInv, TypeInv, LockLabel
<1>9. CASE atomic_clear_long_excl(t)
  BY <1>9 DEF atomic_clear_long_excl, Goto, LockInv, TypeInv, LockLabel
<1> QED
  BY <1>1, <1>2, <1>3, <1>4, <1>5, <1>6, <1>7, <1>8, <1>9

\* The steps of the mailbox.
LEMMA MailNext ==
  ASSUME MembarAssumption, MembarInv, Next, protocol = "mailbox"
  PROVE  MailInv'
<1> USE DEF MembarInv, MembarAssumption
<1>1. PICK t \in Thread :
        \/ Drain(t) \/ LoadAhead(t)
        \/ Produce(t) \/ Publish(t) \/ Raise(t) \/ SeeFlag(t) \/ Order(t) \/ Sample(t)
  BY DEF Next, Begin, atomic_set_long_excl, Enter, Read, Write, Exit, atomic_clear_long_excl
<1>2. CASE Drain(t)
  <2>1. PICK s \in buf[t] : /\ mem' = [mem EXCEPT ![s[1]] = s[2]]
                             /\ buf' = [buf EXCEPT ![t] = buf[t] \ {s}]
                             /\ UNCHANGED <<protocol, locked, ahead, pc, reg, rounds>>
    BY <1>2 DEF Drain
  <2>2. t = Producer /\ buf[t] = {s}
        /\ \/ pc[t] = "stored" /\ s = <<"data", 1>>
           \/ pc[t] = "done" /\ s = <<"flag", 1>>
    BY DEF MailInv
  <2>3. buf'[t] = {} /\ \A u \in Thread : u # t => buf'[u] = buf[u]
    BY <2>1, <2>2 DEF TypeInv
  <2>4. CASE pc[t] = "stored" /\ s = <<"data", 1>>
    BY <2>1, <2>2, <2>3, <2>4 DEF MailInv, TypeInv, Cell
  <2>5. CASE pc[t] = "done" /\ s = <<"flag", 1>>
    BY <2>1, <2>2, <2>3, <2>5 DEF MailInv, TypeInv, Cell
  <2> QED
    BY <2>2, <2>4, <2>5
<1>3. CASE LoadAhead(t)
  BY <1>3 DEF LoadAhead, MailInv, TypeInv
<1>4. CASE Produce(t)
  <2>1. buf' = [buf EXCEPT ![t] = {<<"data", 1>>}]
    BY <1>4 DEF Produce, Store, MailInv
  <2> QED
    BY <1>4, <2>1 DEF Produce, Goto, MailInv, TypeInv
<1>5. CASE Publish(t)
  BY <1>5 DEF Publish, membar_producer, Goto, MailInv, TypeInv
<1>6. CASE Raise(t)
  <2>1. buf' = [buf EXCEPT ![t] = {<<"flag", 1>>}]
    BY <1>6 DEF Raise, Store, MailInv
  <2> QED
    BY <1>6, <2>1 DEF Raise, Goto, MailInv, TypeInv
<1>7. CASE SeeFlag(t)
  BY <1>7 DEF SeeFlag, Goto, MailInv, TypeInv
<1>8. CASE Order(t)
  BY <1>8 DEF Order, membar_consumer, Goto, MailInv, TypeInv
<1>9. CASE Sample(t)
  <2>1. t # Producer /\ Loaded(t) = 1
    BY <1>9, LoadedIs DEF Sample, MailInv
  <2> QED
    BY <1>9, <2>1 DEF Sample, Goto, MailInv, TypeInv
<1> QED
  BY <1>1, <1>2, <1>3, <1>4, <1>5, <1>6, <1>7, <1>8, <1>9

\* Every step keeps the invariant, whichever protocol is under way.
LEMMA MembarNext == MembarAssumption /\ MembarInv /\ [Next]_vars => MembarInv'
<1> SUFFICES ASSUME MembarAssumption, MembarInv, [Next]_vars PROVE MembarInv'
  OBVIOUS
<1>1. CASE UNCHANGED vars
  BY <1>1 DEF vars, MembarInv, TypeInv, FreshInv, LockInv, MailInv, InSection
<1>2. CASE Next
  <2>1. TypeInv'
    BY <1>2, TypeNext DEF MembarInv
  <2>2. CASE \E p \in {"lock", "mailbox"} : Begin(p)
    BY <2>1, <2>2, BeginInv DEF MembarInv
  <2>3. CASE ~\E p \in {"lock", "mailbox"} : Begin(p)
    <3>1. PICK t \in Thread :
            \/ Drain(t) \/ LoadAhead(t)
            \/ atomic_set_long_excl(t) \/ Enter(t) \/ Read(t) \/ Write(t) \/ Exit(t)
            \/ atomic_clear_long_excl(t)
            \/ Produce(t) \/ Publish(t) \/ Raise(t) \/ SeeFlag(t) \/ Order(t) \/ Sample(t)
      BY <1>2, <2>3 DEF Next
    <3>2. protocol' = protocol /\ protocol # "none"
      BY <3>1 DEF Drain, LoadAhead, atomic_set_long_excl, Enter, Read, Write, Exit,
                  atomic_clear_long_excl, Produce, Publish, Raise, SeeFlag, Order, Sample,
                  MembarInv, FreshInv
    <3> QED
      BY <1>2, <2>1, <3>2, LockNext, MailNext DEF MembarInv, FreshInv, LockInv, MailInv, TypeInv
  <2> QED
    BY <2>2, <2>3
<1> QED
  BY <1>1, <1>2

\* What the comments on the barriers promise follows.
LEMMA MembarInvImplies == MembarAssumption /\ MembarInv => LockProtects /\ DataBehindFlag
<1> SUFFICES ASSUME MembarAssumption, MembarInv PROVE LockProtects /\ DataBehindFlag
  OBVIOUS
<1>1. LockProtects
  BY DEF MembarInv, LockInv, LockProtects
<1>2. DataBehindFlag
  BY DEF MembarInv, MailInv, DataBehindFlag
<1> QED
  BY <1>1, <1>2

\* For any number of threads and rounds, on a processor that delays stores and
\* loads ahead as it likes: between atomic_set_long_excl() and
\* atomic_clear_long_excl() there is one thread and no increment is lost, and a
\* consumer behind membar_consumer() reads what was stored before
\* membar_producer().
THEOREM MembarSafe ==
  ASSUME MembarAssumption
  PROVE  Spec => [](LockProtects /\ DataBehindFlag)
BY MembarInit, MembarNext, MembarInvImplies, PTL DEF Spec
=============================================================================
