------------------------------- MODULE Membar --------------------------------
(***************************************************************************)
(* The barriers and the exclusive bits of compat/atomic.h on a processor   *)
(* that reorders: a store waits in the buffer of its thread for as long as *)
(* it likes, in no order, and a load may be done ahead of its turn.  The   *)
(* two uses are those of the comments on the barriers: a lock, and a       *)
(* producer that "updates a data item, then sets a flag".                  *)
(***************************************************************************)
EXTENDS Integers

CONSTANTS Thread,
          Producer,   \* the thread that produces
          MaxRounds,  \* bound: critical sections
          None

MembarAssumption == Producer \in Thread /\ MaxRounds \in Nat /\ None \notin Int

Cell == {"data", "flag"}

VARIABLES protocol, mem,
          locked,   \* bit 0 of the ulong_t that is the lock
          buf,      \* stores of each thread that are not visible yet
          ahead,    \* what a thread has loaded of the data ahead of its turn
          pc, reg, rounds

vars == <<protocol, mem, locked, buf, ahead, pc, reg, rounds>>

Init ==
  /\ protocol = "none" /\ mem = [c \in Cell |-> 0] /\ locked = FALSE
  /\ buf = [t \in Thread |-> {}] /\ ahead = [t \in Thread |-> None]
  /\ pc = [t \in Thread |-> "out"] /\ reg = [t \in Thread |-> 0] /\ rounds = 0

Begin(p) ==
  /\ protocol = "none" /\ protocol' = p
  /\ UNCHANGED <<mem, locked, buf, ahead, pc, reg, rounds>>

Goto(t, label) == pc' = [pc EXCEPT ![t] = label]

Store(t, c, v) == buf' = [buf EXCEPT ![t] = @ \cup {<<c, v>>}]

\* The thread's own store, what it loaded ahead, or memory.
Loaded(t) ==
  IF \E s \in buf[t] : s[1] = "data" THEN (CHOOSE s \in buf[t] : s[1] = "data")[2]
  ELSE IF ahead[t] # None THEN ahead[t] ELSE mem["data"]

Drain(t) ==
  \E s \in buf[t] :
    /\ mem' = [mem EXCEPT ![s[1]] = s[2]]
    /\ buf' = [buf EXCEPT ![t] = @ \ {s}]
    /\ UNCHANGED <<protocol, locked, ahead, pc, reg, rounds>>

LoadAhead(t) ==
  /\ protocol # "none" /\ ahead[t] = None /\ ahead' = [ahead EXCEPT ![t] = mem["data"]]
  /\ UNCHANGED <<protocol, mem, locked, buf, pc, reg, rounds>>

(***************************************************************************)
(* The barriers.  One for stores lets the thread pass when its stores are  *)
(* visible; one for loads discards what was loaded ahead.                  *)
(***************************************************************************)
membar_enter(t) == ahead' = [ahead EXCEPT ![t] = None] /\ UNCHANGED buf

\* Mutant: the barrier is empty, as on a processor that keeps stores in order.
membar_exit_Empty(t) == UNCHANGED <<ahead, buf>>

membar_exit(t) == buf[t] = {} /\ ahead' = [ahead EXCEPT ![t] = None] /\ UNCHANGED buf

membar_producer(t) == buf[t] = {} /\ UNCHANGED <<ahead, buf>>

\* Mutant: the barrier of the reader is empty.
membar_consumer_Empty(t) == UNCHANGED <<ahead, buf>>

membar_consumer(t) == ahead' = [ahead EXCEPT ![t] = None] /\ UNCHANGED buf

(***************************************************************************)
(* A lock: the bit, the barrier, a read and a write, the barrier, the bit  *)
(***************************************************************************)
\* Returns 0 and sets the bit, or -1 when it was set: the caller tries again.
atomic_set_long_excl(t) ==
  /\ protocol = "lock" /\ pc[t] = "out" /\ rounds < MaxRounds
  /\ ~locked /\ locked' = TRUE /\ Goto(t, "enter")
  /\ UNCHANGED <<protocol, mem, buf, ahead, reg, rounds>>

Enter(t) ==
  /\ protocol = "lock" /\ pc[t] = "enter" /\ membar_enter(t) /\ Goto(t, "read")
  /\ UNCHANGED <<protocol, mem, locked, reg, rounds>>

Read(t) ==
  /\ protocol = "lock" /\ pc[t] = "read" /\ Goto(t, "write")
  /\ reg' = [reg EXCEPT ![t] = Loaded(t)]
  /\ UNCHANGED <<protocol, mem, locked, buf, ahead, rounds>>

Write(t) ==
  /\ protocol = "lock" /\ pc[t] = "write" /\ Goto(t, "exit")
  /\ Store(t, "data", reg[t] + 1) /\ ahead' = [ahead EXCEPT ![t] = None]
  /\ UNCHANGED <<protocol, mem, locked, reg, rounds>>

Exit(t) ==
  /\ protocol = "lock" /\ pc[t] = "exit" /\ membar_exit(t) /\ Goto(t, "release")
  /\ UNCHANGED <<protocol, mem, locked, reg, rounds>>

atomic_clear_long_excl(t) ==
  /\ protocol = "lock" /\ pc[t] = "release"
  /\ locked /\ locked' = FALSE /\ Goto(t, "out") /\ rounds' = rounds + 1
  /\ UNCHANGED <<protocol, mem, buf, ahead, reg>>

(***************************************************************************)
(* A producer and its consumers                                            *)
(***************************************************************************)
Produce(t) ==
  /\ protocol = "mailbox" /\ t = Producer /\ pc[t] = "out"
  /\ Store(t, "data", 1) /\ Goto(t, "stored")
  /\ UNCHANGED <<protocol, mem, locked, ahead, reg, rounds>>

Publish(t) ==
  /\ protocol = "mailbox" /\ pc[t] = "stored" /\ membar_producer(t) /\ Goto(t, "ordered")
  /\ UNCHANGED <<protocol, mem, locked, reg, rounds>>

Raise(t) ==
  /\ protocol = "mailbox" /\ pc[t] = "ordered" /\ Store(t, "flag", 1) /\ Goto(t, "done")
  /\ UNCHANGED <<protocol, mem, locked, ahead, reg, rounds>>

SeeFlag(t) ==
  /\ protocol = "mailbox" /\ t # Producer /\ pc[t] = "out"
  /\ mem["flag"] = 1 /\ Goto(t, "seen")
  /\ UNCHANGED <<protocol, mem, locked, buf, ahead, reg, rounds>>

Order(t) ==
  /\ protocol = "mailbox" /\ pc[t] = "seen" /\ membar_consumer(t) /\ Goto(t, "sample")
  /\ UNCHANGED <<protocol, mem, locked, reg, rounds>>

Sample(t) ==
  /\ protocol = "mailbox" /\ pc[t] = "sample" /\ Goto(t, "sampled")
  /\ reg' = [reg EXCEPT ![t] = Loaded(t)]
  /\ UNCHANGED <<protocol, mem, locked, buf, ahead, rounds>>

Next ==
  \/ \E p \in {"lock", "mailbox"} : Begin(p)
  \/ \E t \in Thread :
       \/ Drain(t) \/ LoadAhead(t)
       \/ atomic_set_long_excl(t) \/ Enter(t) \/ Read(t) \/ Write(t) \/ Exit(t)
       \/ atomic_clear_long_excl(t)
       \/ Produce(t) \/ Publish(t) \/ Raise(t) \/ SeeFlag(t) \/ Order(t) \/ Sample(t)

Spec == Init /\ [][Next]_vars

(***************************************************************************)
(* Properties                                                              *)
(***************************************************************************)
InSection(t) == pc[t] \in {"enter", "read", "write", "exit", "release"}

\* "the lock protects its data": one thread at a time is between the two
\* exclusive bit operations, and no increment made there is lost, although
\* the processor delays stores and loads ahead.
LockProtects ==
  protocol = "lock" =>
    /\ \A t, u \in Thread : InSection(t) /\ InSection(u) => t = u
    /\ (\A t \in Thread : ~InSection(t) /\ buf[t] = {}) => mem["data"] = rounds

\* "the data is not sampled until after the available flag has been seen":
\* a consumer that has seen the flag reads what the producer wrote before.
DataBehindFlag ==
  protocol = "mailbox" => \A t \in Thread : pc[t] = "sampled" => reg[t] = 1
=============================================================================
