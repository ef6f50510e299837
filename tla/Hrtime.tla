------------------------------- MODULE Hrtime --------------------------------
(***************************************************************************)
(* compat/sys/time.h: the clocks behind gethrtime() and gethrestime(), and *)
(* the conversions between units.  The wall clock may be set to any time;  *)
(* the monotonic clock only goes forward.                                  *)
(***************************************************************************)
EXTENDS Integers

CONSTANTS Kilo,     \* 1000 in the code
          MaxSec    \* bound: how far the clocks run

HrtimeAssumption == Kilo \in Nat \ {0, 1} /\ MaxSec \in Nat

SEC == 1
MILLISEC == Kilo
MICROSEC == Kilo * Kilo
NANOSEC == Kilo * Kilo * Kilo

\* Division in C truncates; times are not negative.
MSEC2NSEC(m) == m * (NANOSEC \div MILLISEC)

\* Mutant: the result is rounded to the nearest millisecond.
NSEC2MSEC_Rounds(n) ==
  (n + (NANOSEC \div MILLISEC) \div 2) \div (NANOSEC \div MILLISEC)

NSEC2MSEC(n) == n \div (NANOSEC \div MILLISEC)
USEC2NSEC(m) == m * (NANOSEC \div MICROSEC)
NSEC2USEC(n) == n \div (NANOSEC \div MICROSEC)
SEC2NSEC(m) == m * (NANOSEC \div SEC)
NSEC2SEC(n) == n \div (NANOSEC \div SEC)

VARIABLES wall,       \* gettimeofday(): seconds and microseconds
          mono,       \* CLOCK_MONOTONIC: seconds and nanoseconds
          hrtime,     \* what the last gethrtime() returned
          hrestime    \* what the last gethrestime() stored

vars == <<wall, mono, hrtime, hrestime>>

Init ==
  /\ wall = [sec |-> 0, usec |-> 0] /\ mono = [sec |-> 0, nsec |-> 0]
  /\ hrtime = 0 /\ hrestime = [sec |-> 0, nsec |-> 0]

(***************************************************************************)
(* The clocks, outside this repository                                     *)
(***************************************************************************)
\* Time passes: nanoseconds carry into seconds.
Tick(n) ==
  /\ LET total == mono.nsec + n
     IN  /\ mono' = [sec |-> mono.sec + total \div NANOSEC, nsec |-> total % NANOSEC]
         /\ mono'.sec <= MaxSec
  /\ UNCHANGED <<wall, hrtime, hrestime>>

SetTime(s, u) ==
  /\ wall' = [sec |-> s, usec |-> u] /\ UNCHANGED <<mono, hrtime, hrestime>>

(***************************************************************************)
(* The functions of the header                                             *)
(***************************************************************************)
\* Mutant: the time of day.
gethrtime_Wall ==
  /\ hrtime' = wall.sec * NANOSEC + wall.usec * (NANOSEC \div MICROSEC)
  /\ UNCHANGED <<wall, mono, hrestime>>

gethrtime ==
  /\ hrtime' = mono.sec * NANOSEC + mono.nsec
  /\ UNCHANGED <<wall, mono, hrestime>>

gethrestime ==
  /\ hrestime' = [sec |-> wall.sec, nsec |-> wall.usec * (NANOSEC \div MICROSEC)]
  /\ UNCHANGED <<wall, mono, hrtime>>

Ticks == {1, Kilo + 1, NANOSEC - 1}

Next ==
  \/ \E n \in Ticks : Tick(n)
  \/ \E s \in 0 .. MaxSec, u \in {0, MICROSEC - 1} : SetTime(s, u)
  \/ gethrtime \/ gethrestime

Spec == Init /\ [][Next]_vars

\* gethrtime() never goes back, also across the carry into seconds, and does
\* not follow the wall clock when that is set.
HrtimeMonotone == [][hrtime' >= hrtime]_vars

\* A timeout expires at the same moment whichever unit it is tested in: the
\* conversion from nanoseconds never reports a unit that is not over yet.
NeverEarly ==
  \A d \in 0 .. (MaxSec + 1) * MICROSEC :
    /\ NSEC2USEC(hrtime) >= d <=> hrtime >= USEC2NSEC(d)
    /\ NSEC2MSEC(hrtime) >= d <=> hrtime >= MSEC2NSEC(d)
    /\ NSEC2SEC(hrtime) >= d <=> hrtime >= SEC2NSEC(d)
=============================================================================
