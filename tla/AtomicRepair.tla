----------------------------- MODULE AtomicRepair ----------------------------
(***************************************************************************)
(* What the surgeon promises (the contract at the head of zhaxx.c): once   *)
(* the operator has confirmed a plan, the pool goes through the whole plan *)
(* in one step or is left alone, and it does so only from an image on      *)
(* which every precondition holds.  A confirmation is spent by one repair. *)
(* Everything else that happens to the pool is counted in drift.           *)
(***************************************************************************)
EXTENDS RepairOps

CONSTANTS InitImages,  \* images of the pool at the start
          Drift        \* the states others may leave in each object slot

VARIABLES pool, plan, armed, drift

avars == <<pool, plan, armed, drift>>

Init ==
  /\ pool \in InitImages
  /\ plan = <<>> /\ armed = FALSE /\ drift = 0

Arm ==
  /\ ~armed /\ armed' = TRUE
  /\ plan' \in Seq(Op) /\ plan' # <<>>
  /\ UNCHANGED <<pool, drift>>

Disarm ==
  /\ armed /\ armed' = FALSE /\ plan' = <<>>
  /\ UNCHANGED <<pool, drift>>

Repair ==
  /\ armed /\ armed' = FALSE /\ plan' = <<>>
  /\ PlanHolds(plan, pool) /\ PlanApplies(plan, pool)
  /\ pool' = PlanResult(plan, pool)
  /\ UNCHANGED drift

Outside ==
  /\ \E o \in Obj : \E s \in Drift[o] : pool' = [pool EXCEPT ![o] = s]
  /\ drift' = drift + 1
  /\ UNCHANGED <<plan, armed>>

Next == Arm \/ Disarm \/ Repair \/ Outside

Spec == Init /\ [][Next]_avars
==============================================================================
