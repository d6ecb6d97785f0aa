---------------------------- MODULE MCJobProgress ----------------------------
(***************************************************************************)
(* A small instance of JobProgress for TLC, with one slot or with as many  *)
(* as Concurrency: with one, a delivery waits for the slot of another.     *)
(***************************************************************************)
EXTENDS JobProgress

CONSTANTS d1, d2

VARIABLE slots

Narrow == INSTANCE JobProgress WITH Concurrency <- 1

\* Only Acquire counts the slots.
Take(d) == IF slots = 1 THEN Narrow!Acquire(d) ELSE Acquire(d)

InitBoth == slots \in {1, Concurrency} /\ Init
NextBoth ==
  /\ UNCHANGED slots
  /\ \/ slots = 1 /\ Narrow!Next
     \/ slots # 1 /\ Next

\* The fairness of JobProgress.
FairBoth ==
  /\ \A d \in Deliveries :
       WF_<<slots, vars>>(Take(d) /\ UNCHANGED slots) /\ WF_<<slots, vars>>(HandlerTimesOut(d) /\ UNCHANGED slots)
  /\ WF_<<slots, vars>>(Drained /\ UNCHANGED slots) /\ WF_<<slots, vars>>(DrainTimesOut /\ UNCHANGED slots)
  /\ WF_<<slots, vars>>(Poll /\ UNCHANGED slots)

SpecBoth == InitBoth /\ [][NextBoth]_<<slots, vars>> /\ FairBoth
=============================================================================
