------------------------------ MODULE BarrierSpec ------------------------------
(***************************************************************************)
(* What a reusable barrier promises, independently of how it is built: the *)
(* r-th wait of a thread returns only once every thread has entered its    *)
(* own r-th wait.  spin.h's bomp_barrier is shown to implement this        *)
(* (module BompBarrier).                                                   *)
(***************************************************************************)
EXTENDS Naturals

CONSTANT Threads

VARIABLES
  arrived,   \* arrived[t]: number of waits t has entered
  passed     \* passed[t]:  number of waits t has returned from

bvars == <<arrived, passed>>

BInit ==
  /\ arrived = [t \in Threads |-> 0]
  /\ passed  = [t \in Threads |-> 0]

Arrive(t) ==
  /\ arrived[t] = passed[t]
  /\ arrived' = [arrived EXCEPT ![t] = @ + 1]
  /\ UNCHANGED passed

Leave(t) ==
  /\ passed[t] < arrived[t]
  /\ \A q \in Threads : passed[t] < arrived[q]
  /\ passed' = [passed EXCEPT ![t] = @ + 1]
  /\ UNCHANGED arrived

BNext == \E t \in Threads : Arrive(t) \/ Leave(t)

BSpec == BInit /\ [][BNext]_bvars
=============================================================================
