------------------------------ MODULE SpinBarrier ------------------------------
(***************************************************************************)
(* The centralized spin barrier of libbomp (lib/libbomp/spin.h): struct    *)
(* bomp_barrier and bomp_barrier_wait, one action per access to the shared *)
(* words.  The module has no behaviour of its own: BompBarrier drives it   *)
(* with a team whose size is the barrier's max, BompParallel with the      *)
(* threads and the max the OpenMP runtime really gives it.                 *)
(***************************************************************************)
EXTENDS Integers

CONSTANT Threads    \* every thread that may call bomp_barrier_wait

VARIABLES
  max, cycle, counter,  \* the fields of struct bomp_barrier
  bpc,                  \* bpc[t]: where t is in bomp_barrier_wait
  local                 \* local[t]: t's register, the cycle it read or is about to store

barrierVars == <<max, cycle, counter, bpc, local>>

(* out: not in a wait; add: cycle has been read; reset, toggle, store: the *)
(* last arriver's three remaining accesses; spin: any other arriver.       *)
BarrierPC == {"out", "add", "reset", "toggle", "store", "spin"}

BarrierTypeOK ==
  /\ max \in Int
  /\ cycle \in {0, 1}
  /\ counter \in Nat
  /\ bpc \in [Threads -> BarrierPC]
  /\ local \in [Threads -> {0, 1}]

(* bomp_barrier_init(barrier, count), before any thread waits.             *)
BarrierInit(count) ==
  /\ max = count
  /\ cycle = 0
  /\ counter = 0
  /\ bpc = [t \in Threads |-> "out"]
  /\ local = [t \in Threads |-> 0]

(* bomp_barrier_updateMax(barrier, new_max).                               *)
UpdateMax(newMax) ==
  /\ max' = newMax
  /\ UNCHANGED <<cycle, counter, bpc, local>>

-----------------------------------------------------------------------------
(* bomp_barrier_wait                                                       *)

(* int cycle = barrier->cycle                                              *)
ReadCycle(t) ==
  /\ bpc[t] = "out"
  /\ local' = [local EXCEPT ![t] = cycle]
  /\ bpc' = [bpc EXCEPT ![t] = "add"]
  /\ UNCHANGED <<max, cycle, counter>>

(* Mutant: the last arrival is taken to be the one before it.              *)
FetchAndAddOffByOne(t) ==
  /\ bpc[t] = "add"
  /\ counter' = counter + 1
  /\ bpc' = [bpc EXCEPT ![t] = IF counter = max - 2 THEN "reset" ELSE "spin"]
  /\ UNCHANGED <<max, cycle, local>>

(* __sync_fetch_and_add(&barrier->counter, 1) == barrier->max - 1          *)
FetchAndAdd(t) ==
  /\ bpc[t] = "add"
  /\ counter' = counter + 1
  /\ bpc' = [bpc EXCEPT ![t] = IF counter = max - 1 THEN "reset" ELSE "spin"]
  /\ UNCHANGED <<max, cycle, local>>

(* Mutant: counter is not reset for the next round.                        *)
ResetCounterForgotten(t) ==
  /\ bpc[t] = "reset"
  /\ bpc' = [bpc EXCEPT ![t] = "toggle"]
  /\ UNCHANGED <<max, cycle, counter, local>>

(* barrier->counter = 0                                                    *)
ResetCounter(t) ==
  /\ bpc[t] = "reset"
  /\ counter' = 0
  /\ bpc' = [bpc EXCEPT ![t] = "toggle"]
  /\ UNCHANGED <<max, cycle, local>>

(* barrier->cycle = !barrier->cycle: the load, and then the store with     *)
(* which the last arriver's wait returns.                                  *)
LoadCycle(t) ==
  /\ bpc[t] = "toggle"
  /\ local' = [local EXCEPT ![t] = 1 - cycle]
  /\ bpc' = [bpc EXCEPT ![t] = "store"]
  /\ UNCHANGED <<max, cycle, counter>>

StoreCycle(t) ==
  /\ bpc[t] = "store"
  /\ cycle' = local[t]
  /\ bpc' = [bpc EXCEPT ![t] = "out"]
  /\ UNCHANGED <<max, counter, local>>

(* Mutant: the wait does not compare what it reads with what it read.      *)
SpinExitUnchecked(t) ==
  /\ bpc[t] = "spin"
  /\ bpc' = [bpc EXCEPT ![t] = "out"]
  /\ UNCHANGED <<max, cycle, counter, local>>

(* while (cycle == barrier->cycle): the load that ends the loop; the loads *)
(* that keep it spinning change nothing.                                   *)
SpinExit(t) ==
  /\ bpc[t] = "spin"
  /\ local[t] # cycle
  /\ bpc' = [bpc EXCEPT ![t] = "out"]
  /\ UNCHANGED <<max, cycle, counter, local>>

(* The steps inside a wait, and the two with which one returns.            *)
WaitStep(t) == FetchAndAdd(t) \/ ResetCounter(t) \/ LoadCycle(t)

WaitReturn(t) == StoreCycle(t) \/ SpinExit(t)
=============================================================================
