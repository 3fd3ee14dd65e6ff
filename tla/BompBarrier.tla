------------------------------ MODULE BompBarrier ------------------------------
(***************************************************************************)
(* A team of threads that all call bomp_barrier_wait on one barrier whose  *)
(* max is the size of the team, again and again, as the threads of a       *)
(* parallel region do at GOMP_barrier and at the region's end.  Shown to   *)
(* implement BarrierSpec.                                                  *)
(***************************************************************************)
EXTENDS SpinBarrier, FiniteSets

CONSTANT MaxWaits    \* how many waits a thread performs (bounds the model)

ASSUME TeamAssumption == IsFiniteSet(Threads) /\ Threads # {}
ASSUME MaxWaitsAssumption == MaxWaits \in Nat

VARIABLES
  arrived, passed,    \* history: waits each thread has entered, returned from
  gen                 \* history: how many times the barrier has opened

vars == <<max, cycle, counter, bpc, local, arrived, passed, gen>>

Init ==
  /\ BarrierInit(Cardinality(Threads))
  /\ arrived = [t \in Threads |-> 0]
  /\ passed = [t \in Threads |-> 0]
  /\ gen = 0

Enter(t) ==
  /\ arrived[t] < MaxWaits
  /\ ReadCycle(t)
  /\ arrived' = [arrived EXCEPT ![t] = @ + 1]
  /\ UNCHANGED <<passed, gen>>

Inside(t) ==
  /\ WaitStep(t)
  /\ UNCHANGED <<arrived, passed, gen>>

Open(t) ==
  /\ StoreCycle(t)
  /\ passed' = [passed EXCEPT ![t] = @ + 1]
  /\ gen' = gen + 1
  /\ UNCHANGED arrived

Return(t) ==
  /\ SpinExit(t)
  /\ passed' = [passed EXCEPT ![t] = @ + 1]
  /\ UNCHANGED <<arrived, gen>>

Step(t) == Enter(t) \/ Inside(t) \/ Open(t) \/ Return(t)

(* Every thread has done all its waits.                                    *)
Finished ==
  /\ \A t \in Threads : passed[t] = MaxWaits
  /\ UNCHANGED vars

Next == (\E t \in Threads : Step(t)) \/ Finished

Spec == Init /\ [][Next]_vars

(* Each thread of the team keeps running and calls the barrier as often as *)
(* the others, which the OpenMP rules require of the program.              *)
FairSpec == Spec /\ \A t \in Threads : WF_vars(Step(t))

-----------------------------------------------------------------------------
(* The barrier's words and the history variables have their types.         *)
TypeOK ==
  /\ BarrierTypeOK
  /\ arrived \in [Threads -> Nat]
  /\ passed \in [Threads -> Nat]
  /\ gen \in Nat

(* Nobody returns from its r-th bomp_barrier_wait before every thread of   *)
(* the team has called its r-th: the read of cycle, the fetch-and-add and  *)
(* the two stores of the last arriver never let a thread slip through.     *)
NoEarlyReturn == \A p, q \in Threads : passed[p] <= arrived[q]

(* At most one thread is between the fetch-and-add that found max - 1 and  *)
(* the store to cycle, and meanwhile no other thread is about to add to    *)
(* counter: the plain stores of bomp_barrier_wait never race.              *)
Opening == {t \in Threads : bpc[t] \in {"reset", "toggle", "store"}}

LastArriverAlone ==
  \A t \in Opening : \A q \in Threads \ {t} : bpc[q] = "spin" /\ local[q] = cycle

(* Everyone that enters a wait gets out of it, for as long as the others   *)
(* keep arriving: no thread misses the toggle of cycle.                    *)
EveryWaitReturns ==
  \A t \in Threads : bpc[t] # "out" ~> bpc[t] = "out"

(* The barrier implements the abstract one, step by step.                  *)
Abstract == INSTANCE BarrierSpec

ImplementsBarrier == Abstract!BSpec

-----------------------------------------------------------------------------
(* The inductive invariant.                                                *)

(* A thread is inside exactly one wait at a time.                          *)
CallsInv ==
  \A t \in Threads :
    arrived[t] = IF bpc[t] = "out" THEN passed[t] ELSE passed[t] + 1

(* Left behind: still spinning although the barrier has opened.            *)
Released(t) == bpc[t] = "spin" /\ passed[t] + 1 = gen

(* cycle is the parity of gen; a thread has returned from gen waits, or    *)
(* from gen - 1 if it has yet to see the last toggle.                      *)
PhaseInv ==
  /\ cycle = gen % 2
  /\ \A t \in Threads :
       /\ passed[t] = gen \/ Released(t)
       /\ bpc[t] \in {"add", "spin"} => local[t] = passed[t] % 2
       /\ bpc[t] = "store" => local[t] = 1 - cycle

(* The arrivals counter stands for.                                        *)
Counted == {t \in Threads : bpc[t] = "spin" /\ passed[t] = gen}

CounterInv ==
  /\ max = Cardinality(Threads)
  /\ Opening = {} => counter = Cardinality(Counted) /\ counter < max
  /\ \A t \in Opening :
       /\ Counted = Threads \ {t}
       /\ bpc[t] = "reset" => counter = max
       /\ bpc[t] # "reset" => counter = 0

(* All of it together: counter, cycle and the threads' places in           *)
(* bomp_barrier_wait agree at every step.                                  *)
IInv == TypeOK /\ CallsInv /\ PhaseInv /\ CounterInv
=============================================================================
