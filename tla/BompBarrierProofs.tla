-------------------------- MODULE BompBarrierProofs --------------------------
(***************************************************************************)
(* bomp_barrier_wait is a correct barrier for a team of any finite size    *)
(* and any number of waits: the invariant IInv of BompBarrier is           *)
(* inductive, no thread returns early, and every step is a step of the     *)
(* abstract barrier or leaves it alone.                                    *)
(***************************************************************************)
EXTENDS BompBarrier, FiniteSetTheorems, TLAPS

(* The team's size is a positive natural number, and so is no less than    *)
(* the size of any part of the team.                                       *)
LEMMA TeamSize ==
  /\ Cardinality(Threads) \in Nat
  /\ Cardinality(Threads) >= 1
  <1>1. Cardinality(Threads) \in Nat
    BY TeamAssumption, FS_CardinalityType
  <1>2. Cardinality(Threads) # 0
    BY TeamAssumption, FS_EmptySet
  <1> QED
    BY <1>1, <1>2

(* The arrival that finds max - 1 others counted is the last of the team.  *)
LEMMA LastArrival ==
  ASSUME NEW S \in SUBSET Threads, NEW t \in Threads, t \notin S,
         Cardinality(S) = Cardinality(Threads) - 1
  PROVE  S = Threads \ {t}
  <1>1. IsFiniteSet(Threads \ {t})
        /\ Cardinality(Threads \ {t}) = Cardinality(Threads) - 1
    BY TeamAssumption, FS_RemoveElement
  <1>2. S \subseteq Threads \ {t}
    OBVIOUS
  <1> QED
    BY <1>1, <1>2, FS_Subset

(* Counting one more arrival.                                              *)
LEMMA OneMore ==
  ASSUME NEW S \in SUBSET Threads, NEW t \in Threads, t \notin S
  PROVE  /\ Cardinality(S) \in Nat
         /\ Cardinality(S \cup {t}) = Cardinality(S) + 1
         /\ Cardinality(S \cup {t}) <= Cardinality(Threads)
  <1>1. IsFiniteSet(S)
    BY TeamAssumption, FS_Subset
  <1>2. IsFiniteSet(S \cup {t}) /\ Cardinality(S \cup {t}) = Cardinality(S) + 1
    BY <1>1, FS_AddElement
  <1>3. Cardinality(S \cup {t}) <= Cardinality(Threads)
    BY TeamAssumption, FS_Subset
  <1> QED
    BY <1>1, <1>2, <1>3, FS_CardinalityType

(* Parity: the two phases the cycle word tells apart.                      *)
LEMMA Parity ==
  ASSUME NEW n \in Nat
  PROVE  /\ n % 2 \in {0, 1}
         /\ (n + 1) % 2 = 1 - (n % 2)
  OBVIOUS

(* bomp_barrier_init establishes the invariant.                            *)
LEMMA InitIInv == Init => IInv
  <1> SUFFICES ASSUME Init PROVE IInv
    OBVIOUS
  <1>1. TypeOK /\ CallsInv /\ PhaseInv
    BY TeamSize DEF Init, BarrierInit, TypeOK, BarrierTypeOK, BarrierPC,
                    CallsInv, PhaseInv, Released
  <1>2. Counted = {} /\ Opening = {}
    BY DEF Init, BarrierInit, Counted, Opening
  <1>3. CounterInv
    BY <1>2, TeamSize, FS_EmptySet DEF Init, BarrierInit, CounterInv
  <1> QED
    BY <1>1, <1>3 DEF IInv

(* A thread enters bomp_barrier_wait and reads the cycle.                  *)
LEMMA EnterIInv ==
  ASSUME IInv, NEW t \in Threads, Enter(t)
  PROVE  IInv'
  <1> USE DEF IInv, Enter, ReadCycle, TypeOK, BarrierTypeOK, BarrierPC
  <1>1. TypeOK'
    OBVIOUS
  <1>2. CallsInv'
    BY DEF CallsInv
  <1>3. PhaseInv'
    BY DEF CallsInv, PhaseInv, Released
  <1>4. Counted' = Counted /\ Opening' = Opening
    BY DEF Counted, Opening
  <1>5. CounterInv'
    BY <1>4 DEF CounterInv, Opening
  <1> QED
    BY <1>1, <1>2, <1>3, <1>5

(* The fetch-and-add: an arrival that is not the last is counted, the last *)
(* one finds everybody else counted.                                       *)
LEMMA FetchAndAddIInv ==
  ASSUME IInv, NEW t \in Threads, FetchAndAdd(t),
         UNCHANGED <<arrived, passed, gen>>
  PROVE  IInv'
  <1> USE DEF IInv, FetchAndAdd, TypeOK, BarrierTypeOK, BarrierPC
  <1>1. TypeOK'
    OBVIOUS
  <1>2. CallsInv'
    BY DEF CallsInv
  <1>3. PhaseInv'
    BY DEF PhaseInv, Released
  <1>4. t \notin Counted /\ Counted \in SUBSET Threads
    BY DEF Counted
  <1>5. Opening = {}
    BY DEF CounterInv, Counted, Opening
  <1>6. passed[t] = gen
    BY DEF PhaseInv, Released
  <1>7. CASE counter = max - 1
    <2>1. Counted = Threads \ {t}
      BY <1>4, <1>5, <1>7, LastArrival, TeamSize DEF CounterInv
    <2>2. Opening' = {t} /\ Counted' = Threads \ {t}
      BY <1>5, <1>7, <2>1 DEF Opening, Counted
    <2>3. CounterInv'
      BY <1>7, <2>2 DEF CounterInv
    <2> QED
      BY <1>1, <1>2, <1>3, <2>3
  <1>8. CASE counter # max - 1
    <2>1. Opening' = {} /\ Counted' = Counted \cup {t}
      BY <1>5, <1>6, <1>8 DEF Opening, Counted
    <2>2. CounterInv'
      BY <1>4, <1>5, <1>8, <2>1, OneMore, TeamSize DEF CounterInv
    <2> QED
      BY <1>1, <1>2, <1>3, <2>2
  <1> QED
    BY <1>7, <1>8

(* The last arriver's store of 0 to counter, and its load of cycle.        *)
LEMMA OpeningIInv ==
  ASSUME IInv, NEW t \in Threads, ResetCounter(t) \/ LoadCycle(t),
         UNCHANGED <<arrived, passed, gen>>
  PROVE  IInv'
  <1> USE DEF IInv, ResetCounter, LoadCycle, TypeOK, BarrierTypeOK, BarrierPC
  <1>1. TypeOK'
    OBVIOUS
  <1>2. CallsInv'
    BY DEF CallsInv
  <1>3. PhaseInv'
    BY DEF PhaseInv, Released
  <1>4. Opening' = Opening /\ Counted' = Counted
    BY DEF Opening, Counted
  <1>5. Opening = {t}
    BY DEF CounterInv, Counted, Opening
  <1>6. CounterInv'
    BY <1>4, <1>5, TeamSize DEF CounterInv
  <1> QED
    BY <1>1, <1>2, <1>3, <1>6

(* The steps inside a wait that do not open the barrier                    *)
LEMMA InsideIInv ==
  ASSUME IInv, NEW t \in Threads, Inside(t)
  PROVE  IInv'
  BY FetchAndAddIInv, OpeningIInv DEF Inside, WaitStep

(* The store to cycle opens the barrier: every other thread is released.   *)
LEMMA OpenIInv ==
  ASSUME IInv, NEW t \in Threads, Open(t)
  PROVE  IInv'
  <1> USE DEF IInv, Open, StoreCycle, TypeOK, BarrierTypeOK, BarrierPC
  <1>1. Counted = Threads \ {t} /\ counter = 0
    BY DEF CounterInv, Opening
  <1>2. /\ passed[t] = gen
        /\ \A q \in Threads \ {t} : bpc[q] = "spin" /\ passed[q] = gen
    BY <1>1 DEF PhaseInv, Released, Counted
  <1>3. TypeOK'
    OBVIOUS
  <1>4. CallsInv'
    BY DEF CallsInv
  <1>5. cycle' = gen' % 2
    BY Parity DEF PhaseInv
  <1>6. PhaseInv'
    BY <1>2, <1>5 DEF PhaseInv, Released
  <1>7. Counted' = {} /\ Opening' = {}
    BY <1>2 DEF Counted, Opening
  <1>8. CounterInv'
    BY <1>1, <1>7, TeamSize, FS_EmptySet DEF CounterInv
  <1> QED
    BY <1>3, <1>4, <1>6, <1>8

(* Only a released thread sees another value in cycle.                     *)
LEMMA ReturnIInv ==
  ASSUME IInv, NEW t \in Threads, Return(t)
  PROVE  IInv'
  <1> USE DEF IInv, Return, SpinExit, TypeOK, BarrierTypeOK, BarrierPC
  <1>1. passed[t] + 1 = gen
    BY DEF PhaseInv, Released
  <1>2. TypeOK'
    OBVIOUS
  <1>3. CallsInv'
    BY DEF CallsInv
  <1>4. PhaseInv'
    BY <1>1 DEF PhaseInv, Released
  <1>5. Counted' = Counted /\ Opening' = Opening
    BY <1>1 DEF Counted, Opening
  <1>6. CounterInv'
    BY <1>5 DEF CounterInv, Opening
  <1> QED
    BY <1>2, <1>3, <1>4, <1>6

(* A step that changes nothing                                             *)
LEMMA StutterIInv ==
  ASSUME IInv, UNCHANGED vars
  PROVE  IInv'
  BY DEF IInv, vars, TypeOK, BarrierTypeOK, CallsInv, PhaseInv, Released,
         CounterInv, Counted, Opening

-----------------------------------------------------------------------------
(* IInv holds in every state of every execution of the team.               *)
THEOREM InductiveInvariant == Spec => []IInv
  <1>1. IInv /\ [Next]_vars => IInv'
    <2> SUFFICES ASSUME IInv, [Next]_vars PROVE IInv'
      OBVIOUS
    <2>1. ASSUME NEW t \in Threads, Step(t) PROVE IInv'
      BY <2>1, EnterIInv, InsideIInv, OpenIInv, ReturnIInv DEF Step
    <2>2. CASE Finished \/ UNCHANGED vars
      BY <2>2, StutterIInv DEF Finished
    <2> QED
      BY <2>1, <2>2 DEF Next
  <1> QED
    BY InitIInv, <1>1, PTL DEF Spec

(* Type correctness of the barrier and of the history variables.           *)
THEOREM TypeCorrect == Spec => []TypeOK
  <1>1. IInv => TypeOK
    BY DEF IInv
  <1> QED
    BY InductiveInvariant, <1>1, PTL

(* The r-th bomp_barrier_wait of a thread returns only after the r-th call *)
(* of every other thread, for every team size and number of waits.         *)
THEOREM NoThreadReturnsEarly == Spec => []NoEarlyReturn
  <1>1. IInv => NoEarlyReturn
    BY DEF IInv, TypeOK, CallsInv, PhaseInv, Released, NoEarlyReturn
  <1> QED
    BY InductiveInvariant, <1>1, PTL

(* The plain stores of the last arriver are never concurrent with another  *)
(* thread's update of the barrier.                                         *)
THEOREM OneLastArriver == Spec => []LastArriverAlone
  <1>1. IInv => LastArriverAlone
    BY DEF IInv, TypeOK, PhaseInv, CounterInv, Counted, LastArriverAlone
  <1> QED
    BY InductiveInvariant, <1>1, PTL

(* The steps of bomp_barrier_wait are steps of the abstract barrier: the   *)
(* read of cycle is the arrival, the toggle or the end of the spin is the  *)
(* departure, everything else is invisible.                                *)
THEOREM BarrierImplementation == Spec => ImplementsBarrier
  <1> USE DEF Abstract!bvars, Abstract!BNext, Abstract!Arrive, Abstract!Leave
  <1>1. Init => Abstract!BInit
    BY DEF Init, Abstract!BInit
  <1>2. IInv /\ [Next]_vars => [Abstract!BNext]_(Abstract!bvars)
    <2> SUFFICES ASSUME IInv, [Next]_vars
                 PROVE  [Abstract!BNext]_(Abstract!bvars)
      OBVIOUS
    <2> USE DEF IInv, TypeOK, CallsInv
    <2>1. ASSUME NEW t \in Threads, Enter(t)
          PROVE  Abstract!Arrive(t)
      BY <2>1 DEF Enter, ReadCycle
    <2>2. ASSUME NEW t \in Threads, Inside(t)
          PROVE  UNCHANGED Abstract!bvars
      BY <2>2 DEF Inside
    <2>3. ASSUME NEW t \in Threads, Open(t)
          PROVE  Abstract!Leave(t)
      <3>1. Counted = Threads \ {t} /\ passed[t] = gen
        BY <2>3 DEF Open, StoreCycle, CounterInv, Opening, PhaseInv, Released
      <3> QED
        BY <2>3, <3>1 DEF Open, StoreCycle, Counted
    <2>4. ASSUME NEW t \in Threads, Return(t)
          PROVE  Abstract!Leave(t)
      <3>1. passed[t] + 1 = gen
        BY <2>4 DEF Return, SpinExit, PhaseInv, Released
      <3> QED
        BY <2>4, <3>1 DEF Return, SpinExit, PhaseInv, Released
    <2>5. CASE Finished \/ UNCHANGED vars
      BY <2>5 DEF Finished, vars
    <2> QED
      BY <2>1, <2>2, <2>3, <2>4, <2>5 DEF Next, Step
  <1> QED
    BY <1>1, <1>2, InductiveInvariant, PTL DEF Spec, ImplementsBarrier, Abstract!BSpec
=============================================================================
