-------------------------------- MODULE KmpTeam --------------------------------
(***************************************************************************)
(* A team of threads inside one parallel region (lib/libbomp/kmp.c): each  *)
(* asks for its copy of a threadprivate variable, takes its share of a     *)
(* statically scheduled loop, reduces its partial result into a shared     *)
(* variable, crosses the barrier of __kmpc_end_reduce and asks for its     *)
(* threadprivate copy again.                                               *)
(*                                                                         *)
(* All critical sections, those of reductions and of the threadprivate     *)
(* cache included, share critical_lock, a spin lock taken in two accesses. *)
(* The barrier is the abstract one that spin.h's barrier implements        *)
(* (BompBarrier).                                                          *)
(***************************************************************************)
EXTENDS StaticSchedule, BarrierSpec, FiniteSets, Sequences

CONSTANT Loops    \* the loops the region may run

ASSUME ThreadsAssumption ==
  IsFiniteSet(Threads) /\ Threads # {} /\ Threads = 0 .. Cardinality(Threads) - 1

ASSUME LoopsAssumption == \A l \in Loops : IsLoop(l)

VARIABLES
  loop,            \* the work-sharing loop of the region
  critical_lock,
  cache,           \* *cache: 0 for NULL, else the number of the allocation
  caches,          \* caches[c][t]: entry t of the c-th array allocated, 0 for NULL
  copies,          \* the number of copies allocated so far
  total,           \* the shared variable of the reduction: how often the
                   \* contribution of each iteration of the loop is in it
  pc,
  after,           \* after[t]: where t goes once it has the lock
  share,           \* what __kmpc_for_static_init gave t
  value,           \* t's register: what it read of total
  private          \* the copies t was given, first and second

lockVars == <<critical_lock, after>>
cacheVars == <<cache, caches, copies, private>>
loopVars == <<loop, share, total, value>>
vars == <<lockVars, cacheVars, loopVars, pc, bvars>>

nthreads == Cardinality(Threads)
NoShare == [lower |-> 0, upper |-> 0, stride |-> 0, last |-> FALSE]

Goto(t, where) == pc' = [pc EXCEPT ![t] = where]

Init ==
  /\ BInit
  /\ loop \in {l \in Loops : NoOverflow(nthreads, l)}
  /\ critical_lock = 0
  /\ cache = 0 /\ caches = << >> /\ copies = 0
  /\ total = [iv \in Iterations(loop) |-> 0]
  /\ pc = [t \in Threads |-> "cached"]
  /\ after = [t \in Threads |-> "none"]
  /\ share = [t \in Threads |-> NoShare]
  /\ value = [t \in Threads |-> total]
  /\ private = [t \in Threads |-> << >>]

-----------------------------------------------------------------------------
(* bomp_lock: the test, repeated while the lock is taken, and the atomic   *)
(* test-and-set that starts over if another thread came first              *)
WantLock(t, next) ==
  /\ after' = [after EXCEPT ![t] = next]
  /\ Goto(t, "test")

LockTest(t) ==
  /\ pc[t] = "test"
  /\ critical_lock = 0
  /\ Goto(t, "set")
  /\ UNCHANGED <<lockVars, cacheVars, loopVars, bvars>>

(* Mutant: the test is trusted.                                            *)
LockSetBlindly(t) ==
  /\ pc[t] = "set"
  /\ critical_lock' = 1
  /\ Goto(t, after[t])
  /\ UNCHANGED <<after, cacheVars, loopVars, bvars>>

LockSet(t) ==
  /\ pc[t] = "set"
  /\ critical_lock' = 1
  /\ Goto(t, IF critical_lock = 0 THEN after[t] ELSE "test")
  /\ UNCHANGED <<after, cacheVars, loopVars, bvars>>

(* Mutant: the lock is not released.                                       *)
UnlockForgotten(t, next) ==
  /\ Goto(t, next)
  /\ UNCHANGED critical_lock

bomp_unlock(t, next) ==
  /\ critical_lock' = 0
  /\ Goto(t, next)

-----------------------------------------------------------------------------
(* __kmpc_threadprivate_cached: *cache is read without the lock            *)
TestCache(t) ==
  /\ pc[t] = "cached"
  /\ IF cache = 0 THEN WantLock(t, "recheck")
                  ELSE Goto(t, "slot") /\ UNCHANGED after
  /\ UNCHANGED <<critical_lock, cacheVars, loopVars, bvars>>

(* Mutant: the cache is not tested again under the lock.                   *)
AllocateCacheAgain(t) ==
  /\ pc[t] = "recheck"
  /\ caches' = Append(caches, [q \in Threads |-> 0])
  /\ cache' = Len(caches')
  /\ Goto(t, "cacheunlock")
  /\ UNCHANGED <<lockVars, copies, private, loopVars, bvars>>

(* ... and again with it                                                   *)
AllocateCache(t) ==
  /\ pc[t] = "recheck"
  /\ IF cache = 0
       THEN caches' = Append(caches, [q \in Threads |-> 0]) /\ cache' = Len(caches')
       ELSE UNCHANGED <<cache, caches>>
  /\ Goto(t, "cacheunlock")
  /\ UNCHANGED <<lockVars, copies, private, loopVars, bvars>>

CacheUnlock(t) ==
  /\ pc[t] = "cacheunlock"
  /\ bomp_unlock(t, "slot")
  /\ UNCHANGED <<after, cacheVars, loopVars, bvars>>

(* The call returns p: to the loop the first time.                         *)
ReturnPrivate(t, p) ==
  /\ private' = [private EXCEPT ![t] = Append(@, p)]
  /\ Goto(t, IF private[t] = << >> THEN "loop" ELSE "done")

ReadSlot(t) ==
  /\ pc[t] = "slot"
  /\ IF caches[cache][t] # 0
       THEN ReturnPrivate(t, caches[cache][t])
       ELSE Goto(t, "store") /\ UNCHANGED private
  /\ UNCHANGED <<lockVars, cache, caches, copies, loopVars, bvars>>

(* malloc and memcpy, and the store, which reads *cache once more          *)
StoreSlot(t) ==
  /\ pc[t] = "store"
  /\ copies' = copies + 1
  /\ caches' = [caches EXCEPT ![cache][t] = copies + 1]
  /\ ReturnPrivate(t, copies + 1)
  /\ UNCHANGED <<lockVars, cache, loopVars, bvars>>

-----------------------------------------------------------------------------
(* __kmpc_for_static_init, and the thread's share of the loop              *)
StaticInit(t) ==
  /\ pc[t] = "loop"
  /\ share' = [share EXCEPT ![t] = for_static_init(t, nthreads, loop)]
  /\ Goto(t, "reduce")
  /\ UNCHANGED <<lockVars, cacheVars, loop, total, value, bvars>>

(* An amount, with what t's own iterations contribute                      *)
Combined(t, amount) ==
  [iv \in Iterations(loop) |-> IF iv \in Share(loop, share[t]) THEN amount[iv] + 1 ELSE amount[iv]]

(* __kmpc_reduce enters the critical section ...                           *)
Reduce(t) ==
  /\ pc[t] = "reduce"
  /\ WantLock(t, "combine")
  /\ UNCHANGED <<critical_lock, cacheVars, loopVars, bvars>>

(* ... in which the compiler's code (external) reads the shared variable   *)
(* and writes it back combined with the thread's own                       *)
ReadTotal(t) ==
  /\ pc[t] = "combine"
  /\ value' = [value EXCEPT ![t] = total]
  /\ Goto(t, "write")
  /\ UNCHANGED <<lockVars, cacheVars, loop, share, total, bvars>>

WriteTotal(t) ==
  /\ pc[t] = "write"
  /\ total' = Combined(t, value[t])
  /\ Goto(t, "endreduce")
  /\ UNCHANGED <<lockVars, cacheVars, loop, share, value, bvars>>

(* __kmpc_end_reduce: the unlock, and GOMP_barrier                         *)
EndReduce(t) ==
  /\ pc[t] = "endreduce"
  /\ bomp_unlock(t, "barrier")
  /\ UNCHANGED <<after, cacheVars, loopVars, bvars>>

EnterBarrier(t) ==
  /\ pc[t] = "barrier"
  /\ Arrive(t)
  /\ Goto(t, "wait")
  /\ UNCHANGED <<lockVars, cacheVars, loopVars>>

LeaveBarrier(t) ==
  /\ pc[t] = "wait"
  /\ Leave(t)
  /\ Goto(t, "cached")
  /\ UNCHANGED <<lockVars, cacheVars, loopVars>>

-----------------------------------------------------------------------------
Step(t) ==
  \/ LockTest(t) \/ LockSet(t)
  \/ TestCache(t) \/ AllocateCache(t) \/ CacheUnlock(t) \/ ReadSlot(t) \/ StoreSlot(t)
  \/ StaticInit(t) \/ Reduce(t) \/ ReadTotal(t) \/ WriteTotal(t) \/ EndReduce(t)
  \/ EnterBarrier(t) \/ LeaveBarrier(t)

Finished == \A t \in Threads : pc[t] = "done"

Next == (\E t \in Threads : Step(t)) \/ (Finished /\ UNCHANGED vars)

Spec == Init /\ [][Next]_vars

(* The operating system runs every thread.                                 *)
FairSpec == Spec /\ \A t \in Threads : WF_vars(Step(t))

-----------------------------------------------------------------------------
LoopDone(t) == private[t] # << >> /\ pc[t] # "loop"

PastBarrier(t) == private[t] # << >> /\ pc[t] \in {"cached", "slot", "done"}

(* No iteration of a work-shared loop is run by two threads of the team,   *)
(* and when all have been given their shares none is left out: what        *)
(* __kmpc_for_static_init returns, cut at the loop's bound by the caller,  *)
(* partitions the loop for both schedules and any increment.               *)
IterationsPartitioned ==
  /\ \A t, q \in Threads :
       LoopDone(t) /\ LoopDone(q) /\ t # q =>
         Share(loop, share[t]) \cap Share(loop, share[q]) = {}
  /\ (\A t \in Threads : LoopDone(t)) =>
       UNION {Share(loop, share[t]) : t \in Threads} = Iterations(loop)

(* *plastiter is set for exactly the thread that runs the sequentially     *)
(* last iteration, the one whose lastprivate values survive.               *)
LastFlag ==
  \A t \in Threads : LoopDone(t) =>
    (share[t].last <=> LastIteration(loop) \in Share(loop, share[t]))

(* A thread past the barrier of __kmpc_end_reduce finds the contribution   *)
(* of every iteration in the shared variable once: none is lost between a  *)
(* read and a write of it, none is added twice, and none comes later.      *)
ReductionComplete ==
  \A t \in Threads :
    PastBarrier(t) => total = [iv \in Iterations(loop) |-> 1]

(* A thread keeps its copy of a threadprivate variable for as long as the  *)
(* program runs, however the first uses of the variable interleave: every  *)
(* call of __kmpc_threadprivate_cached returns what the first one did, and *)
(* no two threads are given the same copy.                                 *)
PrivateKept ==
  \A t, q \in Threads :
    \A i \in DOMAIN private[t], j \in DOMAIN private[q] :
      private[t][i] = private[q][j] <=> t = q

(* Every thread of the team gets through its critical sections, spinning   *)
(* on a lock that guarantees no order, and through the barrier.            *)
TeamFinishes == <>Finished
=============================================================================
