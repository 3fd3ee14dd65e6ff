----------------------------- MODULE PoolLifecycle -----------------------------
(***************************************************************************)
(* The thread pool from backend_init to backend_exit: one thread creates   *)
(* it and destroys it, tasks are added at any time in between, and the     *)
(* workers run them.  Shown to implement TaskQueue.                        *)
(***************************************************************************)
EXTENDS Threadpool

VARIABLES
  want,      \* num_threads, the argument of threadpool_create: cores - 1
  mpc,       \* where the creating thread is
  joined,    \* the loop index of threadpool_destroy
  status     \* history: what became of each task

vars == <<poolVars, want, mpc, joined, status>>

Init ==
  /\ PoolInit
  /\ want \in 0 .. Cardinality(Workers)
  /\ mpc = "create"
  /\ joined = 0
  /\ status = [t \in Tasks |-> "new"]

-----------------------------------------------------------------------------
(* threadpool_create                                                       *)
CreateNothing ==
  /\ mpc = "create"
  /\ want <= 0
  /\ mpc' = "ready"
  /\ UNCHANGED <<poolVars, want, joined, status>>

Create ==
  /\ mpc = "create"
  /\ want > 0
  /\ AllocatePool(want)
  /\ mpc' = "spawn"
  /\ UNCHANGED <<want, joined, status>>

(* The loop over pthread_create; a failure destroys what there is.         *)
Spawn(w) ==
  /\ mpc = "spawn"
  /\ thread_count < want
  /\ StartWorker(w, thread_count + 1)
  /\ UNCHANGED <<want, mpc, joined, status>>

SpawnFails ==
  /\ mpc = "spawn"
  /\ thread_count < want
  /\ mpc' = "destroy"
  /\ UNCHANGED <<poolVars, want, joined, status>>

Created ==
  /\ mpc = "spawn"
  /\ thread_count = want
  /\ mpc' = "ready"
  /\ UNCHANGED <<poolVars, want, joined, status>>

(* threadpool_add by any thread that still runs once there is a pool       *)
AddTask(t) ==
  /\ mpc \in {"ready", "join"}
  /\ status[t] = "new"
  /\ Add(t)
  /\ status' = [status EXCEPT ![t] = IF AddResult = "ok" THEN "queued" ELSE "refused"]
  /\ UNCHANGED <<want, mpc, joined>>

-----------------------------------------------------------------------------
(* The workers                                                             *)
Wait(w) ==
  /\ Sleep(w) \/ Exit(w)
  /\ UNCHANGED <<want, mpc, joined, status>>

Wake(w) ==
  /\ SpuriousWakeup(w)
  /\ UNCHANGED <<want, mpc, joined, status>>

Take(w) ==
  /\ TakeTask(w)
  /\ status' = [status EXCEPT ![queue[head]] = "running"]
  /\ UNCHANGED <<want, mpc, joined>>

Finish(w) ==
  /\ FinishTask(w)
  /\ status' = [status EXCEPT ![wtask[w]] = "done"]
  /\ UNCHANGED <<want, mpc, joined>>

-----------------------------------------------------------------------------
(* backend_exit: threadpool_destroy                                        *)
Quit ==
  /\ mpc = "ready"
  /\ mpc' = "destroy"
  /\ UNCHANGED <<poolVars, want, joined, status>>

DestroyNull ==
  /\ mpc = "destroy"
  /\ pool = "null"
  /\ mpc' = "done"
  /\ UNCHANGED <<poolVars, want, joined, status>>

Destroy ==
  /\ mpc = "destroy"
  /\ BeginShutdown
  /\ mpc' = "join"
  /\ UNCHANGED <<want, joined, status>>

Join ==
  /\ mpc = "join"
  /\ joined < thread_count
  /\ CanJoin(joined)
  /\ joined' = joined + 1
  /\ UNCHANGED <<poolVars, want, mpc, status>>

Free ==
  /\ mpc = "join"
  /\ joined = thread_count
  /\ FreePool
  /\ mpc' = "done"
  /\ UNCHANGED <<want, joined, status>>

Terminated == mpc = "done" /\ UNCHANGED vars

Main == CreateNothing \/ Create \/ (\E w \in Workers : Spawn(w)) \/ SpawnFails
        \/ Created \/ Quit \/ DestroyNull \/ Destroy \/ Join \/ Free

WorkerStep(w) == Wait(w) \/ Take(w) \/ Finish(w)

Next ==
  \/ Main
  \/ \E w \in Workers : WorkerStep(w) \/ Wake(w)
  \/ \E t \in Tasks : AddTask(t)
  \/ Terminated

Spec == Init /\ [][Next]_vars

(* The scheduler runs every thread: a worker that can take pool->lock, or  *)
(* whose task can return, eventually does, and a destroy that was started  *)
(* goes on.  Spurious wakeups, failures of pthread_create, the adds and    *)
(* the program's exit are left to chance.                                  *)
Fairness ==
  /\ \A w \in Workers : WF_vars(WorkerStep(w))
  /\ WF_vars(Create \/ (\E w \in Workers : Spawn(w)) \/ Created)
  /\ WF_vars(Destroy \/ Join \/ Free)

FairSpec == Spec /\ Fairness

-----------------------------------------------------------------------------
(* The pool's fields have their types: head, tail and count stay within    *)
(* the ring threadpool_create allocated, whatever is added and taken.      *)
TypeOK ==
  /\ PoolTypeOK
  /\ want \in 0 .. Cardinality(Workers)
  /\ mpc \in {"create", "spawn", "ready", "destroy", "join", "done"}
  /\ joined \in 0 .. Cardinality(Workers)
  /\ status \in [Tasks -> {"new", "queued", "running", "done", "refused"}]

(* The ring of popcorn_threadpool.c, read from head to tail, is a bounded  *)
(* first-in first-out queue: no interleaving of adds, takes and shutdown   *)
(* loses, repeats or reorders a task.                                      *)
Contents == [i \in 1 .. count |-> queue[Slot(head, i)]]

Abstract == INSTANCE TaskQueue
              WITH Capacity <- QueueSize, pending <- Contents, closed <- shutdown,
                   handed <- {t \in Tasks : status[t] \in {"running", "done"}}

ImplementsQueue == Abstract!QSpec

(* No lost wakeup: nobody is asleep in pthread_cond_wait while there is    *)
(* work in the ring or the pool is shutting down.                          *)
NoSleeperMissesWork ==
  \A w \in Workers : wpc[w] = "sleep" => count = 0 /\ ~shutdown

(* When threadpool_destroy has freed the pool no worker can touch it any   *)
(* more, and every task that threadpool_add accepted has been run.         *)
FreedMeansQuiet ==
  pool = "freed" =>
    /\ \A w \in Workers : wpc[w] \in {"unborn", "exited"}
    /\ \A t \in Tasks : status[t] \notin {"queued", "running"}

(* A task that threadpool_add accepted is eventually run to its end, also  *)
(* when the pool is shut down meanwhile.                                   *)
AcceptedTasksRun == \A t \in Tasks : status[t] = "queued" ~> status[t] = "done"

(* threadpool_destroy comes back, having freed the pool.                   *)
DestroyReturns == mpc = "join" ~> mpc = "done" /\ pool = "freed"
-----------------------------------------------------------------------------
(* The inductive invariant.                                                *)

(* The ring from head to tail holds the accepted tasks nobody has taken,   *)
(* each once.                                                              *)
RingInv ==
  /\ RingShape
  /\ \A i \in 1 .. count :
       queue[Slot(head, i)] \in Tasks /\ status[queue[Slot(head, i)]] = "queued"
  /\ \A i, j \in 1 .. count : queue[Slot(head, i)] = queue[Slot(head, j)] => i = j
  /\ \A t \in Tasks :
       status[t] = "queued" => \E i \in 1 .. count : queue[Slot(head, i)] = t

(* A busy worker runs a task of its own, and only workers run tasks.       *)
WorkInv ==
  /\ \A w \in Workers : wpc[w] = "busy" <=> wtask[w] # None
  /\ \A w \in Workers : wtask[w] # None => status[wtask[w]] = "running"
  /\ \A v, w \in Workers : wtask[v] = wtask[w] /\ wtask[v] # None => v = w
  /\ \A t \in Tasks :
       status[t] = "running" => \E w \in Workers : wtask[w] = t

(* The workers pool->started counts.                                       *)
Registered == {w \in Workers : wpc[w] \notin {"unborn", "exited"}}

(* threads holds the handle of every thread there is until it is joined,   *)
(* and started counts the ones that have not left.                         *)
StaffInv ==
  /\ started = Cardinality(Registered)
  /\ pool # "null" => threads \in [1 .. want -> Workers \cup {None}]
  /\ mpc # "done" =>
       /\ joined <= thread_count /\ thread_count <= want
       /\ \A i \in 1 .. thread_count :
            threads[i] \in Workers /\ wpc[threads[i]] # "unborn"
       /\ \A w \in Workers :
            wpc[w] # "unborn" => \E i \in 1 .. thread_count : threads[i] = w
       /\ \A i \in 1 .. joined : wpc[threads[i]] = "exited"

(* Where the creating thread is tells what pool and shutdown are.  A       *)
(* worker leaves an empty pool that takes no work any more.                *)
LifeInv ==
  /\ pool = "null" => thread_count = 0 /\ mpc \notin {"spawn", "join"}
  /\ mpc = "create" => pool = "null"
  /\ pool = "freed" => mpc = "done"
  /\ mpc = "done" => pool # "live"
  /\ shutdown <=> mpc = "join" \/ pool = "freed"
  /\ pool = "live" => want > 0
  /\ mpc = "ready" /\ pool = "live" => thread_count = want
  /\ mpc # "done" /\ thread_count = 0 => count = 0
  /\ \A w \in Workers : wpc[w] = "exited" => shutdown /\ count = 0

(* All of it together: ring, workers, handles and the creating thread      *)
(* agree at every step of popcorn_threadpool.c.                            *)
IInv ==
  /\ TypeOK /\ RingInv /\ WorkInv /\ StaffInv /\ LifeInv
  /\ NoSleeperMissesWork /\ FreedMeansQuiet
=============================================================================
