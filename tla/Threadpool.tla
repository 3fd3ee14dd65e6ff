------------------------------ MODULE Threadpool ------------------------------
(***************************************************************************)
(* The thread pool of libbomp (lib/libbomp/popcorn_threadpool.c): the task *)
(* ring, the workers that sleep on its condition variable, creation,       *)
(* graceful shutdown and deallocation.  pool->lock protects the ring, so   *)
(* one action is one critical section; joins and thread creation happen    *)
(* outside it and are actions of their own.                                *)
(***************************************************************************)
EXTENDS Integers, Sequences, FiniteSets

CONSTANTS
  Workers,      \* the threads pthread_create can start
  QueueSize,    \* queue_size, 1024 in backend_init
  Tasks,        \* the work items handed to threadpool_add
  None          \* no task, no handle

ASSUME QueueSizeAssumption == QueueSize \in Nat \ {0}
ASSUME WorkersAssumption == IsFiniteSet(Workers) /\ None \notin Workers
ASSUME TasksAssumption == IsFiniteSet(Tasks) /\ None \notin Tasks

VARIABLES
  pool,          \* the pool pointer: "null", "live" or "freed"
  queue, head, tail, count,           \* the ring
  shutdown, started, thread_count,    \* counters of struct threadpool_t
  threads,       \* pool->threads: a handle, or None, per allocated entry
  wpc,           \* where a worker is in threadpool_run
  wtask          \* the task a worker took

ring == <<queue, head, tail, count>>
poolVars == <<pool, queue, head, tail, count, shutdown, started, thread_count,
              threads, wpc, wtask>>

(* unborn: never created; lock: about to take pool->lock; sleep: in        *)
(* pthread_cond_wait; busy: running a task; exited                         *)
WorkerPC == {"unborn", "lock", "sleep", "busy", "exited"}

PoolTypeOK ==
  /\ pool \in {"null", "live", "freed"}
  /\ queue \in [0 .. QueueSize - 1 -> Tasks \cup {None}]
  /\ head \in 0 .. QueueSize - 1
  /\ tail \in 0 .. QueueSize - 1
  /\ count \in 0 .. QueueSize
  /\ shutdown \in BOOLEAN
  /\ started \in Nat
  /\ thread_count \in Nat
  /\ threads \in Seq(Workers \cup {None})
  /\ wpc \in [Workers -> WorkerPC]
  /\ wtask \in [Workers -> Tasks \cup {None}]

PoolInit ==
  /\ pool = "null"
  /\ queue = [i \in 0 .. QueueSize - 1 |-> None]
  /\ head = 0 /\ tail = 0 /\ count = 0
  /\ shutdown = FALSE /\ started = 0 /\ thread_count = 0
  /\ threads = << >>
  /\ wpc = [w \in Workers |-> "unborn"]
  /\ wtask = [w \in Workers |-> None]

(* The index of the i-th oldest task in a ring whose head is h.            *)
Slot(h, i) == (h + i - 1) % QueueSize

RingShape == tail = (head + count) % QueueSize

-----------------------------------------------------------------------------
(* threadpool_create: the allocation and initialization of the pool.  The  *)
(* caller has checked num_threads > 0 and starts the workers next.         *)
AllocatePool(num_threads) ==
  /\ pool = "null"
  /\ pool' = "live"
  /\ threads' = [i \in 1 .. num_threads |-> None]
  /\ UNCHANGED <<ring, shutdown, started, thread_count, wpc, wtask>>

(* One successful pthread_create: the new thread's handle goes into entry  *)
(* slot of pool->threads, and the counters go up.                          *)
StartWorker(w, slot) ==
  /\ wpc[w] = "unborn"
  /\ threads' = [threads EXCEPT ![slot] = w]
  /\ wpc' = [wpc EXCEPT ![w] = "lock"]
  /\ thread_count' = thread_count + 1
  /\ started' = started + 1
  /\ UNCHANGED <<pool, ring, shutdown, wtask>>

(* pthread_cond_broadcast(&pool->notify)                                   *)
WakeAll == [w \in Workers |-> IF wpc[w] = "sleep" THEN "lock" ELSE wpc[w]]

(* Mutant: a pool that is shutting down still accepts work.                *)
AddResultWhenShutdown ==
  CASE pool = "null"      -> "invalid"
    [] count = QueueSize  -> "queue_full"
    [] OTHER              -> "ok"

(* Mutant: the tail index does not wrap.                                   *)
EnqueueNoWrap(task) ==
  /\ queue' = [queue EXCEPT ![tail] = task]
  /\ tail' = tail + 1
  /\ count' = count + 1
  /\ wpc' = WakeAll
  /\ UNCHANGED <<pool, head, shutdown, started, thread_count, threads, wtask>>

(* Mutant: nobody is told of the new task.                                 *)
EnqueueSilently(task) ==
  /\ queue' = [queue EXCEPT ![tail] = task]
  /\ tail' = (tail + 1) % QueueSize
  /\ count' = count + 1
  /\ UNCHANGED <<pool, head, shutdown, started, thread_count, threads, wpc, wtask>>

(* threadpool_add, with the result it returns                              *)
AddResult ==
  CASE pool = "null"      -> "invalid"
    [] count = QueueSize  -> "queue_full"
    [] shutdown           -> "shutdown"
    [] OTHER              -> "ok"

Enqueue(task) ==
  /\ queue' = [queue EXCEPT ![tail] = task]
  /\ tail' = (tail + 1) % QueueSize
  /\ count' = count + 1
  /\ wpc' = WakeAll
  /\ UNCHANGED <<pool, head, shutdown, started, thread_count, threads, wtask>>

Add(task) ==
  /\ pool # "freed"
  /\ IF AddResult = "ok" THEN Enqueue(task) ELSE UNCHANGED poolVars

-----------------------------------------------------------------------------
(* threadpool_run                                                          *)

(* while (count == 0 && !shutdown) pthread_cond_wait(...)                  *)
Sleep(w) ==
  /\ wpc[w] = "lock"
  /\ count = 0 /\ ~shutdown
  /\ wpc' = [wpc EXCEPT ![w] = "sleep"]
  /\ UNCHANGED <<pool, ring, shutdown, started, thread_count, threads, wtask>>

(* POSIX allows pthread_cond_wait to return without a broadcast.           *)
SpuriousWakeup(w) ==
  /\ wpc[w] = "sleep"
  /\ wpc' = [wpc EXCEPT ![w] = "lock"]
  /\ UNCHANGED <<pool, ring, shutdown, started, thread_count, threads, wtask>>

(* Mutant: the shutdown does not wait for the ring to drain.               *)
ExitImmediately(w) ==
  /\ wpc[w] = "lock"
  /\ shutdown
  /\ wpc' = [wpc EXCEPT ![w] = "exited"]
  /\ started' = started - 1
  /\ UNCHANGED <<pool, ring, shutdown, thread_count, threads, wtask>>

(* if (shutdown == graceful_shutdown && count == 0) break; and the exit    *)
(* path, still under the lock                                              *)
Exit(w) ==
  /\ wpc[w] = "lock"
  /\ shutdown /\ count = 0
  /\ wpc' = [wpc EXCEPT ![w] = "exited"]
  /\ started' = started - 1
  /\ UNCHANGED <<pool, ring, shutdown, thread_count, threads, wtask>>

(* The loop's test passed and the task at head is taken.                   *)
TakeTask(w) ==
  /\ wpc[w] = "lock"
  /\ count # 0
  /\ wtask' = [wtask EXCEPT ![w] = queue[head]]
  /\ head' = (head + 1) % QueueSize
  /\ count' = count - 1
  /\ wpc' = [wpc EXCEPT ![w] = "busy"]
  /\ UNCHANGED <<pool, queue, tail, shutdown, started, thread_count, threads>>

(* The call of task.fn on task.args has returned.                          *)
FinishTask(w) ==
  /\ wpc[w] = "busy"
  /\ wpc' = [wpc EXCEPT ![w] = "lock"]
  /\ wtask' = [wtask EXCEPT ![w] = None]
  /\ UNCHANGED <<pool, ring, shutdown, started, thread_count, threads>>

-----------------------------------------------------------------------------
(* Mutant: the sleeping workers are not told of the shutdown.              *)
BeginShutdownSilently ==
  /\ pool = "live" /\ ~shutdown
  /\ shutdown' = TRUE
  /\ UNCHANGED <<pool, ring, started, thread_count, threads, wpc, wtask>>

(* threadpool_destroy on a live pool that is not shutting down: announce   *)
(* the shutdown and wake everybody.                                        *)
BeginShutdown ==
  /\ pool = "live" /\ ~shutdown
  /\ shutdown' = TRUE
  /\ wpc' = WakeAll
  /\ UNCHANGED <<pool, ring, started, thread_count, threads, wtask>>

(* pthread_join(pool->threads[i], NULL) returns                            *)
CanJoin(i) ==
  /\ i + 1 \in DOMAIN threads
  /\ threads[i + 1] # None
  /\ wpc[threads[i + 1]] = "exited"

(* pool->thread_count = 0 and threadpool_free, which gives up when a       *)
(* worker is still registered                                              *)
FreePool ==
  /\ thread_count' = 0
  /\ pool' = IF started > 0 THEN pool ELSE "freed"
  /\ UNCHANGED <<ring, shutdown, started, threads, wpc, wtask>>
=============================================================================
