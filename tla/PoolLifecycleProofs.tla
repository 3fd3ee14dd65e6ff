-------------------------- MODULE PoolLifecycleProofs --------------------------
(***************************************************************************)
(* The thread pool of popcorn_threadpool.c is correct for any number of    *)
(* workers, any ring size and any set of tasks: the invariant IInv of      *)
(* PoolLifecycle is inductive, nobody sleeps through work, a freed pool is *)
(* quiet, and the ring implements the bounded queue of TaskQueue.          *)
(***************************************************************************)
EXTENDS PoolLifecycle, ThreadpoolProofs, SequenceTheorems

-----------------------------------------------------------------------------
(* IInv is inductive: one lemma per action.                                *)

(* There is no pool yet.                                                   *)
LEMMA InitIInv == Init => IInv
  <1> SUFFICES ASSUME Init PROVE IInv
    OBVIOUS
  <1> USE DEF Init, PoolInit
  <1>1. TypeOK
    <2>1. threads \in Seq(Workers \cup {None})
      OBVIOUS
    <2>2. 0 \in 0 .. QueueSize - 1 /\ 0 \in 0 .. QueueSize
      BY QueueSizeAssumption
    <2>3. wpc \in [Workers -> WorkerPC] /\ wtask \in [Workers -> Tasks \cup {None}]
      BY DEF WorkerPC
    <2>4. queue \in [0 .. QueueSize - 1 -> Tasks \cup {None}]
      OBVIOUS
    <2>5. PoolTypeOK
      BY <2>1, <2>2, <2>3, <2>4 DEF PoolTypeOK
    <2> QED
      BY <2>5, WorkerCount DEF TypeOK
  <1>2. RingInv
    BY QueueSizeAssumption DEF RingInv, RingShape
  <1>3. WorkInv
    BY TasksAssumption DEF WorkInv
  <1>4. Registered = {}
    BY DEF Registered
  <1>5. StaffInv
    BY <1>4, FS_EmptySet, WorkerCount DEF StaffInv
  <1>6. LifeInv /\ NoSleeperMissesWork /\ FreedMeansQuiet
    BY DEF LifeInv, NoSleeperMissesWork, FreedMeansQuiet
  <1> QED
    BY <1>1, <1>2, <1>3, <1>5, <1>6 DEF IInv

(* The steps of the creating thread that only move it on.                  *)
LEMMA MoveOnIInv ==
  ASSUME IInv, CreateNothing \/ SpawnFails \/ Created \/ Quit \/ DestroyNull
  PROVE  IInv'
  <1> USE DEF IInv, CreateNothing, SpawnFails, Created, Quit, DestroyNull,
              poolVars
  <1>1. TypeOK'
    BY DEF TypeOK, PoolTypeOK
  <1>2. RingInv'
    BY DEF RingInv, RingShape, Slot
  <1>3. WorkInv'
    BY DEF WorkInv
  <1>4. Registered' = Registered
    BY DEF Registered
  <1>5. StaffInv'
    BY <1>4 DEF StaffInv
  <1>6. LifeInv'
    BY WorkerCount DEF LifeInv, StaffInv, TypeOK, PoolTypeOK
  <1>7. NoSleeperMissesWork' /\ FreedMeansQuiet'
    BY DEF NoSleeperMissesWork, FreedMeansQuiet
  <1> QED
    BY <1>1, <1>2, <1>3, <1>5, <1>6, <1>7

(* threadpool_create allocates the pool, ...                               *)
LEMMA CreateIInv ==
  ASSUME IInv, Create
  PROVE  IInv'
  <1> USE DEF IInv, Create, AllocatePool, ring
  <1>1. threads' \in [1 .. want -> Workers \cup {None}] /\ want \in Nat
    BY WorkerCount DEF TypeOK
  <1>2. TypeOK'
    BY <1>1, HandleTable DEF TypeOK, PoolTypeOK
  <1>3. RingInv'
    BY DEF RingInv, RingShape, Slot
  <1>4. WorkInv'
    BY DEF WorkInv
  <1>5. Registered' = Registered
    BY DEF Registered
  <1>6. StaffInv'
    BY <1>1, <1>5 DEF StaffInv, LifeInv, TypeOK, PoolTypeOK
  <1>7. LifeInv'
    BY DEF LifeInv
  <1>8. NoSleeperMissesWork' /\ FreedMeansQuiet'
    BY DEF NoSleeperMissesWork, FreedMeansQuiet
  <1> QED
    BY <1>2, <1>3, <1>4, <1>6, <1>7, <1>8

(* ... and starts the workers.                                             *)
LEMMA SpawnIInv ==
  ASSUME IInv, NEW w \in Workers, Spawn(w)
  PROVE  IInv'
  <1> USE DEF IInv, Spawn, StartWorker, ring
  <1>1. pool = "live" /\ ~shutdown /\ want \in Nat /\ thread_count \in Nat
    BY WorkerCount DEF LifeInv, TypeOK, PoolTypeOK
  <1>2. /\ threads \in [1 .. want -> Workers \cup {None}]
        /\ threads' \in [1 .. want -> Workers \cup {None}]
        /\ threads'[thread_count + 1] = w
        /\ \A i \in 1 .. thread_count : threads'[i] = threads[i]
    BY <1>1 DEF StaffInv
  <1>3. TypeOK'
    BY <1>1, <1>2, HandleTable DEF TypeOK, PoolTypeOK, WorkerPC
  <1>4. RingInv'
    BY DEF RingInv, RingShape, Slot
  <1>5. WorkInv'
    BY DEF WorkInv, TypeOK, PoolTypeOK
  <1>6. started' = Cardinality(Registered')
    <2>1. Registered \in SUBSET Workers /\ w \notin Registered
      BY DEF Registered
    <2>2. Registered' = Registered \cup {w}
      BY DEF Registered, TypeOK, PoolTypeOK
    <2> QED
      BY <2>1, <2>2, CountWorker DEF StaffInv
  <1>7. StaffInv'
    <2>1. joined' <= thread_count' /\ thread_count' <= want'
      BY <1>1 DEF StaffInv, TypeOK
    <2>2. \A i \in 1 .. thread_count' :
            threads'[i] \in Workers /\ wpc'[threads'[i]] # "unborn"
      BY <1>1, <1>2 DEF StaffInv, TypeOK, PoolTypeOK
    <2>3. ASSUME NEW v \in Workers, wpc'[v] # "unborn"
          PROVE  \E i \in 1 .. thread_count' : threads'[i] = v
      <3>1. CASE v = w
        BY <3>1, <1>1, <1>2
      <3>2. CASE v # w
        <4>1. PICK i \in 1 .. thread_count : threads[i] = v
          BY <2>3, <3>2 DEF StaffInv, TypeOK, PoolTypeOK
        <4> QED
          BY <4>1, <1>1, <1>2
      <3> QED
        BY <3>1, <3>2
    <2>4. \A i \in 1 .. joined' : wpc'[threads'[i]] = "exited"
      BY <1>1, <1>2 DEF StaffInv, TypeOK, PoolTypeOK
    <2> QED
      BY <1>2, <1>6, <2>1, <2>2, <2>3, <2>4 DEF StaffInv
  <1>8. LifeInv'
    BY <1>1 DEF LifeInv, TypeOK, PoolTypeOK
  <1>9. NoSleeperMissesWork' /\ FreedMeansQuiet'
    BY <1>1 DEF NoSleeperMissesWork, FreedMeansQuiet, TypeOK, PoolTypeOK
  <1> QED
    BY <1>3, <1>4, <1>5, <1>7, <1>8, <1>9

(* A refused task changes nothing but its own fate.                        *)
LEMMA RefusedIInv ==
  ASSUME IInv, NEW t \in Tasks, AddTask(t), AddResult # "ok"
  PROVE  IInv'
  <1> USE DEF IInv, AddTask, Add, poolVars, TypeOK, PoolTypeOK
  <1>1. TypeOK'
    OBVIOUS
  <1>2. RingInv'
    BY DEF RingInv, RingShape
  <1>3. WorkInv'
    BY DEF WorkInv
  <1>4. Registered' = Registered
    BY DEF Registered
  <1>5. StaffInv'
    BY <1>4 DEF StaffInv
  <1>6. LifeInv' /\ NoSleeperMissesWork' /\ FreedMeansQuiet'
    BY DEF LifeInv, NoSleeperMissesWork, FreedMeansQuiet
  <1> QED
    BY <1>1, <1>2, <1>3, <1>5, <1>6

(* When threadpool_add accepts a task there is room, and the pool is       *)
(* running with all its workers.                                           *)
LEMMA AcceptedFacts ==
  ASSUME IInv, NEW t \in Tasks, AddTask(t), AddResult = "ok"
  PROVE  /\ Enqueue(t)
         /\ pool = "live" /\ ~shutdown /\ count < QueueSize
         /\ mpc = "ready" /\ thread_count > 0
         /\ status' = [status EXCEPT ![t] = "queued"]
  <1>1. Enqueue(t) /\ pool # "freed"
    BY DEF AddTask, Add
  <1>2. pool # "null" /\ count # QueueSize /\ ~shutdown
    BY DEF AddResult
  <1>3. pool = "live" /\ count < QueueSize
    BY <1>1, <1>2, QueueSizeAssumption DEF IInv, TypeOK, PoolTypeOK
  <1>4. mpc = "ready" /\ thread_count > 0
    BY <1>2, <1>3 DEF IInv, LifeInv, AddTask
  <1> QED
    BY <1>1, <1>2, <1>3, <1>4 DEF AddTask

(* threadpool_add accepts a task.                                          *)
LEMMA AcceptedIInv ==
  ASSUME IInv, NEW t \in Tasks, AddTask(t), AddResult = "ok"
  PROVE  IInv'
  <1> USE DEF IInv, AddTask
  <1>1. /\ Enqueue(t)
        /\ pool = "live" /\ ~shutdown /\ count < QueueSize
        /\ mpc = "ready" /\ thread_count > 0
        /\ status' = [status EXCEPT ![t] = "queued"]
    BY AcceptedFacts
  <1>2. /\ count' = count + 1 /\ count' \in 1 .. QueueSize
        /\ \A i \in 1 .. count : queue'[Slot(head, i)] = queue[Slot(head, i)]
        /\ queue'[Slot(head, count + 1)] = t
        /\ tail' = (head' + count') % QueueSize
        /\ tail' \in 0 .. QueueSize - 1
        /\ queue' \in [0 .. QueueSize - 1 -> Tasks \cup {None}]
    BY <1>1, EnqueueRing DEF TypeOK, RingInv
  <1>3. /\ UNCHANGED <<pool, head, shutdown, started, thread_count, threads, wtask>>
        /\ wpc' \in [Workers -> WorkerPC]
        /\ \A w \in Workers :
             wpc'[w] = IF wpc[w] = "sleep" THEN "lock" ELSE wpc[w]
    BY <1>1 DEF Enqueue, WakeAll, TypeOK, PoolTypeOK, WorkerPC
  <1>4. TypeOK'
    BY <1>1, <1>2, <1>3, QueueSizeAssumption DEF TypeOK, PoolTypeOK
  <1>5. RingInv'
    <2>0. head' = head /\ count \in Nat
      BY <1>3 DEF TypeOK, PoolTypeOK
    <2>1. \A i \in 1 .. count' : i \in 1 .. count \/ i = count + 1
      BY <1>2, <2>0
    <2>2. /\ \A i \in 1 .. count : queue'[Slot(head, i)] = queue[Slot(head, i)]
          /\ \A i \in 1 .. count : queue[Slot(head, i)] # t
      BY <1>2 DEF RingInv, RingShape
    <2>3. queue'[Slot(head, count + 1)] = t
      BY <1>2
    <2>4. ASSUME NEW i \in 1 .. count'
          PROVE  queue'[Slot(head, i)] \in Tasks
                 /\ status'[queue'[Slot(head, i)]] = "queued"
      <3>1. CASE i \in 1 .. count
        BY <3>1, <2>2, <1>1 DEF RingInv, RingShape, TypeOK
      <3>2. CASE i = count + 1
        BY <3>2, <2>3, <1>1 DEF TypeOK
      <3> QED
        BY <2>1, <3>1, <3>2
    <2>5. ASSUME NEW i \in 1 .. count', NEW j \in 1 .. count',
                 queue'[Slot(head, i)] = queue'[Slot(head, j)]
          PROVE  i = j
      <3>1. CASE i \in 1 .. count /\ j \in 1 .. count
        BY <3>1, <2>2, <2>5 DEF RingInv, RingShape
      <3>2. CASE i \in 1 .. count /\ j = count + 1
        BY <3>2, <2>2, <2>3, <2>5
      <3>3. CASE i = count + 1 /\ j \in 1 .. count
        BY <3>3, <2>2, <2>3, <2>5
      <3> QED
        BY <2>1, <3>1, <3>2, <3>3
    <2>6. ASSUME NEW u \in Tasks, status'[u] = "queued"
          PROVE  \E i \in 1 .. count' : queue'[Slot(head, i)] = u
      <3>1. CASE u = t
        <4>1. count + 1 \in 1 .. count'
          BY <1>2, <2>0
        <4> QED
          BY <3>1, <2>3, <4>1
      <3>2. CASE u # t
        <4>1. PICK i \in 1 .. count : queue[Slot(head, i)] = u
          BY <2>6, <3>2, <1>1 DEF RingInv, RingShape, TypeOK
        <4>2. i \in 1 .. count'
          BY <1>2, <2>0
        <4> QED
          BY <2>2, <4>1, <4>2
      <3> QED
        BY <3>1, <3>2
    <2> QED
      BY <2>0, <1>2, <2>4, <2>5, <2>6 DEF RingInv, RingShape
  <1>6. WorkInv'
    BY <1>1, <1>3 DEF WorkInv, TypeOK, PoolTypeOK
  <1>7. Registered' = Registered
    BY <1>3 DEF Registered
  <1>8. StaffInv'
    <2>1. \A w \in Workers : /\ wpc'[w] = "unborn" <=> wpc[w] = "unborn"
                            /\ wpc'[w] = "exited" <=> wpc[w] = "exited"
      BY <1>3
    <2>2. \A i \in 1 .. joined : i \in 1 .. thread_count
      BY <1>1, WorkerCount DEF StaffInv, TypeOK, PoolTypeOK
    <2> QED
      BY <1>1, <1>3, <1>7, <2>1, <2>2 DEF StaffInv
  <1>9. LifeInv'
    BY <1>1, <1>3 DEF LifeInv, TypeOK, PoolTypeOK
  <1>10. NoSleeperMissesWork' /\ FreedMeansQuiet'
    BY <1>1, <1>3 DEF NoSleeperMissesWork, FreedMeansQuiet
  <1> QED
    BY <1>4, <1>5, <1>6, <1>8, <1>9, <1>10

(* A worker that goes to sleep or is woken: nothing but its place changes. *)
LEMMA DozeIInv ==
  ASSUME IInv, NEW w \in Workers,
         Sleep(w) \/ SpuriousWakeup(w), UNCHANGED <<want, mpc, joined, status>>
  PROVE  IInv'
  <1> USE DEF IInv, ring
  <1>1. /\ UNCHANGED <<pool, queue, head, tail, count, shutdown, started>>
        /\ UNCHANGED <<thread_count, threads, wtask, want, mpc, joined, status>>
        /\ wpc' \in [Workers -> WorkerPC]
        /\ \A v \in Workers : v # w => wpc'[v] = wpc[v]
        /\ wpc[w] \in {"lock", "sleep"} /\ wpc'[w] \in {"lock", "sleep"}
        /\ wpc'[w] = "sleep" => count = 0 /\ ~shutdown
    BY DEF Sleep, SpuriousWakeup, TypeOK, PoolTypeOK, WorkerPC
  <1>2. TypeOK'
    BY <1>1 DEF TypeOK, PoolTypeOK
  <1>3. RingInv'
    BY <1>1 DEF RingInv, RingShape
  <1>4. WorkInv'
    BY <1>1 DEF WorkInv
  <1>5. Registered' = Registered
    BY <1>1 DEF Registered
  <1>6. StaffInv'
    <2>1. \A v \in Workers : /\ wpc'[v] = "unborn" <=> wpc[v] = "unborn"
                            /\ wpc'[v] = "exited" <=> wpc[v] = "exited"
      BY <1>1
    <2>2. mpc # "done" => \A i \in 1 .. joined : i \in 1 .. thread_count
      BY WorkerCount DEF StaffInv, TypeOK, PoolTypeOK
    <2> QED
      BY <1>1, <1>5, <2>1, <2>2 DEF StaffInv
  <1>7. LifeInv'
    BY <1>1 DEF LifeInv
  <1>8. NoSleeperMissesWork' /\ FreedMeansQuiet'
    BY <1>1 DEF NoSleeperMissesWork, FreedMeansQuiet
  <1> QED
    BY <1>2, <1>3, <1>4, <1>6, <1>7, <1>8

(* A worker finds the ring empty and the pool shutting down, and exits.    *)
LEMMA ExitIInv ==
  ASSUME IInv, NEW w \in Workers, Exit(w), UNCHANGED <<want, mpc, joined, status>>
  PROVE  IInv'
  <1> USE DEF IInv, ring
  <1>1. /\ UNCHANGED <<pool, queue, head, tail, count, shutdown>>
        /\ UNCHANGED <<thread_count, threads, wtask, want, mpc, joined, status>>
        /\ started' = started - 1
        /\ wpc' \in [Workers -> WorkerPC]
        /\ \A v \in Workers : v # w => wpc'[v] = wpc[v]
        /\ wpc[w] = "lock" /\ wpc'[w] = "exited"
        /\ count = 0 /\ shutdown
    BY DEF Exit, TypeOK, PoolTypeOK, WorkerPC
  <1>2. started' = Cardinality(Registered') /\ started' \in Nat
    <2>1. Registered \in SUBSET Workers /\ w \in Registered
      BY <1>1 DEF Registered
    <2>2. Registered' = Registered \ {w}
      BY <1>1 DEF Registered
    <2>3. Cardinality(Registered') = Cardinality(Registered) - 1
      BY <2>1, <2>2, CountWorker
    <2>4. Registered' \in SUBSET Workers
      BY <2>1, <2>2
    <2> QED
      BY <1>1, <2>3, <2>4, WorkerCount DEF StaffInv
  <1>3. TypeOK'
    BY <1>1, <1>2 DEF TypeOK, PoolTypeOK
  <1>4. RingInv'
    BY <1>1 DEF RingInv, RingShape
  <1>5. WorkInv'
    BY <1>1 DEF WorkInv
  <1>6. StaffInv'
    <2>1. \A v \in Workers : /\ wpc'[v] = "unborn" <=> wpc[v] = "unborn"
                            /\ wpc[v] = "exited" => wpc'[v] = "exited"
      BY <1>1
    <2>2. mpc # "done" => \A i \in 1 .. joined : i \in 1 .. thread_count
      BY WorkerCount DEF StaffInv, TypeOK, PoolTypeOK
    <2> QED
      BY <1>1, <1>2, <2>1, <2>2 DEF StaffInv
  <1>7. LifeInv'
    BY <1>1 DEF LifeInv
  <1>8. NoSleeperMissesWork' /\ FreedMeansQuiet'
    BY <1>1 DEF NoSleeperMissesWork, FreedMeansQuiet
  <1> QED
    BY <1>3, <1>4, <1>5, <1>6, <1>7, <1>8

(* A worker takes the task at head.                                        *)
LEMMA TakeIInv ==
  ASSUME IInv, NEW w \in Workers, Take(w)
  PROVE  IInv'
  <1> USE DEF IInv, Take
  <1> DEFINE u == queue[head]
  <1>1. /\ count \in 1 .. QueueSize /\ count' = count - 1
        /\ Slot(head, 1) = head /\ u \in Tasks
        /\ head' \in 0 .. QueueSize - 1
        /\ queue' = queue
        /\ \A i \in 1 .. count' : i + 1 \in 1 .. count
                                 /\ Slot(head', i) = Slot(head, i + 1)
        /\ tail' = (head' + count') % QueueSize
    <2>1. PoolTypeOK /\ RingShape /\ TakeTask(w)
      BY DEF TypeOK, RingInv
    <2>2. Slot(head, 1) = head /\ 1 \in 1 .. count
      BY <2>1, TakeRing
    <2> QED
      BY <2>1, <2>2, TakeRing DEF RingInv
  <1>2. /\ UNCHANGED <<pool, tail, shutdown, started, thread_count, threads>>
        /\ UNCHANGED <<want, mpc, joined>>
        /\ wpc' \in [Workers -> WorkerPC]
        /\ wtask' \in [Workers -> Tasks \cup {None}]
        /\ \A v \in Workers : v # w => wpc'[v] = wpc[v] /\ wtask'[v] = wtask[v]
        /\ wpc[w] = "lock" /\ wpc'[w] = "busy" /\ wtask'[w] = u
    BY <1>1 DEF TakeTask, TypeOK, PoolTypeOK, WorkerPC
  <1>3. /\ status' \in [Tasks -> {"new", "queued", "running", "done", "refused"}]
        /\ \A t \in Tasks : t # u => status'[t] = status[t]
        /\ status[u] = "queued" /\ status'[u] = "running"
    <2>1. 1 \in 1 .. count
      BY <1>1
    <2>2. status[u] = "queued"
      BY <1>1, <2>1 DEF RingInv, RingShape
    <2> QED
      BY <1>1, <2>2 DEF TypeOK
  <1> HIDE DEF u
  <1>4. TypeOK'
    <2>1. count' \in 0 .. QueueSize /\ head' \in 0 .. QueueSize - 1
          /\ queue' = queue
      BY <1>1, QueueSizeAssumption
    <2> QED
      BY <1>2, <1>3, <2>1 DEF TypeOK, PoolTypeOK
  <1>5. RingInv'
    <2>1. \A i \in 1 .. count' :
            queue'[Slot(head', i)] = queue[Slot(head, i + 1)] /\ i + 1 \in 1 .. count
      BY <1>1
    <2>2. ASSUME NEW i \in 1 .. count
          PROVE  queue[Slot(head, i)] = u <=> i = 1
      <3>1. 1 \in 1 .. count /\ queue[Slot(head, 1)] = u
        BY <1>1 DEF u
      <3> QED
        BY <3>1 DEF RingInv, RingShape
    <2>3. ASSUME NEW i \in 1 .. count'
          PROVE  queue'[Slot(head', i)] \in Tasks
                 /\ status'[queue'[Slot(head', i)]] = "queued"
      <3>1. PICK k \in 1 .. count : k = i + 1
        BY <2>1
      <3>2. k # 1 /\ queue'[Slot(head', i)] = queue[Slot(head, k)]
        BY <1>1, <2>1, <3>1
      <3> QED
        BY <1>3, <2>2, <3>2 DEF RingInv, RingShape
    <2>4. ASSUME NEW i \in 1 .. count', NEW j \in 1 .. count',
                 queue'[Slot(head', i)] = queue'[Slot(head', j)]
          PROVE  i = j
      <3>1. i + 1 = j + 1
        BY <2>1, <2>4 DEF RingInv, RingShape
      <3> QED
        BY <3>1, <1>1
    <2>5. ASSUME NEW t \in Tasks, status'[t] = "queued"
          PROVE  \E i \in 1 .. count' : queue'[Slot(head', i)] = t
      <3>1. t # u /\ status[t] = "queued"
        BY <1>3, <2>5
      <3>2. PICK k \in 1 .. count : queue[Slot(head, k)] = t
        BY <3>1 DEF RingInv, RingShape
      <3>3. k # 1
        BY <2>2, <3>1, <3>2
      <3>4. PICK i \in 1 .. count' : k = i + 1
        <4>1. k - 1 \in 1 .. count' /\ k = (k - 1) + 1
          BY <1>1, <3>3
        <4> QED
          BY <4>1
      <3> QED
        BY <2>1, <3>2, <3>4
    <2> QED
      BY <1>1, <2>3, <2>4, <2>5 DEF RingInv, RingShape
  <1>6. WorkInv'
    <2>1. \A v \in Workers : wtask[v] # u
      BY <1>1, <1>3, TasksAssumption DEF WorkInv
    <2>2. \A v \in Workers : wpc'[v] = "busy" <=> wtask'[v] # None
      BY <1>1, <1>2, TasksAssumption DEF WorkInv
    <2>3. \A v \in Workers : wtask'[v] # None => status'[wtask'[v]] = "running"
      BY <1>1, <1>2, <1>3, <2>1 DEF WorkInv, TypeOK, PoolTypeOK
    <2>4. \A v, x \in Workers :
            wtask'[v] = wtask'[x] /\ wtask'[v] # None => v = x
      BY <1>2, <2>1 DEF WorkInv
    <2>5. \A t \in Tasks :
            status'[t] = "running" => \E v \in Workers : wtask'[v] = t
      <3> SUFFICES ASSUME NEW t \in Tasks, status'[t] = "running", t # u
                   PROVE  \E v \in Workers : wtask'[v] = t
        BY <1>2
      <3>1. PICK v \in Workers : wtask[v] = t
        BY <1>3 DEF WorkInv
      <3>2. v # w
        BY <1>2, <3>1, TasksAssumption DEF WorkInv
      <3> QED
        BY <1>2, <3>1, <3>2
    <2> QED
      BY <2>2, <2>3, <2>4, <2>5 DEF WorkInv
  <1>7. Registered' = Registered
    BY <1>2 DEF Registered
  <1>8. StaffInv'
    <2>1. \A v \in Workers : /\ wpc'[v] = "unborn" <=> wpc[v] = "unborn"
                            /\ wpc'[v] = "exited" <=> wpc[v] = "exited"
      BY <1>2
    <2>2. mpc # "done" => \A i \in 1 .. joined : i \in 1 .. thread_count
      BY WorkerCount DEF StaffInv, TypeOK, PoolTypeOK
    <2> QED
      BY <1>2, <1>7, <2>1, <2>2 DEF StaffInv
  <1>9. LifeInv'
    BY <1>1, <1>2 DEF LifeInv
  <1>10. NoSleeperMissesWork' /\ FreedMeansQuiet'
    BY <1>1, <1>2 DEF NoSleeperMissesWork, FreedMeansQuiet
  <1> QED
    BY <1>4, <1>5, <1>6, <1>8, <1>9, <1>10

(* A task has been run.                                                    *)
LEMMA FinishIInv ==
  ASSUME IInv, NEW w \in Workers, Finish(w)
  PROVE  IInv'
  <1> USE DEF IInv, Finish
  <1> DEFINE u == wtask[w]
  <1>1. /\ UNCHANGED <<pool, queue, head, tail, count, shutdown, started>>
        /\ UNCHANGED <<thread_count, threads, want, mpc, joined>>
        /\ wpc' \in [Workers -> WorkerPC]
        /\ wtask' \in [Workers -> Tasks \cup {None}]
        /\ \A v \in Workers : v # w => wpc'[v] = wpc[v] /\ wtask'[v] = wtask[v]
        /\ wpc[w] = "busy" /\ wpc'[w] = "lock" /\ wtask'[w] = None
    BY DEF FinishTask, ring, TypeOK, PoolTypeOK, WorkerPC
  <1>2. u \in Tasks /\ status[u] = "running"
    BY <1>1 DEF WorkInv, TypeOK, PoolTypeOK
  <1>3. /\ status' \in [Tasks -> {"new", "queued", "running", "done", "refused"}]
        /\ \A t \in Tasks : t # u => status'[t] = status[t]
        /\ status'[u] = "done"
    BY <1>2 DEF TypeOK
  <1>4. TypeOK'
    BY <1>1, <1>3 DEF TypeOK, PoolTypeOK
  <1>5. RingInv'
    BY <1>1, <1>2, <1>3 DEF RingInv, RingShape
  <1>6. WorkInv'
    BY <1>1, <1>2, <1>3, TasksAssumption DEF WorkInv, TypeOK, PoolTypeOK
  <1>7. Registered' = Registered
    BY <1>1 DEF Registered
  <1>8. StaffInv'
    <2>1. \A v \in Workers : /\ wpc'[v] = "unborn" <=> wpc[v] = "unborn"
                            /\ wpc'[v] = "exited" <=> wpc[v] = "exited"
      BY <1>1
    <2>2. mpc # "done" => \A i \in 1 .. joined : i \in 1 .. thread_count
      BY WorkerCount DEF StaffInv, TypeOK, PoolTypeOK
    <2> QED
      BY <1>1, <1>7, <2>1, <2>2 DEF StaffInv
  <1>9. LifeInv'
    BY <1>1 DEF LifeInv
  <1>10. NoSleeperMissesWork' /\ FreedMeansQuiet'
    BY <1>1, <1>3 DEF NoSleeperMissesWork, FreedMeansQuiet
  <1> QED
    BY <1>4, <1>5, <1>6, <1>8, <1>9, <1>10

(* threadpool_destroy announces the shutdown.                              *)
LEMMA DestroyIInv ==
  ASSUME IInv, Destroy
  PROVE  IInv'
  <1> USE DEF IInv, Destroy
  <1>1. /\ UNCHANGED <<pool, queue, head, tail, count, started>>
        /\ UNCHANGED <<thread_count, threads, wtask, want, joined, status>>
        /\ pool = "live" /\ ~shutdown /\ shutdown' = TRUE
        /\ mpc = "destroy" /\ mpc' = "join"
        /\ wpc' \in [Workers -> WorkerPC]
        /\ \A w \in Workers :
             wpc'[w] = IF wpc[w] = "sleep" THEN "lock" ELSE wpc[w]
    BY DEF BeginShutdown, WakeAll, ring, TypeOK, PoolTypeOK, WorkerPC
  <1>2. TypeOK'
    BY <1>1 DEF TypeOK, PoolTypeOK
  <1>3. RingInv'
    BY <1>1 DEF RingInv, RingShape
  <1>4. WorkInv'
    BY <1>1 DEF WorkInv
  <1>5. Registered' = Registered
    BY <1>1 DEF Registered
  <1>6. StaffInv'
    <2>1. \A w \in Workers : /\ wpc'[w] = "unborn" <=> wpc[w] = "unborn"
                            /\ wpc'[w] = "exited" <=> wpc[w] = "exited"
      BY <1>1
    <2>2. \A i \in 1 .. joined : i \in 1 .. thread_count
      BY <1>1, WorkerCount DEF StaffInv, TypeOK, PoolTypeOK
    <2> QED
      BY <1>1, <1>5, <2>1, <2>2 DEF StaffInv
  <1>7. LifeInv'
    BY <1>1 DEF LifeInv
  <1>8. NoSleeperMissesWork' /\ FreedMeansQuiet'
    BY <1>1 DEF NoSleeperMissesWork, FreedMeansQuiet
  <1> QED
    BY <1>2, <1>3, <1>4, <1>6, <1>7, <1>8

(* The next worker has been joined.                                        *)
LEMMA JoinIInv ==
  ASSUME IInv, Join
  PROVE  IInv'
  <1> USE DEF IInv, Join, poolVars
  <1>1. joined \in Nat /\ thread_count \in Nat /\ want \in Nat
    BY WorkerCount DEF TypeOK, PoolTypeOK
  <1>2. joined' <= thread_count' /\ thread_count' <= want'
    BY <1>1 DEF StaffInv
  <1>3. TypeOK'
    BY <1>1, <1>2, WorkerCount DEF TypeOK, PoolTypeOK
  <1>4. RingInv'
    BY DEF RingInv, RingShape
  <1>5. WorkInv'
    BY DEF WorkInv
  <1>6. Registered' = Registered
    BY DEF Registered
  <1>7. \A i \in 1 .. joined' : wpc'[threads'[i]] = "exited"
    <2>1. \A i \in 1 .. joined' : i \in 1 .. joined \/ i = joined + 1
      BY <1>1
    <2> QED
      BY <2>1 DEF StaffInv, CanJoin
  <1>8. StaffInv'
    BY <1>2, <1>6, <1>7 DEF StaffInv
  <1>9. LifeInv' /\ NoSleeperMissesWork' /\ FreedMeansQuiet'
    BY DEF LifeInv, NoSleeperMissesWork, FreedMeansQuiet
  <1> QED
    BY <1>3, <1>4, <1>5, <1>8, <1>9

(* All handles are joined: every worker has left, so started is zero, the  *)
(* ring is empty and nothing runs.                                         *)
LEMMA FreeIInv ==
  ASSUME IInv, Free
  PROVE  IInv'
  <1> USE DEF IInv, Free, FreePool, ring
  <1>1. pool = "live" /\ shutdown
    BY DEF LifeInv, TypeOK, PoolTypeOK
  <1>2. \A w \in Workers : wpc[w] \in {"unborn", "exited"}
    BY DEF StaffInv
  <1>3. Registered = {} /\ started = 0
    BY <1>2, WorkerCount DEF Registered, StaffInv
  <1>4. pool' = "freed"
    BY <1>3
  <1>5. count = 0
    <2>1. CASE thread_count = 0
      BY <2>1 DEF LifeInv
    <2>2. CASE thread_count # 0
      <3>1. 1 \in 1 .. thread_count
        BY <2>2 DEF TypeOK, PoolTypeOK
      <3>2. threads[1] \in Workers /\ wpc[threads[1]] = "exited"
        BY <3>1 DEF StaffInv
      <3> QED
        BY <3>2 DEF LifeInv
    <2> QED
      BY <2>1, <2>2
  <1>6. FreedMeansQuiet'
    <2>1. \A t \in Tasks : status[t] # "queued"
      BY <1>5 DEF RingInv, RingShape
    <2>2. \A t \in Tasks : status[t] # "running"
      BY <1>2, TasksAssumption DEF WorkInv
    <2> QED
      BY <1>2, <2>1, <2>2 DEF FreedMeansQuiet
  <1>7. TypeOK'
    BY <1>4 DEF TypeOK, PoolTypeOK
  <1>8. RingInv'
    BY DEF RingInv, RingShape
  <1>9. WorkInv'
    BY DEF WorkInv
  <1>10. Registered' = Registered
    BY DEF Registered
  <1>11. StaffInv'
    BY <1>1, <1>10 DEF StaffInv
  <1>12. LifeInv'
    BY <1>1, <1>4, <1>5 DEF LifeInv
  <1>13. NoSleeperMissesWork'
    BY DEF NoSleeperMissesWork
  <1> QED
    BY <1>6, <1>7, <1>8, <1>9, <1>11, <1>12, <1>13

(* Every step keeps the invariant.                                         *)
LEMMA NextIInv == IInv /\ [Next]_vars => IInv'
  <1> SUFFICES ASSUME IInv, [Next]_vars PROVE IInv'
    OBVIOUS
  <1>1. CASE Main
    BY <1>1, MoveOnIInv, CreateIInv, SpawnIInv, DestroyIInv, JoinIInv, FreeIInv
       DEF Main
  <1>2. CASE \E w \in Workers : WorkerStep(w) \/ Wake(w)
    BY <1>2, DozeIInv, ExitIInv, TakeIInv, FinishIInv
       DEF WorkerStep, Wait, Wake
  <1>3. CASE \E t \in Tasks : AddTask(t)
    BY <1>3, RefusedIInv, AcceptedIInv
  <1>4. CASE UNCHANGED vars
    <2> USE <1>4 DEF vars, poolVars, IInv
    <2>1. TypeOK'
      BY DEF TypeOK, PoolTypeOK
    <2>2. RingInv' /\ WorkInv'
      BY DEF RingInv, RingShape, WorkInv
    <2>3. Registered' = Registered
      BY DEF Registered
    <2>4. StaffInv'
      BY <2>3 DEF StaffInv
    <2>5. LifeInv' /\ NoSleeperMissesWork' /\ FreedMeansQuiet'
      BY DEF LifeInv, NoSleeperMissesWork, FreedMeansQuiet
    <2> QED
      BY <2>1, <2>2, <2>4, <2>5
  <1> QED
    BY <1>1, <1>2, <1>3, <1>4 DEF Next, Terminated

-----------------------------------------------------------------------------
(* For any number of workers, tasks and ring entries, the ring holds the   *)
(* accepted tasks nobody has taken, each once, busy workers run one task   *)
(* each, the handles account for every thread, and head, tail and count    *)
(* stay within the array threadpool_create allocated.                      *)
THEOREM PoolInvariant == Spec => []IInv
  BY InitIInv, NextIInv, PTL DEF Spec

(* No wakeup of pool->notify is ever lost: no worker sleeps in             *)
(* pthread_cond_wait while there is a task or a shutdown to see.           *)
THEOREM NoLostWakeup == Spec => []NoSleeperMissesWork
  <1>1. IInv => NoSleeperMissesWork
    BY DEF IInv
  <1> QED
    BY <1>1, PoolInvariant, PTL

(* threadpool_destroy frees the pool only when every worker has left it    *)
(* and every accepted task has been run.                                   *)
THEOREM FreedPoolIsQuiet == Spec => []FreedMeansQuiet
  <1>1. IInv => FreedMeansQuiet
    BY DEF IInv
  <1> QED
    BY <1>1, PoolInvariant, PTL

-----------------------------------------------------------------------------
(* The refinement of TaskQueue.                                            *)

(* The abstract queue has as many tasks as the ring, and its tasks are     *)
(* tasks.                                                                  *)
LEMMA ContentsType ==
  ASSUME IInv
  PROVE  Contents \in Seq(Tasks) /\ Len(Contents) = count /\ count \in Nat
  <1>1. count \in Nat
    BY QueueSizeAssumption DEF IInv, TypeOK, PoolTypeOK
  <1>2. \A i \in 1 .. count : queue[Slot(head, i)] \in Tasks
    BY DEF IInv, RingInv, RingShape
  <1> QED
    BY <1>1, <1>2 DEF Contents

(* Append and Tail, entry by entry.                                        *)
LEMMA AppendIs ==
  ASSUME NEW S, NEW c \in Seq(S), NEW e \in S
  PROVE  Append(c, e) = [i \in 1 .. Len(c) + 1 |-> IF i <= Len(c) THEN c[i] ELSE e]
  <1> DEFINE a == Append(c, e)
             f == [i \in 1 .. Len(c) + 1 |-> IF i <= Len(c) THEN c[i] ELSE e]
  <1>0. Len(c) \in Nat
    OBVIOUS
  <1>1. /\ a \in Seq(S) /\ Len(a) = Len(c) + 1
        /\ \A i \in 1 .. Len(c) : a[i] = c[i]
        /\ a[Len(c) + 1] = e
    BY AppendProperties
  <1>2. f \in Seq(S) /\ Len(f) = Len(c) + 1
    BY <1>0, ElementOfSeq
  <1>3. ASSUME NEW i \in 1 .. Len(c) + 1
        PROVE  a[i] = f[i]
    <2>1. i \in 1 .. Len(c) \/ (i = Len(c) + 1 /\ ~(i <= Len(c)))
      BY <1>0
    <2> QED
      BY <1>1, <2>1
  <1> HIDE DEF a, f
  <1>4. a = f
    BY <1>1, <1>2, <1>3, SeqEqual
  <1> QED
    BY <1>4 DEF a, f

(* Tail as a function                                                      *)
LEMMA TailIs ==
  ASSUME NEW S, NEW c \in Seq(S), c # << >>
  PROVE  Tail(c) = [i \in 1 .. Len(c) - 1 |-> c[i + 1]]
  <1> DEFINE a == Tail(c)
             f == [i \in 1 .. Len(c) - 1 |-> c[i + 1]]
  <1>0. Len(c) \in Nat /\ Len(c) - 1 \in Nat
    OBVIOUS
  <1>1. /\ a \in Seq(S) /\ Len(a) = Len(c) - 1
        /\ \A i \in 1 .. Len(a) : a[i] = c[i + 1]
    BY HeadTailProperties
  <1>2. f \in Seq(S) /\ Len(f) = Len(c) - 1
    BY <1>0, ElementOfSeq
  <1>3. \A i \in 1 .. Len(a) : a[i] = f[i]
    BY <1>1
  <1> HIDE DEF a, f
  <1>4. a = f
    BY <1>1, <1>2, <1>3, SeqEqual
  <1> QED
    BY <1>4 DEF a, f

(* Before anything happened the abstract queue is empty and open.          *)
LEMMA InitRefines == Init => Abstract!QInit
  <1> SUFFICES ASSUME Init PROVE Abstract!QInit
    OBVIOUS
  <1> USE DEF Init, PoolInit
  <1>1. Contents = << >>
    BY DEF Contents
  <1>2. {t \in Tasks : status[t] \in {"running", "done"}} = {}
    OBVIOUS
  <1> QED
    BY <1>1, <1>2 DEF Abstract!QInit

(* An accepted add appends to the abstract queue.                          *)
LEMMA AddRefines ==
  ASSUME IInv, NEW t \in Tasks, AddTask(t), AddResult = "ok"
  PROVE  Abstract!Put(t)
  <1>1. /\ Enqueue(t)
        /\ ~shutdown /\ count < QueueSize
        /\ status' = [status EXCEPT ![t] = "queued"]
    BY AcceptedFacts
  <1>2. /\ count' = count + 1
        /\ \A i \in 1 .. count : queue'[Slot(head, i)] = queue[Slot(head, i)]
        /\ queue'[Slot(head, count + 1)] = t
    BY <1>1, EnqueueRing DEF IInv, TypeOK, RingInv
  <1>3. head' = head /\ shutdown' = shutdown
    BY <1>1 DEF Enqueue
  <1>4. Contents' = Append(Contents, t)
    <2>1. Contents' = [i \in 1 .. count + 1 |->
                        IF i <= count THEN queue[Slot(head, i)] ELSE t]
      <3>1. Contents' = [i \in 1 .. count + 1 |-> queue'[Slot(head, i)]]
        BY <1>2, <1>3 DEF Contents
      <3>2. ASSUME NEW i \in 1 .. count + 1
            PROVE  queue'[Slot(head, i)]
                     = IF i <= count THEN queue[Slot(head, i)] ELSE t
        <4>1. CASE i \in 1 .. count
          BY <1>2, <4>1
        <4>2. CASE i = count + 1
          BY <1>2, <4>2, ContentsType
        <4> QED
          BY <4>1, <4>2, ContentsType
      <3> QED
        BY <3>1, <3>2
    <2>2. Append(Contents, t) = [i \in 1 .. count + 1 |->
                                  IF i <= count THEN Contents[i] ELSE t]
      BY ContentsType, AppendIs
    <2>3. \A i \in 1 .. count : Contents[i] = queue[Slot(head, i)]
      BY DEF Contents
    <2> QED
      BY <2>1, <2>2, <2>3, ContentsType
  <1>5. {u \in Tasks : status'[u] \in {"running", "done"}}
          = {u \in Tasks : status[u] \in {"running", "done"}}
    BY <1>1 DEF AddTask, IInv, TypeOK
  <1> QED
    BY <1>1, <1>3, <1>4, <1>5, ContentsType DEF Abstract!Put

(* A worker that takes a task takes the oldest, which was never handed out *)
(* before.                                                                 *)
LEMMA TakeRefines ==
  ASSUME IInv, NEW w \in Workers, Take(w)
  PROVE  Abstract!Take
  <1>1. /\ count \in 1 .. QueueSize /\ count' = count - 1
        /\ Slot(head, 1) = head /\ queue[head] \in Tasks
        /\ queue' = queue
        /\ \A i \in 1 .. count' : i + 1 \in 1 .. count
                                 /\ Slot(head', i) = Slot(head, i + 1)
    <2>1. PoolTypeOK /\ RingShape /\ TakeTask(w)
      BY DEF IInv, TypeOK, RingInv, Take
    <2>2. Slot(head, 1) = head /\ 1 \in 1 .. count
      BY <2>1, TakeRing
    <2> QED
      BY <2>1, <2>2, TakeRing DEF IInv, RingInv
  <1>2. 1 \in 1 .. count
    BY <1>1
  <1>3. status[queue[head]] = "queued"
    BY <1>1, <1>2 DEF IInv, RingInv, RingShape
  <1>4. Contents \in Seq(Tasks) /\ Len(Contents) = count /\ Contents # << >>
    BY <1>1, ContentsType
  <1>5. Head(Contents) = queue[head]
    <2>1. Contents[1] = queue[head]
      BY <1>1, <1>2 DEF Contents
    <2> QED
      BY <1>4, <2>1
  <1>6. Contents' = Tail(Contents)
    <2>1. Contents' = [i \in 1 .. count - 1 |-> queue[Slot(head, i + 1)]]
      BY <1>1 DEF Contents
    <2>2. \A i \in 1 .. count - 1 : Contents[i + 1] = queue[Slot(head, i + 1)]
      BY <1>1 DEF Contents
    <2>3. Tail(Contents) = [i \in 1 .. count - 1 |-> Contents[i + 1]]
      BY <1>4, TailIs
    <2> QED
      BY <2>1, <2>2, <2>3
  <1>7. status' = [status EXCEPT ![queue[head]] = "running"] /\ shutdown' = shutdown
    BY DEF Take, TakeTask
  <1>8. {u \in Tasks : status'[u] \in {"running", "done"}}
          = {u \in Tasks : status[u] \in {"running", "done"}} \cup {queue[head]}
    BY <1>1, <1>7 DEF IInv, TypeOK
  <1> QED
    BY <1>3, <1>4, <1>5, <1>6, <1>7, <1>8 DEF Abstract!Take

(* Destroying the pool closes the abstract queue.                          *)
LEMMA DestroyRefines ==
  ASSUME IInv, Destroy
  PROVE  Abstract!Close
  BY DEF Destroy, BeginShutdown, ring, Contents, Abstract!Close

(* No other step changes the abstract queue.                               *)
LEMMA OthersStutter ==
  ASSUME IInv,
         \/ UNCHANGED vars
         \/ CreateNothing \/ Create \/ (\E w \in Workers : Spawn(w))
         \/ SpawnFails \/ Created \/ Quit \/ DestroyNull \/ Join \/ Free
         \/ \E w \in Workers : Wait(w) \/ Wake(w) \/ Finish(w)
         \/ \E t \in Tasks : AddTask(t) /\ AddResult # "ok"
  PROVE  UNCHANGED Abstract!qvars
  <1> DEFINE handed == {t \in Tasks : status[t] \in {"running", "done"}}
  <1>1. CASE status' = status
    <2>1. UNCHANGED <<queue, head, count, shutdown>>
      BY <1>1 DEF IInv, vars, poolVars, ring, CreateNothing, Create, AllocatePool,
           Spawn, StartWorker, SpawnFails, Created, Quit, DestroyNull, Join, Free,
           FreePool, Wait, Sleep, Exit, Wake, SpuriousWakeup, Finish, FinishTask,
           AddTask, Add
    <2> QED
      BY <1>1, <2>1 DEF Contents, Abstract!qvars
  <1>2. CASE \E w \in Workers : Finish(w)
    <2>1. PICK w \in Workers : Finish(w)
      BY <1>2
    <2>2. wtask[w] \in Tasks /\ status[wtask[w]] = "running"
      BY <2>1 DEF IInv, WorkInv, TypeOK, PoolTypeOK, Finish, FinishTask
    <2>3. handed' = handed
      BY <2>1, <2>2 DEF Finish, IInv, TypeOK
    <2>4. UNCHANGED <<queue, head, count, shutdown>>
      BY <2>1 DEF Finish, FinishTask, ring
    <2> QED
      BY <2>3, <2>4 DEF Contents, Abstract!qvars
  <1>3. CASE \E t \in Tasks : AddTask(t) /\ AddResult # "ok"
    <2>1. PICK t \in Tasks : AddTask(t) /\ AddResult # "ok"
      BY <1>3
    <2>2. handed' = handed
      BY <2>1 DEF AddTask, IInv, TypeOK
    <2>3. UNCHANGED <<queue, head, count, shutdown>>
      BY <2>1 DEF AddTask, Add, poolVars
    <2> QED
      BY <2>2, <2>3 DEF Contents, Abstract!qvars
  <1>4. status' = status \/ (\E w \in Workers : Finish(w))
        \/ \E t \in Tasks : AddTask(t) /\ AddResult # "ok"
    BY DEF vars, CreateNothing, Create, Spawn, SpawnFails, Created, Quit,
           DestroyNull, Join, Free, Wait, Wake
  <1> QED
    BY <1>1, <1>2, <1>3, <1>4

(* The ring of popcorn_threadpool.c is a bounded first-in first-out queue  *)
(* for any ring size and any number of workers and tasks: no interleaving  *)
(* of adds, takes and shutdown loses, repeats or reorders a task.          *)
THEOREM RingIsAQueue == Spec => ImplementsQueue
  <1>1. IInv /\ [Next]_vars => [Abstract!QNext]_(Abstract!qvars)
    <2> SUFFICES ASSUME IInv, [Next]_vars
                 PROVE  Abstract!QNext \/ UNCHANGED Abstract!qvars
      OBVIOUS
    <2>1. CASE \E t \in Tasks : AddTask(t) /\ AddResult = "ok"
      BY <2>1, AddRefines DEF Abstract!QNext
    <2>2. CASE \E w \in Workers : Take(w)
      BY <2>2, TakeRefines DEF Abstract!QNext
    <2>3. CASE Destroy
      BY <2>3, DestroyRefines DEF Abstract!QNext
    <2> QED
      BY <2>1, <2>2, <2>3, OthersStutter DEF Next, Main, WorkerStep, Terminated
  <1> QED
    BY <1>1, InitRefines, PoolInvariant, PTL DEF Spec, ImplementsQueue, Abstract!QSpec
=============================================================================
