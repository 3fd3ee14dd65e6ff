----------------------------- MODULE BompParallel -----------------------------
(***************************************************************************)
(* libbomp's parallel regions (lib/libbomp: parallel.c, processing.c,      *)
(* omp.c, kmp.c), over its thread pool (Threadpool) and its one global     *)
(* barrier (SpinBarrier).                                                  *)
(*                                                                         *)
(* The master runs a program, a sequence of omp_set_num_threads calls and  *)
(* __kmpc_fork_call regions, and then exits, which destroys the pool.      *)
(* Every thread of a region runs Body, a sequence of                       *)
(*   "barrier"  an explicit barrier (__kmpc_barrier),                      *)
(*   "nested"   a region nested in this one, entered by every thread,      *)
(*   "master"   one entered by the master only (__kmpc_master).            *)
(***************************************************************************)
EXTENDS Threadpool, SpinBarrier

CONSTANTS
  Master,         \* the thread that ran the library's constructor
  Cores,          \* the numbers of cores backend_init may count
  Programs,       \* what the master may do, see SetThreads and Fork
  Body,           \* what each thread of a region does
  MaxRegions,     \* bound on the regions started
  CreateMayFail   \* whether pthread_create may fail in omp_set_num_threads

ASSUME MasterAssumption == Master \notin Workers /\ Threads = Workers \cup {Master}

VARIABLES
  bomp_num_threads, g_thread_numbers, nested,
  g_array,      \* g_array_thread_local_data: the region it was allocated for, 0 for NULL
  pc, ip, depth,   \* per thread: what it is doing, place in Body, regions it is in
  index,        \* per thread: the loop index i of the function it is in
  own,          \* per thread: the region it is starting
  program,      \* what the master has left to do
  team,         \* history: the size of each region's team
  done, reached, crossed   \* history: <<region, thread_id>> pairs

regionVars == <<bomp_num_threads, g_thread_numbers, nested, g_array>>
threadVars == <<pc, ip, depth, index, own>>
history == <<team, done, reached, crossed>>
vars == <<poolVars, barrierVars, regionVars, threadVars, program, history>>

Set(n) == [op |-> "set", n |-> n]
Fork == [op |-> "fork", n |-> 0]

region == Len(team)

(* work_data->thread_id and the region the thread works for                *)
thread_id(t) == IF t = Master THEN 0 ELSE wtask[t][2]
member(t) == <<IF t = Master THEN region ELSE wtask[t][1], thread_id(t)>>

Goto(t, where) == pc' = [pc EXCEPT ![t] = where]

-----------------------------------------------------------------------------
(* The state the constructor leaves (bomp_custom_init, backend_init,       *)
(* threadpool_create with num_cores - 1 threads and no failure): with one  *)
(* core threadpool_create returns NULL and changes nothing.                *)
InitWith(cores, workers) ==
  /\ bomp_num_threads = cores
  /\ BarrierInit(cores - 1)
  /\ pool = IF cores > 1 THEN "live" ELSE "null"
  /\ threads = workers
  /\ thread_count = cores - 1
  /\ started = cores - 1
  /\ wpc = [w \in Workers |->
              IF \E i \in DOMAIN workers : workers[i] = w THEN "lock" ELSE "unborn"]

(* The first n workers, in an arbitrary but fixed order.                   *)
FirstWorkers(n) ==
  CHOOSE s \in [1 .. n -> Workers] : \A i, j \in 1 .. n : s[i] = s[j] => i = j

Init ==
  /\ \E cores \in Cores : InitWith(cores, FirstWorkers(cores - 1))
  /\ queue = [i \in 0 .. QueueSize - 1 |-> None]
  /\ head = 0 /\ tail = 0 /\ count = 0
  /\ shutdown = FALSE
  /\ wtask = [w \in Workers |-> None]
  /\ g_thread_numbers = 1 /\ nested = 0 /\ g_array = 0
  /\ pc = [t \in Threads |-> IF t = Master THEN "serial" ELSE "idle"]
  /\ ip = [t \in Threads |-> 1]
  /\ depth = [t \in Threads |-> 0]
  /\ index = [t \in Threads |-> 0]
  /\ own = [t \in Threads |-> 0]
  /\ program \in Programs
  /\ team = << >> /\ done = {} /\ reached = {} /\ crossed = {}

(* A null or freed pointer is used: nothing is known of what follows.      *)
Undefined(t) ==
  /\ Goto(t, "undefined")
  /\ UNCHANGED <<poolVars, barrierVars, regionVars, ip, depth, index, own, program, history>>

-----------------------------------------------------------------------------
(* GOMP_parallel_start                                                     *)
omp_in_parallel == g_thread_numbers # 1

(* The test of omp_in_parallel: outside all regions, on to                 *)
(* bomp_start_processing; inside one, nothing but the count of regions     *)
StartOuter(t) ==
  /\ ~omp_in_parallel
  /\ Goto(t, "start")
  /\ UNCHANGED <<poolVars, barrierVars, regionVars, ip, depth, index, own, program, history>>

StartNested(t) ==
  /\ omp_in_parallel
  /\ Goto(t, "incr")
  /\ UNCHANGED <<poolVars, barrierVars, regionVars, ip, depth, index, own, program, history>>

ParallelStart(t) == StartOuter(t) \/ StartNested(t)

(* g_thread_numbers = nthreads, which is bomp_num_threads, as              *)
(* __kmpc_fork_call passes it                                              *)
StoreTeamSize(t) ==
  /\ pc[t] = "start"
  /\ g_thread_numbers' = bomp_num_threads
  /\ Goto(t, "alloc")
  /\ UNCHANGED <<poolVars, barrierVars, bomp_num_threads, nested, g_array, ip, depth, index,
                 own, program, history>>

(* ... and the rest of bomp_start_processing up to its loop                *)
StartProcessing(t) ==
  /\ pc[t] = "alloc"
  /\ pool = "live"
  /\ region < MaxRegions
  /\ team' = Append(team, bomp_num_threads)
  /\ g_array' = region + 1
  /\ index' = [index EXCEPT ![t] = 1]
  /\ own' = [own EXCEPT ![t] = region + 1]
  /\ Goto(t, "adding")
  /\ UNCHANGED <<poolVars, barrierVars, bomp_num_threads, g_thread_numbers, nested, ip, depth,
                 program, done, reached, crossed>>

(* ... which reads pool->global_barrier                                    *)
StartWithoutPool(t) ==
  /\ pc[t] = "alloc"
  /\ pool # "live"
  /\ Undefined(t)

(* The loop over threadpool_add, whose result is ignored                   *)
AddWork(t) ==
  /\ pc[t] = "adding"
  /\ index[t] < team[own[t]]
  /\ Add(<<own[t], index[t]>>)
  /\ index' = [index EXCEPT ![t] = @ + 1]
  /\ UNCHANGED <<barrierVars, regionVars, pc, ip, depth, own, program, history>>

AddedAll(t) ==
  /\ pc[t] = "adding"
  /\ index[t] = team[own[t]]
  /\ Goto(t, "incr")
  /\ UNCHANGED <<poolVars, barrierVars, regionVars, ip, depth, index, own, program, history>>

(* Mutant: a nested region is not counted.                                 *)
CountOuterRegion(t) ==
  /\ pc[t] = "incr"
  /\ nested' = IF depth[t] = 0 THEN nested + 1 ELSE nested
  /\ depth' = [depth EXCEPT ![t] = @ + 1]
  /\ Goto(t, IF depth[t] = 0 THEN "body" ELSE "end")
  /\ ip' = [ip EXCEPT ![t] = IF depth[t] = 0 THEN 1 ELSE @]
  /\ UNCHANGED <<poolVars, barrierVars, bomp_num_threads, g_thread_numbers, g_array,
                 index, own, program, history>>

(* __sync_fetch_and_add(&nested, 1), and on to the microtask: that of a    *)
(* nested region is local work                                             *)
CountRegion(t) ==
  /\ pc[t] = "incr"
  /\ nested' = nested + 1
  /\ depth' = [depth EXCEPT ![t] = @ + 1]
  /\ Goto(t, IF depth[t] = 0 THEN "body" ELSE "end")
  /\ ip' = [ip EXCEPT ![t] = IF depth[t] = 0 THEN 1 ELSE @]
  /\ UNCHANGED <<poolVars, barrierVars, bomp_num_threads, g_thread_numbers, g_array,
                 index, own, program, history>>

-----------------------------------------------------------------------------
(* The body of a region, and the barrier waits                             *)
NextOp(t) == IF ip[t] <= Len(Body) THEN Body[ip[t]] ELSE "return"

(* GOMP_barrier: bomp_barrier_wait is entered                              *)
BodyBarrier(t) ==
  /\ pc[t] = "body"
  /\ NextOp(t) = "barrier"
  /\ ReadCycle(t)
  /\ Goto(t, "barrier")
  /\ reached' = reached \cup {<<member(t), ip[t]>>}
  /\ UNCHANGED <<poolVars, regionVars, ip, depth, index, own, program, team, done, crossed>>

BodyFork(t) ==
  /\ pc[t] = "body"
  /\ NextOp(t) = "nested" \/ (NextOp(t) = "master" /\ thread_id(t) = 0)
  /\ ParallelStart(t)

(* __kmpc_master returns 0                                                 *)
BodySkip(t) ==
  /\ pc[t] = "body"
  /\ NextOp(t) = "master" /\ thread_id(t) # 0
  /\ ip' = [ip EXCEPT ![t] = @ + 1]
  /\ UNCHANGED <<poolVars, barrierVars, regionVars, pc, depth, index, own, program, history>>

(* The microtask returns: a worker enters the wait at the end of           *)
(* bomp_thread_fn, the master goes on to GOMP_parallel_end.                *)
WorkerBodyEnds(t) ==
  /\ pc[t] = "body" /\ t # Master
  /\ NextOp(t) = "return"
  /\ done' = done \cup {member(t)}
  /\ ReadCycle(t)
  /\ Goto(t, "taskwait")
  /\ UNCHANGED <<poolVars, regionVars, ip, depth, index, own, program, team, reached, crossed>>

MasterBodyEnds(t) ==
  /\ pc[t] = "body" /\ t = Master
  /\ NextOp(t) = "return"
  /\ done' = done \cup {member(t)}
  /\ Goto(t, "end")
  /\ UNCHANGED <<poolVars, barrierVars, regionVars, ip, depth, index, own, program,
                 team, reached, crossed>>

Waiting(t) ==
  /\ pc[t] \in {"barrier", "taskwait", "endwait"}
  /\ WaitStep(t)
  /\ UNCHANGED <<poolVars, regionVars, threadVars, program, history>>

LeaveBarrier(t) ==
  /\ pc[t] = "barrier"
  /\ WaitReturn(t)
  /\ Goto(t, "body")
  /\ ip' = [ip EXCEPT ![t] = @ + 1]
  /\ crossed' = crossed \cup {<<member(t), ip[t]>>}
  /\ UNCHANGED <<poolVars, regionVars, depth, index, own, program, team, done, reached>>

(* bomp_thread_fn returns to threadpool_run                                *)
LeaveTask(t) ==
  /\ pc[t] = "taskwait"
  /\ WaitReturn(t)
  /\ Goto(t, "idle")
  /\ depth' = [depth EXCEPT ![t] = 0]
  /\ FinishTask(t)
  /\ UNCHANGED <<regionVars, ip, index, own, program, history>>

-----------------------------------------------------------------------------
(* GOMP_parallel_end: the test of nested                                   *)
ParallelEnd(t) ==
  /\ pc[t] = "end"
  /\ Goto(t, IF nested = 1 THEN "endprocessing" ELSE "decr")
  /\ UNCHANGED <<poolVars, barrierVars, regionVars, ip, depth, index, own, program, history>>

(* Mutant: the globals are reset before the wait.                          *)
EndProcessingResetsFirst(t) ==
  /\ pc[t] = "endprocessing"
  /\ g_array # 0
  /\ ReadCycle(t)
  /\ Goto(t, "endwait")
  /\ g_array' = 0
  /\ g_thread_numbers' = 1
  /\ UNCHANGED <<poolVars, bomp_num_threads, nested, ip, depth, index, own, program, history>>

(* bomp_end_processing: the wait on g_array_thread_local_data[0]'s barrier *)
EndProcessing(t) ==
  /\ pc[t] = "endprocessing"
  /\ g_array # 0
  /\ ReadCycle(t)
  /\ Goto(t, "endwait")
  /\ UNCHANGED <<poolVars, regionVars, ip, depth, index, own, program, history>>

EndProcessingNull(t) ==
  /\ pc[t] = "endprocessing"
  /\ g_array = 0
  /\ Undefined(t)

LeaveEnd(t) ==
  /\ pc[t] = "endwait"
  /\ WaitReturn(t)
  /\ Goto(t, "clear")
  /\ UNCHANGED <<poolVars, regionVars, ip, depth, index, own, program, history>>

(* ... and the reset of the globals, one after the other, once the wait    *)
(* has returned                                                            *)
ClearArray(t) ==
  /\ pc[t] = "clear"
  /\ g_array' = 0
  /\ Goto(t, "reset")
  /\ UNCHANGED <<poolVars, barrierVars, bomp_num_threads, g_thread_numbers, nested, ip, depth,
                 index, own, program, history>>

ResetRegion(t) ==
  /\ pc[t] = "reset"
  /\ g_thread_numbers' = 1
  /\ Goto(t, "decr")
  /\ UNCHANGED <<poolVars, barrierVars, bomp_num_threads, nested, g_array, ip, depth, index, own,
                 program, history>>

(* __sync_fetch_and_sub(&nested, 1) and the return from __kmpc_fork_call   *)
UncountRegion(t) ==
  /\ pc[t] = "decr"
  /\ nested' = nested - 1
  /\ depth' = [depth EXCEPT ![t] = @ - 1]
  /\ IF depth[t] = 1
       THEN Goto(t, "serial") /\ program' = Tail(program) /\ UNCHANGED ip
       ELSE Goto(t, "body") /\ ip' = [ip EXCEPT ![t] = @ + 1] /\ UNCHANGED program
  /\ UNCHANGED <<poolVars, barrierVars, bomp_num_threads, g_thread_numbers, g_array,
                 index, own, history>>

-----------------------------------------------------------------------------
(* The workers: threadpool_run around bomp_thread_fn                       *)
WorkerIdle(w) ==
  /\ Sleep(w) \/ Exit(w)
  /\ UNCHANGED <<barrierVars, regionVars, threadVars, program, history>>

WorkerTakes(w) ==
  /\ TakeTask(w)
  /\ Goto(w, "tls1")
  /\ ip' = [ip EXCEPT ![w] = 1]
  /\ depth' = [depth EXCEPT ![w] = 1]
  /\ UNCHANGED <<barrierVars, regionVars, index, own, program, history>>

(* bomp_set_tls, called by threadpool_run and again by bomp_thread_fn,     *)
(* writes the thread's entry of g_array_thread_local_data.                 *)
SetTls(w) ==
  /\ pc[w] \in {"tls1", "tls2"}
  /\ g_array # 0
  /\ Goto(w, IF pc[w] = "tls1" THEN "tls2" ELSE "body")
  /\ UNCHANGED <<poolVars, barrierVars, regionVars, ip, depth, index, own, program, history>>

SetTlsNull(w) ==
  /\ pc[w] \in {"tls1", "tls2"}
  /\ g_array = 0
  /\ Undefined(w)

-----------------------------------------------------------------------------
(* The master between regions                                              *)
MasterForks ==
  /\ pc[Master] = "serial"
  /\ program # << >> /\ Head(program).op = "fork"
  /\ ParallelStart(Master)

(* omp_set_num_threads(num_threads)                                        *)
Requests(num_threads) ==
  /\ pc[Master] = "serial"
  /\ program # << >>
  /\ Head(program) = Set(num_threads)

Resize(n) == [i \in 1 .. n |-> IF i \in DOMAIN threads THEN threads[i] ELSE None]

(* More threads: realloc, then one pthread_create per missing thread, the  *)
(* i-th one's handle going to threads[numThreadsNow + i - 1]               *)
GrowBegins(n) ==
  /\ Requests(n)
  /\ bomp_num_threads < n /\ pool = "live"
  /\ threads' = Resize(n)
  /\ index' = [index EXCEPT ![Master] = 0]
  /\ Goto(Master, "grow")
  /\ UNCHANGED <<pool, ring, shutdown, started, thread_count, wpc, wtask,
                 barrierVars, regionVars, ip, depth, own, program, history>>

Unborn == {w \in Workers : wpc[w] = "unborn"}

(* Mutant: the new handle is stored one entry too far.                     *)
GrowOneTooFar ==
  /\ pc[Master] = "grow"
  /\ bomp_num_threads + index[Master] < Head(program).n
  /\ Unborn # {}
  /\ StartWorker(CHOOSE w \in Unborn : TRUE, bomp_num_threads + index[Master] + 1)
  /\ index' = [index EXCEPT ![Master] = @ + 1]
  /\ UNCHANGED <<barrierVars, regionVars, pc, ip, depth, own, program, history>>

Grow ==
  /\ pc[Master] = "grow"
  /\ bomp_num_threads + index[Master] < Head(program).n
  /\ Unborn # {}
  /\ StartWorker(CHOOSE w \in Unborn : TRUE, bomp_num_threads + index[Master])
  /\ index' = [index EXCEPT ![Master] = @ + 1]
  /\ UNCHANGED <<barrierVars, regionVars, pc, ip, depth, own, program, history>>

(* pthread_create fails: threadpool_destroy(pool), and then return         *)
GrowFails ==
  /\ CreateMayFail
  /\ pc[Master] = "grow"
  /\ bomp_num_threads + index[Master] < Head(program).n
  /\ Goto(Master, "destroy")
  /\ UNCHANGED <<poolVars, barrierVars, regionVars, ip, depth, index, own, program, history>>

(* Mutant: the barrier keeps the old number of threads.                    *)
SetThreadsKeepMax(n) ==
  /\ bomp_num_threads' = n
  /\ program' = Tail(program)
  /\ Goto(Master, "serial")
  /\ UNCHANGED <<poolVars, barrierVars, g_thread_numbers, nested, g_array, ip, depth,
                 index, own, history>>

(* bomp_barrier_updateMax(pool->global_barrier, n); bomp_num_threads = n   *)
SetThreads(n) ==
  /\ UpdateMax(n)
  /\ bomp_num_threads' = n
  /\ program' = Tail(program)
  /\ Goto(Master, "serial")
  /\ UNCHANGED <<poolVars, g_thread_numbers, nested, g_array, ip, depth, index, own, history>>

GrowEnds ==
  /\ pc[Master] = "grow"
  /\ bomp_num_threads + index[Master] = Head(program).n
  /\ SetThreads(Head(program).n)

(* Fewer threads, or one: no worker is stopped.                            *)
Shrink(n) ==
  /\ Requests(n)
  /\ pool = "live"
  /\ n <= bomp_num_threads
  /\ n = 1 \/ n # bomp_num_threads
  /\ SetThreads(n)

NoChange(n) ==
  /\ Requests(n)
  /\ n = bomp_num_threads /\ n # 1
  /\ program' = Tail(program)
  /\ UNCHANGED <<poolVars, barrierVars, regionVars, threadVars, history>>

(* pool->threads or pool->global_barrier of no pool                        *)
ResizeWithoutPool(n) ==
  /\ Requests(n)
  /\ pool # "live"
  /\ n = 1 \/ n # bomp_num_threads
  /\ Undefined(Master)

-----------------------------------------------------------------------------
(* bomp_custom_exit, backend_exit: threadpool_destroy(pool), the joins and *)
(* threadpool_free                                                         *)
MasterQuits ==
  /\ pc[Master] = "serial"
  /\ program = << >>
  /\ Goto(Master, IF pool = "null" THEN "exited" ELSE "destroy")
  /\ UNCHANGED <<poolVars, barrierVars, regionVars, ip, depth, index, own, program, history>>

Destroy ==
  /\ pc[Master] = "destroy"
  /\ BeginShutdown
  /\ index' = [index EXCEPT ![Master] = 0]
  /\ Goto(Master, "join")
  /\ UNCHANGED <<barrierVars, regionVars, ip, depth, own, program, history>>

DestroyFreed ==
  /\ pc[Master] = "destroy"
  /\ pool = "freed"
  /\ Undefined(Master)

Join ==
  /\ pc[Master] = "join"
  /\ index[Master] < thread_count
  /\ CanJoin(index[Master])
  /\ index' = [index EXCEPT ![Master] = @ + 1]
  /\ UNCHANGED <<poolVars, barrierVars, regionVars, pc, ip, depth, own, program, history>>

(* The entry was never written, or lies beyond the array.                  *)
JoinGarbage ==
  /\ pc[Master] = "join"
  /\ index[Master] < thread_count
  /\ index[Master] + 1 \notin DOMAIN threads \/ threads[index[Master] + 1] = None
  /\ Undefined(Master)

(* The process ends, or omp_set_num_threads, whose thread could not be     *)
(* created, returns to a program without a pool.                           *)
Free ==
  /\ pc[Master] = "join"
  /\ index[Master] = thread_count
  /\ FreePool
  /\ IF program = << >>
       THEN Goto(Master, "exited") /\ UNCHANGED program
       ELSE Goto(Master, "serial") /\ program' = Tail(program)
  /\ UNCHANGED <<barrierVars, regionVars, ip, depth, index, own, history>>

-----------------------------------------------------------------------------
RegionStep(t) ==
  \/ StoreTeamSize(t) \/ StartProcessing(t) \/ StartWithoutPool(t)
  \/ AddWork(t) \/ AddedAll(t) \/ CountRegion(t)
  \/ BodyBarrier(t) \/ BodyFork(t) \/ BodySkip(t)
  \/ WorkerBodyEnds(t) \/ MasterBodyEnds(t)
  \/ Waiting(t) \/ LeaveBarrier(t)
  \/ ParallelEnd(t) \/ EndProcessing(t) \/ EndProcessingNull(t)
  \/ LeaveEnd(t) \/ ClearArray(t) \/ ResetRegion(t) \/ UncountRegion(t)

MasterStep ==
  \/ RegionStep(Master)
  \/ MasterForks
  \/ \E n \in {program[i].n : i \in DOMAIN program} :
       GrowBegins(n) \/ Shrink(n) \/ NoChange(n) \/ ResizeWithoutPool(n)
  \/ Grow \/ GrowFails \/ GrowEnds
  \/ MasterQuits \/ Destroy \/ DestroyFreed \/ Join \/ JoinGarbage \/ Free

WorkerStep(w) ==
  \/ RegionStep(w)
  \/ LeaveTask(w)
  \/ WorkerIdle(w) \/ WorkerTakes(w) \/ SetTls(w) \/ SetTlsNull(w)

(* The process has ended, or nothing is known of it any more.              *)
Over == pc[Master] = "exited" \/ \E t \in Threads : pc[t] = "undefined"

ThreadStep(t) == ~Over /\ IF t = Master THEN MasterStep ELSE WorkerStep(t)

Next == (\E t \in Threads : ThreadStep(t)) \/ (Over /\ UNCHANGED vars)

Spec == Init /\ [][Next]_vars

(* The operating system runs every thread that is not blocked.             *)
FairSpec == Spec /\ \A t \in Threads : WF_vars(ThreadStep(t))

-----------------------------------------------------------------------------
MasterPC == {"serial", "adding", "endwait", "grow", "destroy", "join", "exited"}
WorkerOnlyPC == {"idle", "tls1", "tls2", "taskwait"}
RegionPC == {"start", "alloc", "adding", "incr", "body", "barrier", "end", "endprocessing",
             "endwait", "clear", "reset", "decr", "undefined"}

(* The values the library's globals and the threads' places may have; the  *)
(* pool's ring indices among them stay within the queue.                   *)
TypeOK ==
  /\ PoolTypeOK
  /\ BarrierTypeOK
  /\ bomp_num_threads \in Nat /\ g_thread_numbers \in Nat
  /\ nested \in Int
  /\ g_array \in 0 .. region
  /\ pc \in [Threads -> MasterPC \cup WorkerOnlyPC \cup RegionPC]
  /\ ip \in [Threads -> 1 .. Len(Body) + 1]
  /\ depth \in [Threads -> 0 .. 2]
  /\ index \in [Threads -> Nat]
  /\ own \in [Threads -> 0 .. region]
  /\ team \in Seq(Nat)

(* The implicit barrier at the end of a region: when __kmpc_fork_call      *)
(* returns to the serial part of the program, every thread of the team has *)
(* finished its microtask, in this region and in all earlier ones.         *)
RegionsJoined ==
  pc[Master] \in {"serial", "grow", "destroy", "join", "exited"} =>
    \A r \in 1 .. region : \A i \in 1 .. team[r] - 1 : <<r, i>> \in done

(* No thread gets past an explicit barrier before its whole team has       *)
(* reached it, although all regions and region ends share one barrier.     *)
BarrierSeparates ==
  \A c \in crossed : \A i \in 0 .. team[c[1][1]] - 1 :
    <<<<c[1][1], i>>, c[2]>> \in reached

(* A worker that runs a region's task finds the globals of that region:    *)
(* the array bomp_set_tls writes to is the one allocated for it, and       *)
(* omp_get_thread_num does not take it for a serial program.               *)
WorkersSeeTheirRegion ==
  \A w \in Workers :
    pc[w] \in {"tls1", "tls2", "body", "barrier"} =>
      g_array = member(w)[1] /\ g_thread_numbers = team[g_array]

(* threadpool_destroy can join every worker that was ever started, since   *)
(* pool->threads holds its handle within the first thread_count entries.   *)
HandlesKept ==
  pool = "live" /\ pc[Master] # "join" =>
    \A w \in Workers : wpc[w] # "unborn" =>
      \E i \in 1 .. thread_count : i \in DOMAIN threads /\ threads[i] = w

(* Whatever the program does, also when threads of a team start regions of *)
(* their own and the master no longer is the last to leave: at most one    *)
(* thread at a time ends the region, since it saw nested at 1, and so      *)
(* nobody takes away the array whose barrier bomp_end_processing waits on  *)
(* and clears after the wait.                                              *)
Ending(t) == pc[t] \in {"endprocessing", "endwait", "clear", "reset"}

OneThreadEnds ==
  /\ \A t, u \in Threads : Ending(t) /\ Ending(u) => t = u
  /\ \A t \in Threads : pc[t] \in {"endwait", "clear"} => g_array # 0

(* Every program runs to its end: no region hangs at a barrier or for want *)
(* of a worker, and the pool's destruction returns.                        *)
ProgramExits == <>(pc[Master] = "exited")
=============================================================================
