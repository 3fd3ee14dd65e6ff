-------------------------- MODULE BompParallelProofs --------------------------
(***************************************************************************)
(* libbomp's parallel regions are correct for any number of threads and    *)
(* regions: whatever the program does one thread at a time ends a region,  *)
(* and for programs that set their number of threads first (Cooperative)   *)
(* regions are joined, barriers separate, workers see the globals of their *)
(* region and every worker's handle is kept.                               *)
(***************************************************************************)
EXTENDS RegionInvariant, ThreadpoolProofs, SequenceTheorems, WellFoundedInduction

-----------------------------------------------------------------------------
(* The count of open regions, and who ends them                            *)

(* nested counts the regions that have been entered and not left, however  *)
(* the threads' entries and exits interleave: the master's own, and the    *)
(* nested ones.  A thread has at most two open, numbered from the outside. *)
Open(t) == IF t = Master \/ depth[t] = 0 THEN depth[t] ELSE depth[t] - 1

OpenRegions == {e \in Threads \X {1, 2} : e[2] <= Open(e[1])}

NestedCounts == nested = Cardinality(OpenRegions)

(* How many regions a thread at each place of the code is in               *)
DepthInv(t) ==
  /\ pc[t] \in {"serial", "grow", "destroy", "join", "exited"} => t = Master /\ depth[t] = 0
  /\ pc[t] \in {"idle", "tls1", "tls2", "taskwait"} => t # Master
  /\ pc[t] = "idle" => depth[t] = 0
  /\ pc[t] \in {"tls1", "tls2", "taskwait", "body", "barrier"} => depth[t] = 1
  /\ pc[t] \in {"start", "alloc", "adding", "incr"} => depth[t] \in {IF t = Master THEN 0 ELSE 1, 1}
  /\ pc[t] \in {"end", "endprocessing", "endwait", "clear", "reset", "decr"} =>
       depth[t] \in {IF t = Master THEN 1 ELSE 2, 2}

CountInv ==
  /\ pc \in [Threads -> MasterPC \cup WorkerOnlyPC \cup RegionPC]
  /\ depth \in [Threads -> 0 .. 2]
  /\ wpc \in [Workers -> WorkerPC]
  /\ nested \in Int
  /\ \A t \in Threads : DepthInv(t)
  /\ \A w \in Workers : wpc[w] # "busy" => pc[w] = "idle"
  /\ NestedCounts

(* The open regions when each thread t has f[t] of them                    *)
Regions(f) == {e \in Threads \X {1, 2} : e[2] <= f[e[1]]}

(* One thread has one more region open: there is one more open region.     *)
LEMMA OneMore ==
  ASSUME NEW t \in Threads, NEW f \in [Threads -> Int], NEW g \in [Threads -> Int],
         f[t] \in {0, 1}, g[t] = f[t] + 1, \A q \in Threads \ {t} : g[q] = f[q]
  PROVE  /\ Cardinality(Regions(f)) \in Nat
         /\ Cardinality(Regions(g)) = Cardinality(Regions(f)) + 1
  <1>1. IsFiniteSet(Threads \X {1, 2})
    <2>1. IsFiniteSet(Threads)
      BY WorkersAssumption, MasterAssumption, FS_AddElement
    <2>2. \A a, b \in Int : IsFiniteSet(a .. b)
      BY FS_Interval
    <2>3. 1 .. 2 = {1, 2} /\ 1 \in Int /\ 2 \in Int
      OBVIOUS
    <2> QED
      BY <2>1, <2>2, <2>3, FS_Product
  <1>2. IsFiniteSet(Regions(f))
    BY <1>1, FS_Subset DEF Regions
  <1>3. ASSUME NEW q \in Threads, NEW i \in {1, 2}
        PROVE  i <= g[q] <=> i <= f[q] \/ (q = t /\ i = f[t] + 1)
    OBVIOUS
  <1>4. Regions(g) = Regions(f) \cup {<<t, f[t] + 1>>}
    BY <1>3 DEF Regions
  <1>5. <<t, f[t] + 1>> \notin Regions(f)
    BY DEF Regions
  <1> QED
    BY <1>2, <1>4, <1>5, FS_AddElement, FS_CardinalityType

(* Open as a function of the thread                                        *)
Opens == [t \in Threads |-> Open(t)]

(* OpenRegions is Regions of the function Opens.                           *)
LEMMA OpenCount ==
  /\ OpenRegions = Regions(Opens) /\ OpenRegions' = Regions(Opens')
  /\ CountInv => Opens \in [Threads -> Int]
  BY DEF OpenRegions, Regions, Opens, CountInv, Open

(* The constructor leaves no region open and nested at 0.                  *)
LEMMA CountInit == Init => CountInv
  <1> SUFFICES ASSUME Init PROVE CountInv
    OBVIOUS
  <1> USE MasterAssumption DEF Init
  <1>1. /\ pc \in [Threads -> MasterPC \cup WorkerOnlyPC \cup RegionPC]
        /\ depth \in [Threads -> 0 .. 2]
        /\ nested \in Int
        /\ \A w \in Workers : wpc[w] # "busy" => pc[w] = "idle"
    BY DEF MasterPC, WorkerOnlyPC
  <1>2. wpc \in [Workers -> WorkerPC]
    BY DEF InitWith, WorkerPC
  <1>3. \A t \in Threads : DepthInv(t)
    BY DEF DepthInv
  <1>4. NestedCounts
    <2>1. OpenRegions = {}
      BY DEF OpenRegions, Open
    <2> QED
      BY <2>1, FS_EmptySet DEF NestedCounts
  <1> QED
    BY <1>1, <1>2, <1>3, <1>4 DEF CountInv

PCs == MasterPC \cup WorkerOnlyPC \cup RegionPC

(* A step of t that enters and leaves no region                            *)
LEMMA CountKept ==
  ASSUME CountInv, NEW t \in Threads,
         depth' = depth, nested' = nested,
         pc' \in [Threads -> PCs], \A q \in Threads \ {t} : pc'[q] = pc[q],
         DepthInv(t)',
         pc'[t] # pc[t] => pc[t] # "idle",
         wpc' \in [Workers -> WorkerPC],
         \A w \in Workers : wpc'[w] = "busy" <=> wpc[w] = "busy"
  PROVE  CountInv'
  <1>1. \A q \in Threads : DepthInv(q)'
    BY DEF CountInv, DepthInv
  <1>2. NestedCounts'
    BY DEF CountInv, NestedCounts, OpenRegions, Open
  <1>3. \A w \in Workers : wpc'[w] # "busy" => pc'[w] = "idle"
    BY MasterAssumption DEF CountInv
  <1> QED
    BY <1>1, <1>2, <1>3 DEF CountInv, PCs

(* __sync_fetch_and_add(&nested, 1) comes with one more open region, ...   *)
LEMMA CountEnter ==
  ASSUME CountInv, NEW t \in Threads, CountRegion(t)
  PROVE  CountInv'
  <1> USE DEF CountInv
  <1>1. /\ pc' = [pc EXCEPT ![t] = IF depth[t] = 0 THEN "body" ELSE "end"]
        /\ depth' = [depth EXCEPT ![t] = @ + 1]
        /\ nested' = nested + 1 /\ wpc' = wpc
        /\ pc[t] = "incr" /\ depth[t] \in {IF t = Master THEN 0 ELSE 1, 1}
    BY DEF CountRegion, Goto, poolVars, DepthInv
  <1>2. pc' \in [Threads -> MasterPC \cup WorkerOnlyPC \cup RegionPC] /\ depth' \in [Threads -> 0 .. 2]
    BY <1>1 DEF RegionPC
  <1>3. \A q \in Threads : DepthInv(q)'
    BY <1>1, <1>2 DEF DepthInv
  <1>4. \A w \in Workers : wpc'[w] # "busy" => pc'[w] = "idle"
    BY <1>1, MasterAssumption
  <1>5. NestedCounts'
    <2>1. /\ Opens[t] \in {0, 1} /\ Opens'[t] = Opens[t] + 1
          /\ \A q \in Threads \ {t} : Opens'[q] = Opens[q]
          /\ Opens \in [Threads -> Int] /\ Opens' \in [Threads -> Int]
      BY <1>1, <1>2 DEF Opens, Open
    <2>2. Cardinality(Regions(Opens')) = Cardinality(Regions(Opens)) + 1
      BY <2>1, OneMore
    <2> QED
      BY <1>1, <2>2, OpenCount DEF NestedCounts
  <1> QED
    BY <1>1, <1>2, <1>3, <1>4, <1>5

(* ... and __sync_fetch_and_sub(&nested, 1) with one less.                 *)
LEMMA CountLeave ==
  ASSUME CountInv, NEW t \in Threads, UncountRegion(t)
  PROVE  CountInv'
  <1> USE DEF CountInv
  <1>1. /\ pc' = [pc EXCEPT ![t] = IF depth[t] = 1 THEN "serial" ELSE "body"]
        /\ depth' = [depth EXCEPT ![t] = @ - 1]
        /\ nested' = nested - 1 /\ wpc' = wpc
        /\ pc[t] = "decr" /\ depth[t] \in {IF t = Master THEN 1 ELSE 2, 2}
    BY DEF UncountRegion, Goto, poolVars, DepthInv
  <1>2. pc' \in [Threads -> MasterPC \cup WorkerOnlyPC \cup RegionPC] /\ depth' \in [Threads -> 0 .. 2]
    BY <1>1 DEF RegionPC, MasterPC
  <1>3. \A q \in Threads : DepthInv(q)'
    BY <1>1, <1>2 DEF DepthInv
  <1>4. \A w \in Workers : wpc'[w] # "busy" => pc'[w] = "idle"
    BY <1>1, MasterAssumption
  <1>5. NestedCounts'
    <2>1. /\ Opens'[t] \in {0, 1} /\ Opens[t] = Opens'[t] + 1
          /\ \A q \in Threads \ {t} : Opens[q] = Opens'[q]
          /\ Opens \in [Threads -> Int] /\ Opens' \in [Threads -> Int]
      BY <1>1, <1>2 DEF Opens, Open
    <2>2. /\ Cardinality(Regions(Opens')) \in Nat
          /\ Cardinality(Regions(Opens)) = Cardinality(Regions(Opens')) + 1
      BY <2>1, OneMore
    <2> QED
      BY <1>1, <2>2, OpenCount DEF NestedCounts
  <1> QED
    BY <1>1, <1>2, <1>3, <1>4, <1>5

(* A worker that takes or returns from its work item is in no nested       *)
(* region.                                                                 *)
LEMMA CountTask ==
  ASSUME CountInv, NEW w \in Workers, WorkerTakes(w) \/ LeaveTask(w)
  PROVE  CountInv'
  <1> USE DEF CountInv
  <1>0. w \in Threads /\ w # Master
    BY MasterAssumption
  <1>1. PICK d \in {0, 1}, where \in {"tls1", "idle"} :
          /\ pc' = [pc EXCEPT ![w] = where] /\ depth' = [depth EXCEPT ![w] = d]
          /\ wpc' = [wpc EXCEPT ![w] = IF d = 1 THEN "busy" ELSE "lock"]
          /\ where = IF d = 1 THEN "tls1" ELSE "idle"
          /\ nested' = nested
    BY DEF WorkerTakes, LeaveTask, TakeTask, FinishTask, Goto, regionVars
  <1>2. depth[w] \in {0, 1}
    <2>1. CASE WorkerTakes(w)
      BY <2>1, <1>0 DEF WorkerTakes, TakeTask, DepthInv
    <2>2. CASE LeaveTask(w)
      BY <2>2, <1>0 DEF LeaveTask, DepthInv
    <2> QED
      BY <2>1, <2>2
  <1>3. /\ pc' \in [Threads -> MasterPC \cup WorkerOnlyPC \cup RegionPC] /\ depth' \in [Threads -> 0 .. 2]
        /\ wpc' \in [Workers -> WorkerPC]
    BY <1>0, <1>1 DEF WorkerOnlyPC, WorkerPC
  <1>4. \A q \in Threads : DepthInv(q)'
    BY <1>0, <1>1, <1>3 DEF DepthInv
  <1>5. \A v \in Workers : wpc'[v] # "busy" => pc'[v] = "idle"
    BY <1>0, <1>1, MasterAssumption
  <1>6. NestedCounts'
    <2>1. \A q \in Threads : Open(q)' = Open(q)
      BY <1>0, <1>1, <1>2 DEF Open
    <2> QED
      BY <1>1, <2>1 DEF NestedCounts, OpenRegions
  <1> QED
    BY <1>1, <1>3, <1>4, <1>5, <1>6

(* Starting a region changes the place of the thread only.                 *)
LEMMA CountStart ==
  ASSUME CountInv, NEW t \in Threads, pc[t] \in {"body", "serial"}, ParallelStart(t)
  PROVE  CountInv'
  <1>1. PICK where \in {"start", "incr"} : pc' = [pc EXCEPT ![t] = where]
    BY DEF ParallelStart, StartOuter, StartNested, Goto
  <1>2. depth' = depth /\ nested' = nested /\ wpc' = wpc
    BY DEF ParallelStart, StartOuter, StartNested, poolVars, regionVars
  <1>3. pc' \in [Threads -> PCs] /\ DepthInv(t)'
    BY <1>1, <1>2 DEF CountInv, PCs, DepthInv, RegionPC
  <1> QED
    BY <1>1, <1>2, <1>3, CountKept DEF CountInv

(* The steps of a thread in a region, ...                                  *)
LEMMA CountRegionStep ==
  ASSUME CountInv, NEW t \in Threads, RegionStep(t)
  PROVE  CountInv'
  <1> USE DEF CountInv
  <1>1. CASE CountRegion(t)
    BY <1>1, CountEnter
  <1>2. CASE UncountRegion(t)
    BY <1>2, CountLeave
  <1>3. CASE BodyFork(t)
    BY <1>3, CountStart DEF BodyFork
  <1>4. CASE AddWork(t)
    <2>1. depth' = depth /\ nested' = nested /\ pc' = pc
      BY <1>4 DEF AddWork, regionVars
    <2>2. /\ wpc' \in [Workers -> WorkerPC]
          /\ \A w \in Workers : wpc'[w] = "busy" <=> wpc[w] = "busy"
      BY <1>4 DEF AddWork, Add, Enqueue, WakeAll, WorkerPC, poolVars
    <2>3. pc' \in [Threads -> PCs] /\ DepthInv(t)'
      BY <2>1 DEF PCs, DepthInv
    <2> QED
      BY <2>1, <2>2, <2>3, CountKept
  <1>5. CASE BodySkip(t) \/ Waiting(t)
    <2>1. depth' = depth /\ nested' = nested /\ pc' = pc /\ wpc' = wpc
      BY <1>5 DEF BodySkip, Waiting, poolVars, regionVars, threadVars
    <2>2. pc' \in [Threads -> PCs] /\ DepthInv(t)'
      BY <2>1 DEF PCs, DepthInv
    <2> QED
      BY <2>1, <2>2, CountKept
  <1>6. CASE \/ AddedAll(t) \/ BodyBarrier(t) \/ WorkerBodyEnds(t) \/ MasterBodyEnds(t)
             \/ LeaveBarrier(t) \/ ParallelEnd(t) \/ EndProcessing(t) \/ EndProcessingNull(t)
             \/ LeaveEnd(t) \/ ClearArray(t) \/ ResetRegion(t)
             \/ StoreTeamSize(t) \/ StartProcessing(t) \/ StartWithoutPool(t)
    <2>1. depth' = depth /\ nested' = nested /\ wpc' = wpc
      BY <1>6 DEF AddedAll, BodyBarrier, WorkerBodyEnds, MasterBodyEnds, LeaveBarrier, ParallelEnd,
           EndProcessing, EndProcessingNull, Undefined, LeaveEnd, ClearArray, ResetRegion,
           StoreTeamSize, StartProcessing, StartWithoutPool, poolVars, regionVars
    <2>2. PICK where \in PCs : pc' = [pc EXCEPT ![t] = where] /\ pc[t] # "idle"
      BY <1>6 DEF AddedAll, BodyBarrier, WorkerBodyEnds, MasterBodyEnds, LeaveBarrier, ParallelEnd,
           EndProcessing, EndProcessingNull, Undefined, LeaveEnd, ClearArray, ResetRegion,
           StoreTeamSize, StartProcessing, StartWithoutPool, Goto, PCs, MasterPC, WorkerOnlyPC, RegionPC
    <2>3. pc' \in [Threads -> PCs]
      BY <2>2 DEF PCs
    <2>4. DepthInv(t)'
      BY <1>6, <2>1, <2>3 DEF AddedAll, BodyBarrier, WorkerBodyEnds, MasterBodyEnds, LeaveBarrier,
           ParallelEnd, EndProcessing, EndProcessingNull, Undefined, LeaveEnd, ClearArray, ResetRegion,
           StoreTeamSize, StartProcessing, StartWithoutPool, Goto, DepthInv
    <2> QED
      BY <2>1, <2>2, <2>3, <2>4, CountKept
  <1> QED
    BY <1>1, <1>2, <1>3, <1>4, <1>5, <1>6 DEF RegionStep

(* ... of a worker, ...                                                    *)
LEMMA CountWorkerStep ==
  ASSUME CountInv, NEW w \in Workers, WorkerStep(w)
  PROVE  CountInv'
  <1> USE DEF CountInv
  <1>0. w \in Threads /\ w # Master
    BY MasterAssumption
  <1>1. CASE RegionStep(w)
    BY <1>0, <1>1, CountRegionStep
  <1>2. CASE LeaveTask(w) \/ WorkerTakes(w)
    BY <1>2, CountTask
  <1>3. CASE WorkerIdle(w)
    <2>1. depth' = depth /\ nested' = nested /\ pc' = pc
      BY <1>3 DEF WorkerIdle, regionVars, threadVars
    <2>2. /\ wpc' \in [Workers -> WorkerPC]
          /\ \A v \in Workers : wpc'[v] = "busy" <=> wpc[v] = "busy"
      BY <1>3 DEF WorkerIdle, Sleep, Exit, WorkerPC
    <2>3. pc' \in [Threads -> PCs] /\ DepthInv(w)'
      BY <1>0, <2>1 DEF PCs, DepthInv
    <2> QED
      BY <1>0, <2>1, <2>2, <2>3, CountKept
  <1>4. CASE SetTls(w) \/ SetTlsNull(w)
    <2>1. depth' = depth /\ nested' = nested /\ wpc' = wpc
      BY <1>4 DEF SetTls, SetTlsNull, Undefined, poolVars, regionVars
    <2>2. PICK where \in {"tls2", "body", "undefined"} :
            pc' = [pc EXCEPT ![w] = where] /\ pc[w] \in {"tls1", "tls2"}
      BY <1>4 DEF SetTls, SetTlsNull, Undefined, Goto
    <2>3. pc' \in [Threads -> PCs] /\ DepthInv(w)'
      BY <1>0, <2>1, <2>2 DEF PCs, DepthInv, WorkerOnlyPC, RegionPC
    <2> QED
      BY <1>0, <2>1, <2>2, <2>3, CountKept
  <1> QED
    BY <1>1, <1>2, <1>3, <1>4 DEF WorkerStep

(* ... and of the master keep the count exact, ...                         *)
LEMMA CountMasterStep ==
  ASSUME CountInv, MasterStep
  PROVE  CountInv'
  <1> USE DEF CountInv
  <1>0. Master \in Threads
    BY MasterAssumption
  <1>1. CASE RegionStep(Master)
    BY <1>0, <1>1, CountRegionStep
  <1>2. CASE MasterForks
    BY <1>0, <1>2, CountStart DEF MasterForks
  <1>3. CASE Grow \/ Destroy
    <2>1. depth' = depth /\ nested' = nested
      BY <1>3 DEF Grow, Destroy, regionVars
    <2>2. /\ wpc' \in [Workers -> WorkerPC]
          /\ \A v \in Workers : wpc'[v] = "busy" <=> wpc[v] = "busy"
      BY <1>3 DEF Grow, Destroy, StartWorker, BeginShutdown, WakeAll, Unborn, WorkerPC
    <2>3. PICK where \in {"grow", "join"} : pc' = [pc EXCEPT ![Master] = where] /\ pc[Master] # "idle"
      BY <1>0, <1>3 DEF Grow, Destroy, Goto
    <2>4. pc' \in [Threads -> PCs]
      BY <1>0, <2>3 DEF PCs, MasterPC
    <2>5. DepthInv(Master)'
      BY <1>0, <1>3, <2>1, <2>3, <2>4 DEF Grow, Destroy, DepthInv
    <2> QED
      BY <1>0, <2>1, <2>2, <2>3, <2>4, <2>5, CountKept
  <1>4. CASE \/ \E n \in {program[i].n : i \in DOMAIN program} :
                  GrowBegins(n) \/ Shrink(n) \/ NoChange(n) \/ ResizeWithoutPool(n)
             \/ GrowFails \/ GrowEnds \/ MasterQuits \/ DestroyFreed \/ Join \/ JoinGarbage \/ Free
    <2>1. depth' = depth /\ nested' = nested /\ wpc' = wpc
      BY <1>4 DEF GrowBegins, Shrink, NoChange, ResizeWithoutPool, GrowFails, GrowEnds, SetThreads,
           MasterQuits, DestroyFreed, Join, JoinGarbage, Free, FreePool, Undefined, poolVars, regionVars, threadVars
    <2>2. pc[Master] \in {"serial", "grow", "destroy", "join"}
      BY <1>4 DEF GrowBegins, Shrink, NoChange, ResizeWithoutPool, GrowFails, GrowEnds, Requests,
           MasterQuits, DestroyFreed, Join, JoinGarbage, Free
    <2>3. PICK where \in {"serial", "grow", "destroy", "join", "exited", "undefined"} :
            pc' = [pc EXCEPT ![Master] = where]
      BY <1>0, <1>4 DEF GrowBegins, Shrink, NoChange, ResizeWithoutPool, GrowFails, GrowEnds, SetThreads,
           MasterQuits, DestroyFreed, Join, JoinGarbage, Free, Undefined, Requests, Goto, threadVars
    <2>4. pc' \in [Threads -> PCs] /\ DepthInv(Master)'
      BY <1>0, <2>1, <2>2, <2>3 DEF PCs, MasterPC, RegionPC, DepthInv
    <2> QED
      BY <1>0, <2>1, <2>2, <2>3, <2>4, CountKept
  <1> QED
    BY <1>1, <1>2, <1>3, <1>4 DEF MasterStep

(* ... and so does every step.                                             *)
LEMMA CountNext == CountInv /\ [Next]_vars => CountInv'
  <1> SUFFICES ASSUME CountInv, [Next]_vars PROVE CountInv'
    OBVIOUS
  <1>1. CASE UNCHANGED vars
    BY <1>1 DEF vars, threadVars, poolVars, regionVars, CountInv, DepthInv, NestedCounts, OpenRegions, Open
  <1>2. ASSUME NEW t \in Threads, ThreadStep(t) PROVE CountInv'
    BY <1>2, CountMasterStep, CountWorkerStep, MasterAssumption DEF ThreadStep
  <1> QED
    BY <1>1, <1>2 DEF Next

(* team is a sequence, whatever numbers the program asks for.              *)
TeamIsSeq == team \in Seq({team[i] : i \in DOMAIN team})

LEMMA AnySeq ==
  ASSUME NEW S, NEW s \in Seq(S)
  PROVE  s \in Seq({s[i] : i \in DOMAIN s})
  <1> DEFINE R == {s[i] : i \in DOMAIN s}
  <1>1. /\ Len(s) \in Nat /\ DOMAIN s = 1 .. Len(s)
        /\ s \in [1 .. Len(s) -> S]
    BY LenProperties
  <1>2. s \in [1 .. Len(s) -> R]
    BY <1>1
  <1> HIDE DEF R
  <1>3. s \in Seq(R)
    BY <1>1, <1>2, SeqDef
  <1> QED
    BY <1>3 DEF R

(* Only the start of a region changes team, and it appends.                *)
LEMMA TeamStep ==
  ASSUME [Next]_vars
  PROVE  team' = team \/ team' = Append(team, bomp_num_threads)
  <1>1. ASSUME NEW t, ParallelStart(t) PROVE team' = team
    BY <1>1 DEF ParallelStart, StartOuter, StartNested, history
  <1>2. ASSUME NEW t, RegionStep(t) PROVE team' = team \/ team' = Append(team, bomp_num_threads)
    <2>1. CASE BodyFork(t)
      BY <1>1, <2>1 DEF BodyFork
    <2>2. CASE StartProcessing(t)
      BY <2>2 DEF StartProcessing
    <2>3. CASE \/ StoreTeamSize(t) \/ StartWithoutPool(t)
               \/ AddWork(t) \/ AddedAll(t) \/ CountRegion(t) \/ BodyBarrier(t) \/ BodySkip(t)
               \/ WorkerBodyEnds(t) \/ MasterBodyEnds(t) \/ Waiting(t) \/ LeaveBarrier(t)
               \/ ParallelEnd(t) \/ EndProcessing(t) \/ EndProcessingNull(t)
               \/ LeaveEnd(t) \/ ClearArray(t) \/ ResetRegion(t) \/ UncountRegion(t)
      BY <2>3 DEF StoreTeamSize, StartWithoutPool, AddWork, AddedAll, CountRegion, BodyBarrier, BodySkip,
           WorkerBodyEnds, MasterBodyEnds, Waiting, LeaveBarrier, ParallelEnd, EndProcessing,
           EndProcessingNull, LeaveEnd, ClearArray, ResetRegion, UncountRegion, Undefined, history
    <2> QED
      BY <1>2, <2>1, <2>2, <2>3 DEF RegionStep
  <1>3. ASSUME NEW w, WorkerStep(w) PROVE team' = team \/ team' = Append(team, bomp_num_threads)
    BY <1>2, <1>3 DEF WorkerStep, LeaveTask, WorkerIdle, WorkerTakes, SetTls, SetTlsNull, Undefined, history
  <1>4. ASSUME MasterStep PROVE team' = team \/ team' = Append(team, bomp_num_threads)
    BY <1>1, <1>2, <1>4 DEF MasterStep, MasterForks, GrowBegins, Shrink, NoChange, ResizeWithoutPool,
         Grow, GrowFails, GrowEnds, SetThreads, MasterQuits, Destroy, DestroyFreed, Join, JoinGarbage,
         Free, Undefined, history
  <1> QED
    BY <1>3, <1>4 DEF Next, ThreadStep, vars, history

LEMMA TeamNext == TeamIsSeq /\ [Next]_vars => TeamIsSeq'
  <1> SUFFICES ASSUME TeamIsSeq, [Next]_vars PROVE TeamIsSeq'
    OBVIOUS
  <1>1. CASE team' = team
    BY <1>1 DEF TeamIsSeq
  <1>2. CASE team' = Append(team, bomp_num_threads)
    <2> DEFINE S == {team[i] : i \in DOMAIN team} \cup {bomp_num_threads}
    <2>1. team \in Seq(S)
      BY DEF TeamIsSeq
    <2>2. bomp_num_threads \in S
      OBVIOUS
    <2> HIDE DEF S
    <2>3. team' \in Seq(S)
      BY <1>2, <2>1, <2>2, AppendProperties
    <2> QED
      BY <2>3, AnySeq DEF TeamIsSeq
  <1> QED
    BY <1>1, <1>2, TeamStep

(* Two threads that both have a region open make nested at least 2.        *)
LEMMA TwoOpen ==
  ASSUME CountInv, NEW t \in Threads, NEW u \in Threads, t # u, Open(t) >= 1, Open(u) >= 1
  PROVE  nested # 1
  <1>1. IsFiniteSet(OpenRegions)
    <2>1. IsFiniteSet(Threads)
      BY WorkersAssumption, MasterAssumption, FS_AddElement
    <2>2. \A a, b \in Int : IsFiniteSet(a .. b)
      BY FS_Interval
    <2>3. 1 .. 2 = {1, 2} /\ 1 \in Int /\ 2 \in Int
      OBVIOUS
    <2>4. IsFiniteSet(Threads \X {1, 2})
      BY <2>1, <2>2, <2>3, FS_Product
    <2> QED
      BY <2>4, FS_Subset DEF OpenRegions
  <1>2. <<t, 1>> \in OpenRegions /\ <<u, 1>> \in OpenRegions
    BY DEF OpenRegions
  <1>3. <<t, 1>> # <<u, 1>>
    OBVIOUS
  <1>4. ASSUME Cardinality(OpenRegions) = 1 PROVE FALSE
    <2>1. \E x : OpenRegions = {x}
      BY <1>1, <1>4, FS_Singleton
    <2> QED
      BY <1>2, <1>3, <2>1
  <1> QED
    BY <1>4 DEF CountInv, NestedCounts

(* A step of t that does not begin to end a region, nor take the array     *)
(* away                                                                    *)
LEMMA EndKept ==
  ASSUME OneThreadEnds, NEW t \in Threads,
         \A q \in Threads \ {t} : pc'[q] = pc[q],
         Ending(t)' => Ending(t),
         pc'[t] \in {"endwait", "clear"} => g_array' # 0,
         g_array # 0 => g_array' # 0
  PROVE  OneThreadEnds'
  <1>1. \A q \in Threads : Ending(q)' => Ending(q)
    BY DEF Ending
  <1> QED
    BY <1>1 DEF OneThreadEnds

(* The steps of a thread in a region: the test of nested, ...              *)
LEMMA EndTest ==
  ASSUME CountInv, OneThreadEnds, NEW t \in Threads, ParallelEnd(t)
  PROVE  OneThreadEnds'
  <1>1. /\ pc \in [Threads -> PCs] /\ pc[t] = "end"
        /\ pc' = [pc EXCEPT ![t] = IF nested = 1 THEN "endprocessing" ELSE "decr"]
        /\ g_array' = g_array
    BY DEF ParallelEnd, Goto, regionVars, CountInv, PCs
  <1>2. \A q \in Threads \ {t} : pc'[q] = pc[q] /\ (Ending(q)' <=> Ending(q))
    BY <1>1 DEF Ending
  <1>3. pc'[t] \in {"endprocessing", "decr"} /\ (pc'[t] = "endprocessing" => nested = 1)
    BY <1>1
  <1>4. ASSUME NEW u \in Threads \ {t}, Ending(u), nested = 1 PROVE FALSE
    <2>1. Open(t) >= 1 /\ Open(u) >= 1
      BY <1>1, <1>4 DEF CountInv, DepthInv, Ending, Open
    <2> QED
      BY <1>4, <2>1, TwoOpen
  <1>5. \A q, u \in Threads : Ending(q)' /\ Ending(u)' => q = u
    BY <1>2, <1>3, <1>4 DEF OneThreadEnds, Ending
  <1>6. \A q \in Threads : pc'[q] \in {"endwait", "clear"} => g_array' # 0
    BY <1>1, <1>2, <1>3 DEF OneThreadEnds
  <1> QED
    BY <1>5, <1>6 DEF OneThreadEnds

(* ... the end of the region, ...                                          *)
LEMMA EndClear ==
  ASSUME CountInv, OneThreadEnds, NEW t \in Threads, ClearArray(t)
  PROVE  OneThreadEnds'
  <1>1. /\ pc \in [Threads -> PCs] /\ pc[t] = "clear" /\ pc' = [pc EXCEPT ![t] = "reset"]
    BY DEF ClearArray, Goto, CountInv, PCs
  <1>2. \A q \in Threads : Ending(q)' <=> Ending(q)
    BY <1>1 DEF Ending
  <1>3. Ending(t) /\ pc'[t] = "reset"
    BY <1>1 DEF Ending
  <1>4. \A q \in Threads : pc'[q] \in {"endwait", "clear"} => FALSE
    BY <1>1, <1>2, <1>3 DEF OneThreadEnds, Ending
  <1> QED
    BY <1>2, <1>4 DEF OneThreadEnds

(* ... and all the others.                                                 *)
LEMMA EndRegionStep ==
  ASSUME CountInv, TeamIsSeq, OneThreadEnds, NEW t \in Threads, RegionStep(t)
  PROVE  OneThreadEnds'
  <1>0. pc \in [Threads -> PCs]
    BY DEF CountInv, PCs
  <1>1. CASE ParallelEnd(t)
    BY <1>1, EndTest
  <1>2. CASE ClearArray(t)
    BY <1>2, EndClear
  <1>3. CASE EndProcessing(t) \/ LeaveEnd(t)
    <2>1. /\ pc' = [pc EXCEPT ![t] = pc'[t]] /\ g_array' = g_array /\ Ending(t)
          /\ pc[t] = "endwait" \/ g_array # 0
      BY <1>0, <1>3 DEF EndProcessing, LeaveEnd, Goto, regionVars, Ending
    <2>2. g_array # 0
      BY <2>1 DEF OneThreadEnds
    <2> QED
      BY <1>0, <2>1, <2>2, EndKept
  <1>4. CASE AddWork(t) \/ BodySkip(t) \/ Waiting(t)
    <2>1. pc' = pc /\ g_array' = g_array
      BY <1>4 DEF AddWork, BodySkip, Waiting, regionVars, threadVars
    <2> QED
      BY <2>1, EndKept DEF OneThreadEnds, Ending
  <1>5. CASE \/ StoreTeamSize(t) \/ StartProcessing(t) \/ StartWithoutPool(t)
             \/ AddedAll(t) \/ CountRegion(t) \/ BodyBarrier(t) \/ BodyFork(t)
             \/ WorkerBodyEnds(t) \/ MasterBodyEnds(t) \/ LeaveBarrier(t)
             \/ EndProcessingNull(t) \/ ResetRegion(t) \/ UncountRegion(t)
    <2>1. PICK where \in {"start", "alloc", "adding", "incr", "body", "end", "barrier", "taskwait",
                          "decr", "serial", "undefined"} :
            pc' = [pc EXCEPT ![t] = where]
      BY <1>5 DEF StoreTeamSize, StartProcessing, StartWithoutPool, AddedAll, CountRegion, BodyBarrier,
           BodyFork, ParallelStart, StartOuter, StartNested, WorkerBodyEnds, MasterBodyEnds,
           LeaveBarrier, EndProcessingNull, ResetRegion, UncountRegion, Undefined, Goto
    <2>2. g_array' = g_array \/ StartProcessing(t)
      BY <1>5 DEF StoreTeamSize, StartWithoutPool, AddedAll, CountRegion, BodyBarrier,
           BodyFork, ParallelStart, StartOuter, StartNested, WorkerBodyEnds, MasterBodyEnds,
           LeaveBarrier, EndProcessingNull, ResetRegion, UncountRegion, Undefined, regionVars
    <2>3. StartProcessing(t) => g_array' = region + 1
      BY DEF StartProcessing
    <2>4. g_array # 0 => g_array' # 0
      <3>1. region \in Nat
        BY LenProperties DEF TeamIsSeq, region
      <3> QED
        BY <2>2, <2>3, <3>1
    <2>5. ~Ending(t)' /\ \A q \in Threads \ {t} : pc'[q] = pc[q]
      BY <1>0, <2>1 DEF Ending
    <2> QED
      BY <2>4, <2>5, EndKept DEF Ending
  <1> QED
    BY <1>1, <1>2, <1>3, <1>4, <1>5 DEF RegionStep

(* A worker outside of them, and the master between regions, end none.     *)
LEMMA EndNext == CountInv /\ TeamIsSeq /\ OneThreadEnds /\ [Next]_vars => OneThreadEnds'
  <1> SUFFICES ASSUME CountInv, TeamIsSeq, OneThreadEnds, [Next]_vars PROVE OneThreadEnds'
    OBVIOUS
  <1>0. pc \in [Threads -> PCs] /\ Master \in Threads /\ \A w \in Workers : w \in Threads
    BY MasterAssumption DEF CountInv, PCs
  <1>1. CASE UNCHANGED vars
    BY <1>1 DEF vars, threadVars, regionVars, OneThreadEnds, Ending
  <1>2. ASSUME NEW t \in Threads, RegionStep(t) PROVE OneThreadEnds'
    BY <1>2, EndRegionStep
  <1>3. ASSUME NEW t \in Threads, g_array' = g_array,
               NEW where \in PCs, where \notin {"endprocessing", "endwait", "clear", "reset"},
               pc' = [pc EXCEPT ![t] = where]
        PROVE  OneThreadEnds'
    BY <1>0, <1>3, EndKept DEF Ending
  <1>4. ASSUME pc' = pc, g_array' = g_array PROVE OneThreadEnds'
    BY <1>4 DEF OneThreadEnds, Ending
  <1>5. ASSUME NEW w \in Workers, WorkerStep(w) PROVE OneThreadEnds'
    <2>1. CASE LeaveTask(w) \/ WorkerTakes(w) \/ SetTls(w) \/ SetTlsNull(w)
      <3>1. g_array' = g_array
        BY <2>1 DEF LeaveTask, WorkerTakes, SetTls, SetTlsNull, Undefined, regionVars
      <3>2. PICK where \in {"idle", "tls1", "tls2", "body", "undefined"} : pc' = [pc EXCEPT ![w] = where]
        BY <2>1 DEF LeaveTask, WorkerTakes, SetTls, SetTlsNull, Undefined, Goto
      <3> QED
        BY <1>0, <1>3, <3>1, <3>2 DEF PCs, WorkerOnlyPC, RegionPC
    <2>2. CASE WorkerIdle(w)
      BY <1>4, <2>2 DEF WorkerIdle, regionVars, threadVars
    <2> QED
      BY <1>0, <1>2, <1>5, <2>1, <2>2 DEF WorkerStep
  <1>6. ASSUME MasterStep PROVE OneThreadEnds'
    <2>1. CASE \/ MasterForks
               \/ \E n \in {program[i].n : i \in DOMAIN program} :
                    GrowBegins(n) \/ Shrink(n) \/ ResizeWithoutPool(n)
               \/ GrowFails \/ GrowEnds \/ MasterQuits \/ Destroy \/ DestroyFreed \/ JoinGarbage \/ Free
      <3>1. g_array' = g_array
        BY <2>1 DEF MasterForks, ParallelStart, StartOuter, StartNested, GrowBegins, Shrink,
             ResizeWithoutPool, GrowFails, GrowEnds, SetThreads, MasterQuits, Destroy, DestroyFreed,
             JoinGarbage, Free, Undefined, regionVars
      <3>2. PICK where \in {"start", "incr", "serial", "grow", "destroy", "join", "exited", "undefined"} :
              pc' = [pc EXCEPT ![Master] = where]
        BY <2>1 DEF MasterForks, ParallelStart, StartOuter, StartNested, GrowBegins, Shrink,
             ResizeWithoutPool, GrowFails, GrowEnds, SetThreads, MasterQuits, Destroy, DestroyFreed,
             JoinGarbage, Free, Undefined, Goto
      <3> QED
        BY <1>0, <1>3, <3>1, <3>2 DEF PCs, MasterPC, RegionPC
    <2>2. CASE Grow \/ Join \/ \E n \in {program[i].n : i \in DOMAIN program} : NoChange(n)
      BY <1>4, <2>2 DEF Grow, Join, NoChange, regionVars, threadVars
    <2> QED
      BY <1>0, <1>2, <1>6, <2>1, <2>2 DEF MasterStep
  <1> QED
    BY <1>1, <1>5, <1>6, MasterAssumption DEF Next, ThreadStep

(* GOMP_parallel_end, whatever the program does and however the threads    *)
(* interleave: one thread at a time is in bomp_end_processing, and the     *)
(* array it dereferences before and after its wait is there.               *)
THEOREM RegionEndedByOne == Spec => []OneThreadEnds
  <1>1. Init => OneThreadEnds
    BY MasterAssumption DEF Init, OneThreadEnds, Ending
  <1>2. Init => TeamIsSeq
    <2>1. << >> \in Seq({<< >>[i] : i \in DOMAIN << >>})
      OBVIOUS
    <2> QED
      BY <2>1 DEF Init, TeamIsSeq
  <1> QED
    BY <1>1, <1>2, CountInit, CountNext, TeamNext, EndNext, PTL DEF Spec

-----------------------------------------------------------------------------
(* Places to wait in the body of a region                                  *)

(* A non-empty set of natural numbers has a smallest element.              *)
LEMMA SmallestOf ==
  ASSUME NEW S \in SUBSET Nat, S # {}
  PROVE  \E m \in S : \A k \in S : m <= k
  <1>1. IsWellFoundedOn(OpToRel(<, Nat), Nat)
    BY NatLessThanWellFounded
  <1>2. PICK m \in S : \A k \in S : ~(<<k, m>> \in OpToRel(<, Nat))
    BY <1>1, WFMin
  <1>3. \A k \in S : ~(k < m)
    BY <1>2 DEF OpToRel
  <1> QED
    BY <1>3

(* The places to wait at are the barriers of the body, and its end.        *)
LEMMA Places ==
  ASSUME Cooperative
  PROVE  /\ Len(Body) \in Nat /\ End \in Nat /\ End = Len(Body) + 1
         /\ \A b \in Barriers : b \in 1 .. End
         /\ End \in Barriers
         /\ \A i \in 1 .. Len(Body) : Body[i] \in {"barrier", "master"}
         /\ \A i \in 1 .. Len(Body) : Body[i] = "barrier" <=> i \in Barriers
  <1>1. Body \in Seq({"barrier", "master"})
    BY DEF Cooperative
  <1>2. Len(Body) \in Nat /\ \A i \in 1 .. Len(Body) : Body[i] \in {"barrier", "master"}
    BY <1>1
  <1> QED
    BY <1>2 DEF End, Barriers

(* There is a next place to wait.                                          *)
LEMMA NextExists ==
  ASSUME Cooperative, NEW i \in Nat, i <= End
  PROVE  \E p \in Barriers : NextBarrier(i, p)
  <1> DEFINE S == {b \in Barriers : i <= b}
  <1>1. S \in SUBSET Nat /\ S # {}
    BY Places
  <1>2. PICK p \in S : \A b \in S : p <= b
    BY <1>1, SmallestOf
  <1> QED
    BY <1>2 DEF NextBarrier

(* At a place to wait, and beyond a place that is none                     *)
LEMMA NextAt ==
  ASSUME Cooperative, NEW i \in Nat, NEW p, NextBarrier(i, p)
  PROVE  /\ p \in 1 .. End
         /\ i \in Barriers => i = p
         /\ i \notin Barriers => NextBarrier(i + 1, p)
  <1>1. p \in Barriers /\ i <= p /\ \A b \in Barriers : i <= b => p <= b
    BY DEF NextBarrier
  <1>2. p \in 1 .. End /\ \A b \in Barriers : b \in 1 .. End
    BY <1>1, Places
  <1>3. i \in Barriers => i = p
    BY <1>1, <1>2
  <1>4. ASSUME i \notin Barriers PROVE NextBarrier(i + 1, p)
    <2>1. i # p
      BY <1>1, <1>4
    <2> QED
      BY <1>1, <1>2, <2>1 DEF NextBarrier
  <1> QED
    BY <1>2, <1>3, <1>4

-----------------------------------------------------------------------------
(* The barrier of an open region                                           *)

(* The threads are the workers and the master; there are finitely many.    *)
LEMMA Members ==
  /\ Master \notin Workers /\ Threads = Workers \cup {Master} /\ Master \in Threads
  /\ IsFiniteSet(Threads) /\ IsFiniteSet(Born) /\ IsFiniteSet(Team)
  /\ Born \subseteq Workers /\ Team \subseteq Threads /\ Master \in Team
  /\ Cardinality(Born) \in Nat
  /\ Cardinality(Team) = Cardinality(Born) + 1
  <1>1. Master \notin Workers /\ Threads = Workers \cup {Master} /\ Master \in Threads
    BY MasterAssumption
  <1>2. IsFiniteSet(Threads)
    BY <1>1, WorkersAssumption, FS_AddElement
  <1>3. Born \subseteq Workers /\ IsFiniteSet(Born)
    BY WorkersAssumption, FS_Subset DEF Born
  <1>4. Team = Born \cup {Master} /\ Master \notin Born
    BY <1>1, <1>3 DEF Team
  <1> QED
    BY <1>1, <1>2, <1>3, <1>4, FS_AddElement, FS_CardinalityType

(* A thread in a wait that is not over is at a place to wait in the open   *)
(* region.                                                                 *)
LEMMA Waits ==
  ASSUME Cooperative, IInv, NEW t \in Threads, bpc[t] # "out"
  PROVE  /\ t \in Team /\ pc[t] \in {"barrier", "taskwait", "endwait"} /\ pc[t] # "idle"
         /\ t = Master => pc[t] \in {"barrier", "endwait"}
         /\ t \in Workers => pc[t] \in {"barrier", "taskwait"}
         /\ ip[t] \in Barriers /\ (pc[t] = "barrier" <=> ip[t] # End)
  <1>1. pc[t] \in {"barrier", "taskwait", "endwait"}
    BY DEF IInv, ArrivalInv
  <1>2. ASSUME t \in Workers
        PROVE  pc[t] \in {"barrier", "taskwait"} /\ t \in Born
    <2>1. WorkerInv(t)
      BY <1>2 DEF IInv
    <2>2. pc[t] \in {"barrier", "taskwait"} /\ wpc[t] = "busy"
      BY <1>1, <2>1 DEF WorkerInv
    <2> QED
      BY <1>2, <2>2 DEF Born
  <1>3. t \in Workers \/ t = Master
    BY Members
  <1>4. t = Master => pc[t] \in {"barrier", "endwait"}
    BY <1>1 DEF IInv, MasterInv, MasterPC, RegionPC
  <1>5. /\ pc[t] = "barrier" => NextOp(t) = "barrier"
        /\ pc[t] # "barrier" => ip[t] = End
    BY <1>1, <1>2, <1>3, <1>4 DEF IInv, MasterInv, WorkerInv
  <1>6. ip[t] \in 1 .. Len(Body) + 1
    BY DEF IInv, TypeOK
  <1>7. ip[t] \in Barriers /\ (pc[t] = "barrier" <=> ip[t] # End)
    <2>1. CASE pc[t] = "barrier"
      <3>1. ip[t] <= Len(Body) /\ Body[ip[t]] = "barrier"
        BY <1>5, <2>1 DEF NextOp
      <3> QED
        BY <1>6, <2>1, <3>1, Places
    <2>2. CASE pc[t] # "barrier"
      BY <1>5, <2>2, Places
    <2> QED
      BY <2>1, <2>2
  <1> QED
    BY <1>1, <1>2, <1>3, <1>4, <1>7, Members DEF Team

(* A thread in a wait that is not over is in the open region, and that     *)
(* wait is its next one.                                                   *)
LEMMA Current ==
  ASSUME Cooperative, IInv, NEW t \in Threads, bpc[t] # "out", ~Stale(t)
  PROVE  Opened /\ ~Outside(t) /\ From(t) = ip[t]
  <1>1. Opened
    BY DEF IInv, ArrivalInv
  <1>2. ~Outside(t)
    <2>1. CASE t = Master
      <3>1. pc[Master] \in {"barrier", "endwait"}
        BY <2>1, Waits, Members
      <3> QED
        BY <2>1, <3>1 DEF IInv, MasterInv, Outside
    <2>2. CASE t # Master
      BY <2>2, Waits DEF Outside, Away
    <2> QED
      BY <2>1, <2>2
  <1> QED
    BY <1>1, <1>2 DEF From

(* While the last arriver opens the barrier every thread there is waits at *)
(* the same place, and the workers hold all the region's work items.       *)
LEMMA AllArrived ==
  ASSUME Cooperative, IInv, NEW t \in Threads, Last(t)
  PROVE  /\ Opened /\ Team \ {t} \subseteq Spinning
         /\ \A q \in Team : bpc[q] # "out" /\ ~Stale(q)
         /\ \E p \in Barriers : \A q \in Team : ip[q] = p
         /\ pc[Master] \in {"barrier", "endwait"} /\ Added = team[region] /\ region \in Nat \ {0}
         /\ \A w \in Born : \E k \in 1 .. team[region] - 1 : wtask[w] = <<region, k>>
  <1>1. Team \ {t} \subseteq Spinning /\ bpc[t] # "out" /\ ~Stale(t)
    BY DEF IInv, ArrivalInv, Last, Stale
  <1>2. ASSUME NEW q \in Team PROVE q \in Threads /\ bpc[q] # "out" /\ ~Stale(q)
    BY <1>1, Members DEF Spinning, Stale
  <1>3. Opened
    BY <1>1, Current
  <1>4. PICK p \in Barriers : \A q \in Team : NextBarrier(From(q), p)
    BY <1>3 DEF IInv, PositionInv
  <1>5. ASSUME NEW q \in Team PROVE ip[q] = p
    <2>1. From(q) = ip[q] /\ ip[q] \in Barriers /\ ip[q] \in Nat
      BY <1>2, Current, Waits, Places
    <2> QED
      BY <1>4, <2>1, NextAt
  <1>6. pc[Master] \in {"barrier", "endwait"} /\ Added = team[region]
    <2>1. pc[Master] \in {"barrier", "endwait"}
      BY <1>2, Members, Waits
    <2> QED
      BY <2>1 DEF Added
  <1>7. region \in Nat \ {0}
    BY <1>3 DEF IInv, MasterInv, Opened, TypeOK, region
  <1>8. ASSUME NEW w \in Born
        PROVE  \E k \in 1 .. team[region] - 1 : wtask[w] = <<region, k>>
    <2>1. w \in Team /\ w \in Workers /\ w # Master
      BY Members DEF Team
    <2>2. w \in Threads /\ bpc[w] # "out" /\ ~Stale(w)
      BY <1>2, <2>1
    <2>3. pc[w] # "idle" /\ ~Away(w)
      BY <2>1, <2>2, Current, Waits DEF Outside
    <2>4. HeldInv(w)
      BY <2>1 DEF IInv, WorkInv
    <2> QED
      BY <1>6, <2>3, <2>4 DEF HeldInv
  <1> QED
    BY <1>1, <1>2, <1>3, <1>5, <1>6, <1>7, <1>8

(* The last arriver at the barrier: each work item of the region is held   *)
(* by one of the workers that spin, so the whole team has come.            *)
LEMMA WholeTeam ==
  ASSUME Cooperative, IInv, NEW t \in Threads, Last(t)
  PROVE  /\ \A k \in 1 .. team[region] - 1 :
              \E w \in Born : pc[w] # "idle" /\ wtask[w] = <<region, k>>
         /\ count = 0
  <1> DEFINE n == team[region]
             f == [w \in Born |-> wtask[w][2]]
  <1>1. /\ Opened /\ Added = n /\ pc[Master] \in {"barrier", "endwait"}
        /\ \A w \in Born : \E k \in 1 .. n - 1 : wtask[w] = <<region, k>>
    BY AllArrived
  <1>2. \A w \in Born : pc[w] # "idle" /\ w \in Workers
    BY AllArrived, Waits, Members DEF Team
  <1>3. n \in Nat /\ Cardinality(Born) = n - 1
    <2>1. Inside /\ pool = "live" /\ n = bomp_num_threads
      BY <1>1 DEF IInv, MasterInv, Opened
    <2>2. Up /\ pc[Master] # "grow"
      BY <1>1, <2>1 DEF Up
    <2> QED
      BY <2>1, <2>2 DEF IInv, StaffInv, TypeOK
  <1>4. f \in Injection(Born, 1 .. n - 1)
    <2>1. f \in [Born -> 1 .. n - 1] /\ \A w \in Born : wtask[w] = <<region, f[w]>>
      BY <1>1
    <2>2. \A v, w \in Born : f[v] = f[w] => v = w
      BY <1>2, <2>1 DEF IInv, WorkInv
    <2> QED
      BY <2>1, <2>2 DEF Injection, IsInjective
  <1>5. IsFiniteSet(1 .. n - 1) /\ Cardinality(1 .. n - 1) = n - 1
    <2>1. n - 1 \in Nat
      BY <1>3, Members
    <2>2. \A a, b \in Int : /\ IsFiniteSet(a .. b)
                            /\ Cardinality(a .. b) = IF a > b THEN 0 ELSE b - a + 1
      BY FS_Interval
    <2> QED
      BY <2>1, <2>2
  <1>6. f \in Surjection(Born, 1 .. n - 1)
    BY <1>3, <1>4, <1>5, FS_Injection
  <1>7. ASSUME NEW k \in 1 .. n - 1
        PROVE  \E w \in Born : pc[w] # "idle" /\ wtask[w] = <<region, k>>
    <2>1. PICK w \in Born : f[w] = k
      BY <1>6 DEF Surjection
    <2> QED
      BY <1>1, <1>2, <2>1
  <1>8. count = 0
    <2> SUFFICES ASSUME count # 0 PROVE FALSE
      OBVIOUS
    <2>1. 1 \in 1 .. count
      BY QueueSizeAssumption DEF IInv, TypeOK, PoolTypeOK
    <2>2. PICK k \in 1 .. n - 1 : queue[Slot(head, 1)] = <<region, k>>
      BY <1>1, <2>1 DEF IInv, WorkInv, QueueInv
    <2>3. PICK w \in Born : pc[w] # "idle" /\ wtask[w] = <<region, k>>
      BY <1>7
    <2> QED
      BY <1>2, <2>1, <2>2, <2>3 DEF IInv, WorkInv, QueueInv
  <1> QED
    BY <1>7, <1>8

-----------------------------------------------------------------------------
(* What keeps each part of the invariant                                   *)

(* A worker that runs a region's microtask is in the open region.          *)
LEMMA InRegion ==
  ASSUME Cooperative, IInv, NEW w \in Workers, pc[w] \in {"tls1", "tls2", "body", "barrier"}
  PROVE  /\ Opened /\ Inside /\ ~Away(w) /\ ~Outside(w) /\ w \in Threads /\ w # Master
         /\ Added \in Nat /\ Added <= team[region]
         /\ region \in Nat \ {0} /\ team[region] \in Nat
         /\ g_array = region /\ g_thread_numbers = team[region]
         /\ \E k \in 1 .. Added - 1 :
              wtask[w] = <<region, k>> /\ member(w) = <<region, k>> /\ thread_id(w) = k
  <1>1. ~Away(w) /\ pc[w] # "idle"
    BY DEF Away
  <1>2. w \in Threads /\ w # Master
    BY Members
  <1>3. HeldInv(w)
    BY DEF IInv, WorkInv
  <1>4. Opened /\ Inside
    BY <1>1, <1>3 DEF HeldInv, Opened
  <1>5. PICK k \in 1 .. Added - 1 : wtask[w] = <<region, k>>
    BY <1>1, <1>3 DEF HeldInv
  <1>6. /\ region \in Nat \ {0} /\ team[region] \in Nat
        /\ g_array = region /\ g_thread_numbers = team[region]
    BY <1>4 DEF IInv, MasterInv, TypeOK, region
  <1>7. Added \in Nat /\ Added <= team[region]
    <2>1. CASE pc[Master] = "adding"
      BY <1>6, <2>1, Members DEF Added, IInv, MasterInv, TypeOK
    <2>2. CASE pc[Master] # "adding"
      BY <1>6, <2>2 DEF Added
    <2> QED
      BY <2>1, <2>2
  <1> QED
    BY <1>1, <1>2, <1>4, <1>5, <1>6, <1>7 DEF Outside, member, thread_id

(* Work items stay where they are, or are over.                            *)
LEMMA KeepWork ==
  ASSUME WorkInv, UNCHANGED <<queue, head, tail, count, team>>,
         Opened' <=> Opened, Added' = Added,
         \A w \in Workers : pc'[w] # "idle" =>
           pc[w] # "idle" /\ wtask'[w] = wtask[w] /\ (Away(w)' <=> Away(w))
  PROVE  WorkInv'
  <1> region' = region
    BY DEF region
  <1>1. QueueInv'
    BY DEF WorkInv, QueueInv, RingShape, Slot
  <1>2. ASSUME NEW w \in Workers PROVE HeldInv(w)'
    BY DEF WorkInv, HeldInv
  <1>3. \A v, w \in Workers :
          pc'[v] # "idle" /\ pc'[w] # "idle" /\ wtask'[v] = wtask'[w] => v = w
    BY DEF WorkInv
  <1> QED
    BY <1>1, <1>2, <1>3 DEF WorkInv

(* All threads keep the one next place to wait at.                         *)
LEMMA KeepPosition ==
  ASSUME PositionInv, Opened' => Opened, Team' = Team,
         \A t \in Team : \A p \in Barriers : NextBarrier(From(t), p) => NextBarrier(From(t)', p)
  PROVE  PositionInv'
  <1> SUFFICES ASSUME Opened' PROVE \E p \in Barriers : \A t \in Team' : NextBarrier(From(t), p)'
    BY DEF PositionInv, NextBarrier
  <1>1. PICK p \in Barriers : \A t \in Team : NextBarrier(From(t), p)
    BY DEF PositionInv
  <1>2. ASSUME NEW t \in Team' PROVE NextBarrier(From(t), p)'
    BY <1>1 DEF NextBarrier
  <1> QED
    BY <1>1, <1>2

(* Nobody enters or leaves a wait.                                         *)
LEMMA KeepArrival ==
  ASSUME ArrivalInv, UNCHANGED <<bpc, local, cycle, counter>>,
         ~Opened' => ~Opened, Team' = Team \/ ~Opened,
         \A t \in Threads : pc'[t] \in {"barrier", "taskwait", "endwait"}
                           <=> pc[t] \in {"barrier", "taskwait", "endwait"}
  PROVE  ArrivalInv'
  <1>1. Spinning' = Spinning /\ \A t \in Threads : (Last(t)' <=> Last(t)) /\ (Stale(t)' <=> Stale(t))
    BY DEF Spinning, Last, Stale
  <1>2. ASSUME NEW t \in Threads, Last(t) PROVE Team' \ {t} \subseteq Spinning
    <2>1. Opened
      BY <1>2 DEF ArrivalInv, Last, Stale
    <2> QED
      BY <1>2, <2>1 DEF ArrivalInv
  <1> QED
    BY <1>1, <1>2 DEF ArrivalInv

(* The history grows; whoever enters a wait is on record.                  *)
LEMMA KeepHistory ==
  ASSUME HistoryInv, BarrierSeparates,
         team' = team, done \subseteq done', reached \subseteq reached',
         ~Opened' => ~Opened,
         \A c \in crossed' : c \in crossed \/
           /\ c[1][1] = region /\ region \in Nat \ {0}
           /\ \A i \in 0 .. team[region] - 1 : <<<<region, i>>, c[2]>> \in reached',
         \A w \in Workers : pc'[w] = "taskwait" =>
           wtask'[w] \in done' \/ (pc[w] = "taskwait" /\ wtask'[w] = wtask[w]),
         \A t \in Threads : pc'[t] = "barrier" =>
           \/ /\ <<member(t)', ip'[t]>> \in reached'
              /\ Stale(t)' => \A i \in 0 .. team[region] - 1 : <<<<region, i>>, ip'[t]>> \in reached'
           \/ pc[t] = "barrier" /\ ip'[t] = ip[t] /\ member(t)' = member(t) /\ (Stale(t)' => Stale(t))
  PROVE  HistoryInv' /\ BarrierSeparates'
  <1> region' = region
    BY DEF region
  <1>1. BarrierSeparates'
    BY DEF BarrierSeparates
  <1>2. \A r \in 1 .. region' : r < region' \/ ~Opened' =>
          \A i \in 1 .. team'[r] - 1 : <<r, i>> \in done'
    BY DEF HistoryInv
  <1>3. \A w \in Workers : pc'[w] = "taskwait" => wtask'[w] \in done'
    BY DEF HistoryInv
  <1>4. \A t \in Threads : pc'[t] = "barrier" => <<member(t)', ip'[t]>> \in reached'
    BY DEF HistoryInv
  <1>5. ASSUME NEW t \in Threads, pc'[t] = "barrier", Stale(t)'
        PROVE  \A i \in 0 .. team'[region'] - 1 : <<<<region', i>>, ip'[t]>> \in reached'
    BY <1>5 DEF HistoryInv
  <1>6. \A c \in crossed' : c[1][1] \in 1 .. region'
    BY DEF HistoryInv
  <1> QED
    BY <1>1, <1>2, <1>3, <1>4, <1>5, <1>6 DEF HistoryInv

-----------------------------------------------------------------------------
(* Waits, of the master and of the workers alike                           *)

Waitpoint == {"barrier", "taskwait", "endwait"}

(* Entering a wait of the open region                                      *)
LEMMA EnterArrival ==
  ASSUME TypeOK, ArrivalInv, NEW t \in Team, t \in Threads, bpc[t] = "out",
         bpc' = [bpc EXCEPT ![t] = "add"], local' = [local EXCEPT ![t] = cycle],
         UNCHANGED <<cycle, counter>>, Opened, Opened', Team' = Team,
         pc'[t] \in Waitpoint, \A q \in Threads \ {t} : pc'[q] = pc[q]
  PROVE  /\ ArrivalInv'
         /\ \A q \in Threads : Stale(q)' <=> Stale(q)
  <1> USE DEF TypeOK, BarrierTypeOK
  <1>1. ASSUME NEW q \in Threads PROVE ~Last(q)
    BY DEF ArrivalInv, Last, Spinning
  <1>2. \A q \in Threads : (Stale(q)' <=> Stale(q)) /\ ~Last(q)'
    BY <1>1 DEF Stale, Last
  <1>3. Spinning' = Spinning
    BY DEF Spinning
  <1>4. counter = Cardinality(Spinning)
    BY <1>1 DEF ArrivalInv, Last
  <1>5. /\ \A q \in Threads : bpc'[q] = "out" <=> pc'[q] \notin Waitpoint
        /\ \A q \in Threads : bpc'[q] \in {"add", "reset", "toggle"} => local'[q] = cycle'
        /\ \A q \in Threads : bpc'[q] = "store" => local'[q] = 1 - cycle'
    BY DEF ArrivalInv, Waitpoint
  <1> QED
    BY <1>2, <1>3, <1>4, <1>5 DEF ArrivalInv, Waitpoint

(* Everyone in a wait of the open region is counted, and max is the number *)
(* of threads there are.                                                   *)
LEMMA TeamSize ==
  ASSUME Cooperative, IInv, Opened
  PROVE  /\ max = Cardinality(Team) /\ Spinning \subseteq Team
         /\ team[region] = bomp_num_threads /\ bomp_num_threads = max
  <1>1. pool = "live" /\ Up /\ pc[Master] # "grow" /\ Tuned /\ team[region] = bomp_num_threads
    BY DEF IInv, MasterInv, Opened, Inside, Up
  <1>2. Cardinality(Born) = bomp_num_threads - 1 /\ bomp_num_threads \in Nat
    BY <1>1 DEF IInv, StaffInv, TypeOK
  <1>3. ASSUME NEW q \in Spinning PROVE q \in Team
    <2>1. q \in Threads /\ bpc[q] # "out"
      BY DEF Spinning
    <2> QED
      BY <2>1, Waits
  <1> QED
    BY <1>1, <1>2, <1>3, Members DEF Tuned

(* A step inside a wait                                                    *)
LEMMA WaitEffect ==
  ASSUME Cooperative, IInv, NEW t \in Threads, Waiting(t)
  PROVE  /\ bpc[t] # "out" /\ ~Stale(t) /\ ~Stale(t)' /\ BarrierTypeOK'
         /\ \A q \in Threads \ {t} : bpc'[q] = bpc[q] /\ local'[q] = local[q]
         /\ cycle' = cycle /\ max' = max
  <1> USE DEF IInv, TypeOK, BarrierTypeOK, BarrierPC
  <1>1. CASE FetchAndAdd(t)
    BY <1>1 DEF FetchAndAdd, ArrivalInv, Stale
  <1>2. CASE ResetCounter(t)
    BY <1>2 DEF ResetCounter, Stale
  <1>3. CASE LoadCycle(t)
    BY <1>3 DEF LoadCycle, Stale
  <1> QED
    BY <1>1, <1>2, <1>3 DEF Waiting, WaitStep

(* Inside a wait: the last arriver is the one that finds max - 1.          *)
LEMMA WaitArrival ==
  ASSUME Cooperative, IInv, NEW t \in Threads, Waiting(t),
         Opened' <=> Opened, Team' = Team
  PROVE  ArrivalInv'
  <1> USE DEF IInv, TypeOK, BarrierTypeOK
  <1>0. pc' = pc /\ cycle' = cycle /\ max' = max
    BY DEF Waiting, threadVars, WaitStep, FetchAndAdd, ResetCounter, LoadCycle
  <1>1. bpc[t] \in {"add", "reset", "toggle"} /\ bpc[t] # "out" /\ ~Stale(t)
    BY DEF Waiting, WaitStep, FetchAndAdd, ResetCounter, LoadCycle, Stale
  <1>2. Opened /\ t \in Team
    BY <1>1, Waits, Current
  <1>3. ASSUME NEW q \in Threads, q # t PROVE ~Last(q)
    <2> SUFFICES ASSUME Last(q) PROVE FALSE
      OBVIOUS
    <2>1. t \in Spinning
      BY <1>2, <1>3 DEF ArrivalInv
    <2> QED
      BY <1>1, <2>1 DEF Spinning
  <1>4. \A q \in Threads \ {t} : bpc'[q] = bpc[q] /\ local'[q] = local[q]
    BY DEF Waiting, WaitStep, FetchAndAdd, ResetCounter, LoadCycle
  <1>5. t \notin Spinning
    BY <1>1 DEF Spinning
  <1>6. IsFiniteSet(Spinning) /\ Cardinality(Spinning) \in Nat
    BY Members, FS_Subset, FS_CardinalityType DEF Spinning
  <1>7. CASE FetchAndAdd(t)
    <2>1. ~Last(t) /\ counter = Cardinality(Spinning) /\ local[t] = cycle
      BY <1>3, <1>7 DEF FetchAndAdd, ArrivalInv, Last
    <2>2. CASE counter = max - 1
      <3>1. bpc' = [bpc EXCEPT ![t] = "reset"] /\ local' = local
        BY <1>7, <2>2 DEF FetchAndAdd
      <3>2. Spinning' = Spinning
        BY <1>0, <1>5, <3>1 DEF Spinning
      <3>3. Spinning = Team \ {t}
        <4>1. Spinning \subseteq Team \ {t} /\ max = Cardinality(Team)
          BY <1>2, <1>5, TeamSize
        <4>2. IsFiniteSet(Team \ {t}) /\ Cardinality(Team \ {t}) = max - 1
          BY <1>2, <4>1, Members, FS_RemoveElement
        <4> QED
          BY <2>1, <2>2, <4>1, <4>2, FS_Subset
      <3>4. \A q \in Threads : Last(q)' => q = t
        BY <1>3, <1>4 DEF Last
      <3>5. /\ \A q \in Threads : bpc'[q] = "out" <=> bpc[q] = "out"
            /\ \A q \in Threads : bpc'[q] \in {"add", "reset", "toggle"} => local'[q] = cycle'
            /\ \A q \in Threads : bpc'[q] = "store" => local'[q] = 1 - cycle'
            /\ bpc'[t] = "reset"
        BY <1>0, <1>7, <2>1, <3>1 DEF ArrivalInv, FetchAndAdd
      <3>6. \A q \in Threads : Last(q)' => Team' \ {q} \subseteq Spinning'
        BY <3>2, <3>3, <3>4
      <3> QED
        BY <1>0, <1>2, <3>5, <3>6 DEF ArrivalInv
    <2>3. CASE counter # max - 1
      <3>1. bpc' = [bpc EXCEPT ![t] = "spin"] /\ local' = local /\ counter' = counter + 1
        BY <1>7, <2>3 DEF FetchAndAdd
      <3>2. Spinning' = Spinning \cup {t}
        BY <1>0, <2>1, <3>1 DEF Spinning
      <3>3. counter' = Cardinality(Spinning')
        BY <1>5, <1>6, <2>1, <3>1, <3>2, FS_AddElement
      <3>4. \A q \in Threads : ~Last(q)'
        BY <1>3, <3>1 DEF Last
      <3>5. /\ \A q \in Threads : bpc'[q] = "out" <=> bpc[q] = "out"
            /\ \A q \in Threads : bpc'[q] \in {"add", "reset", "toggle"} => local'[q] = cycle'
            /\ \A q \in Threads : bpc'[q] = "store" => local'[q] = 1 - cycle'
        BY <1>0, <1>7, <3>1 DEF ArrivalInv, FetchAndAdd
      <3> QED
        BY <1>0, <1>2, <3>3, <3>4, <3>5 DEF ArrivalInv
    <2> QED
      BY <2>2, <2>3
  <1>8. CASE ResetCounter(t) \/ LoadCycle(t)
    <2>1. Last(t)
      BY <1>8 DEF ResetCounter, LoadCycle, Last
    <2>2. Spinning' = Spinning
      BY <1>0, <1>4, <1>5, <1>8 DEF Spinning, ResetCounter, LoadCycle
    <2>3. bpc'[t] \in {"toggle", "store"} /\ counter' = 0
      <3>1. CASE ResetCounter(t)
        BY <3>1 DEF ResetCounter
      <3>2. CASE LoadCycle(t)
        <4>1. bpc[t] = "toggle" /\ bpc'[t] = "store" /\ counter' = counter
          BY <3>2 DEF LoadCycle
        <4>2. \A q \in Threads : bpc[q] # "reset"
          BY <1>3, <4>1 DEF Last
        <4> QED
          BY <2>1, <4>1, <4>2 DEF ArrivalInv
      <3> QED
        BY <1>8, <3>1, <3>2
    <2>4. /\ bpc'[t] = "toggle" => local'[t] = cycle'
          /\ bpc'[t] = "store" => local'[t] = 1 - cycle'
      BY <1>0, <1>8 DEF ResetCounter, LoadCycle, ArrivalInv
    <2>5. \A q \in Threads : Last(q)' => q = t
      BY <1>3, <1>4 DEF Last
    <2>6. Team \ {t} \subseteq Spinning
      BY <2>1 DEF ArrivalInv
    <2>7. \A q \in Threads : bpc'[q] = "out" <=> bpc[q] = "out"
      BY <1>1, <1>4, <2>3
    <2> QED
      BY <1>0, <1>2, <1>4, <2>2, <2>3, <2>4, <2>5, <2>6, <2>7 DEF ArrivalInv
  <1> QED
    BY <1>7, <1>8 DEF Waiting, WaitStep

(* A thread sees that its wait is over.                                    *)
LEMMA ExitArrival ==
  ASSUME TypeOK, ArrivalInv, NEW t \in Threads, SpinExit(t),
         ~Opened' => ~Opened, Team' = Team,
         pc'[t] \notin Waitpoint, \A q \in Threads \ {t} : pc'[q] = pc[q]
  PROVE  ArrivalInv'
  <1> USE DEF TypeOK, BarrierTypeOK, SpinExit
  <1>1. Spinning' = Spinning
    BY DEF Spinning
  <1>2. \A q \in Threads : Last(q)' <=> Last(q)
    BY DEF Last
  <1>3. \A q \in Threads : bpc'[q] = "out" \/ (bpc'[q] = bpc[q] /\ (Stale(q)' <=> Stale(q)))
    BY DEF Stale
  <1>4. \A q \in Threads : bpc'[q] = "out" <=> pc'[q] \notin Waitpoint
    BY DEF ArrivalInv, Waitpoint
  <1>5. \A q \in Threads : /\ bpc'[q] = "reset" <=> bpc[q] = "reset"
                           /\ bpc'[q] \in {"toggle", "store"} <=> bpc[q] \in {"toggle", "store"}
    OBVIOUS
  <1> QED
    BY <1>1, <1>2, <1>3, <1>4, <1>5 DEF ArrivalInv, Waitpoint

(* The barrier opens: every other thread's wait is over.                   *)
LEMMA OpenArrival ==
  ASSUME Cooperative, IInv, NEW t \in Threads, StoreCycle(t), Team' = Team,
         pc'[t] \notin Waitpoint, \A q \in Threads \ {t} : pc'[q] = pc[q]
  PROVE  /\ ArrivalInv' /\ cycle' = 1 - cycle
         /\ \A q \in Team \ {t} : Stale(q)'
         /\ \A q \in Threads : bpc'[q] = "out" \/ Stale(q)'
         /\ bpc'[t] = "out" /\ Last(t)
  <1> USE DEF IInv, TypeOK, BarrierTypeOK
  <1>1. Last(t) /\ cycle' = 1 - cycle /\ bpc' = [bpc EXCEPT ![t] = "out"]
        /\ local' = local /\ counter' = counter
    BY DEF StoreCycle, Last, ArrivalInv
  <1>2. \A q \in Team \ {t} : q \in Threads /\ bpc[q] = "spin" /\ local[q] = cycle
    BY <1>1, Members DEF ArrivalInv, Spinning
  <1>3. \A q \in Team \ {t} : Stale(q)'
    BY <1>1, <1>2 DEF Stale
  <1>4. \A q \in Threads : q \in Team \/ bpc[q] = "out"
    BY Waits
  <1>5. \A q \in Threads : bpc'[q] = "out" \/ (bpc'[q] = "spin" /\ Stale(q)')
    BY <1>1, <1>2, <1>3, <1>4
  <1>6. \A q \in Threads : ~Last(q)'
    BY <1>5 DEF Last
  <1>7. Spinning' = {}
    BY <1>5 DEF Spinning, Stale
  <1>8. counter = 0
    <2>1. \A q \in Threads : bpc[q] # "reset"
      BY <1>2, <1>4 DEF StoreCycle
    <2> QED
      BY <1>1, <2>1 DEF ArrivalInv
  <1>9. \A q \in Threads : bpc'[q] = "out" <=> pc'[q] \notin Waitpoint
    BY <1>1 DEF ArrivalInv, Waitpoint
  <1>10. ArrivalInv'
    BY <1>1, <1>5, <1>6, <1>7, <1>8, <1>9, FS_EmptySet DEF ArrivalInv, Waitpoint
  <1> QED
    BY <1>1, <1>3, <1>5, <1>10

-----------------------------------------------------------------------------
(* The workers                                                             *)

(* What a worker can do: no nested regions, and the globals are there.     *)
LEMMA WorkerSteps ==
  ASSUME Cooperative, IInv, NEW w \in Workers, WorkerStep(w)
  PROVE  \/ BodyBarrier(w) \/ WorkerBodyEnds(w) \/ Waiting(w)
         \/ LeaveBarrier(w) \/ LeaveTask(w)
         \/ BodySkip(w) \/ SetTls(w) \/ WorkerIdle(w) \/ WorkerTakes(w)
  <1>1. w # Master /\ w \in Threads /\ pc[w] \in {"idle", "tls1", "tls2", "body", "barrier", "taskwait"}
    BY Members DEF IInv, WorkerInv
  <1>2. ~SetTlsNull(w)
    <2> SUFFICES ASSUME pc[w] \in {"tls1", "tls2"} PROVE g_array # 0
      BY DEF SetTlsNull
    <2> QED
      BY InRegion
  <1>3. ~BodyFork(w)
    <2> SUFFICES ASSUME pc[w] = "body"
                 PROVE  NextOp(w) # "nested" /\ (NextOp(w) = "master" => thread_id(w) # 0)
      BY DEF BodyFork
    <2>1. thread_id(w) # 0
      BY InRegion
    <2>2. ip[w] \in 1 .. Len(Body) + 1
      BY <1>1 DEF IInv, TypeOK
    <2>3. NextOp(w) \in {"barrier", "master", "return"}
      BY <2>2, Places DEF NextOp
    <2> QED
      BY <2>1, <2>3
  <1>4. ~(\/ StoreTeamSize(w) \/ StartProcessing(w) \/ StartWithoutPool(w) \/ ClearArray(w)
          \/ AddWork(w) \/ AddedAll(w) \/ CountRegion(w) \/ MasterBodyEnds(w)
          \/ ParallelEnd(w) \/ EndProcessing(w) \/ EndProcessingNull(w)
          \/ LeaveEnd(w) \/ ResetRegion(w) \/ UncountRegion(w))
    BY <1>1 DEF StoreTeamSize, StartProcessing, StartWithoutPool, ClearArray, AddWork, AddedAll,
         CountRegion, MasterBodyEnds, ParallelEnd, EndProcessing, EndProcessingNull, LeaveEnd, ResetRegion, UncountRegion
  <1> QED
    BY <1>2, <1>3, <1>4 DEF WorkerStep, RegionStep

(* What it leaves alone.                                                   *)
WorkerFrame(w) ==
  /\ UNCHANGED <<pool, shutdown, thread_count, threads, bomp_num_threads, g_thread_numbers,
                 nested, g_array, index, own, program, team, max>>
  /\ \A t \in Threads \ {w} : /\ pc'[t] = pc[t] /\ ip'[t] = ip[t] /\ depth'[t] = depth[t]
                               /\ bpc'[t] = bpc[t] /\ local'[t] = local[t]
  /\ \A v \in Workers \ {w} : wpc'[v] = wpc[v] /\ wtask'[v] = wtask[v]
  /\ wpc[w] # "unborn" /\ wpc'[w] # "unborn"

(* A worker's step leaves the other threads' parts of the invariant alone. *)
LEMMA FrameKept ==
  ASSUME IInv, NEW w \in Workers, WorkerFrame(w)
  PROVE  /\ w \in Threads /\ w # Master /\ w \in Team
         /\ Born' = Born /\ Team' = Team
         /\ (Inside' <=> Inside) /\ Added' = Added /\ region' = region
         /\ ProgramInv' /\ MasterInv'
         /\ \A v \in Workers \ {w} : WorkerInv(v)'
         /\ \A t \in Threads \ {w} : member(t)' = member(t)
         /\ started' = started /\ (wpc'[w] = "exited" <=> wpc[w] = "exited") => StaffInv'
         /\ cycle' = cycle =>
              /\ Opened' <=> Opened
              /\ \A t \in Threads \ {w} :
                   /\ Stale(t)' <=> Stale(t)
                   /\ From(t)' = From(t)
              /\ \A v \in Workers \ {w} : Away(v)' <=> Away(v)
  <1> USE DEF WorkerFrame
  <1>1. w \in Threads /\ w # Master /\ Master \in Threads \ {w}
    BY Members
  <1>2. Born' = Born
    BY DEF Born
  <1>3. Team' = Team /\ w \in Team
    BY <1>2 DEF Team, Born
  <1>4. pc'[Master] = pc[Master] /\ ip'[Master] = ip[Master] /\ depth'[Master] = depth[Master]
    BY <1>1
  <1>5. (Inside' <=> Inside) /\ Added' = Added /\ region' = region
    BY <1>4 DEF Inside, Added, region
  <1>6. ProgramInv'
    BY <1>4 DEF IInv, ProgramInv, Up, Tuned
  <1>7. MasterInv'
    BY <1>4, <1>5 DEF IInv, MasterInv, Tuned, NextOp
  <1>8. ASSUME NEW v \in Workers \ {w} PROVE WorkerInv(v)'
    <2>1. WorkerInv(v) /\ v \in Threads \ {w}
      BY Members DEF IInv
    <2> QED
      BY <2>1 DEF WorkerInv, NextOp
  <1>9. \A t \in Threads \ {w} : member(t)' = member(t)
    BY <1>5, Members DEF member, thread_id
  <1>10. ASSUME started' = started, wpc'[w] = "exited" <=> wpc[w] = "exited"
         PROVE  StaffInv'
    <2>1. \A v \in Workers : wpc'[v] = "exited" <=> wpc[v] = "exited"
      BY <1>10
    <2>2. {v \in Born : wpc[v] # "exited"}' = {v \in Born : wpc[v] # "exited"}
      BY <1>2, <2>1, Members
    <2>3. \A i \in 1 .. thread_count : pool = "live" => threads[i] \in Workers
      BY Members DEF IInv, StaffInv
    <2>4. ASSUME pc[Master] = "join", pool = "live"
          PROVE  /\ index[Master] <= thread_count
                 /\ \A i \in 1 .. index[Master] : wpc'[threads[i]] = "exited"
      <3>1. index[Master] \in Nat /\ thread_count \in Nat
        BY Members DEF IInv, TypeOK, PoolTypeOK
      <3> QED
        BY <2>1, <2>3, <2>4, <3>1 DEF IInv, StaffInv
    <2> QED
      BY <1>2, <1>4, <1>10, <2>2, <2>4 DEF IInv, StaffInv, Up
  <1>11. ASSUME cycle' = cycle
         PROVE  /\ Opened' <=> Opened
                /\ \A t \in Threads \ {w} :
                     /\ Stale(t)' <=> Stale(t)
                     /\ From(t)' = From(t)
                /\ \A v \in Workers \ {w} : Away(v)' <=> Away(v)
    <2>1. \A t \in Threads \ {w} : Stale(t)' <=> Stale(t)
      BY <1>11 DEF Stale
    <2>2. Opened' <=> Opened
      BY <1>1, <1>4, <1>5, <2>1 DEF Opened
    <2>3. ASSUME NEW t \in Threads \ {w} PROVE Away(t)' <=> Away(t)
      BY <2>1 DEF Away
    <2>4. ASSUME NEW t \in Threads \ {w} PROVE From(t)' = From(t)
      BY <2>1, <2>3 DEF From, Outside
    <2> QED
      BY <2>1, <2>2, <2>3, <2>4, Members
  <1> QED
    BY <1>1, <1>2, <1>3, <1>5, <1>6, <1>7, <1>8, <1>9, <1>10, <1>11

(* A step of worker w that takes no work item and does not open the        *)
(* barrier                                                                 *)
LEMMA WorkerKeeps ==
  ASSUME Cooperative, IInv, NEW w \in Workers, WorkerFrame(w), TypeOK', StaffInv',
         WorkerInv(w)', ArrivalInv', UNCHANGED <<cycle, queue, head, tail, count>>,
         pc'[w] # "idle" => pc[w] # "idle" /\ wtask'[w] = wtask[w] /\ (Away(w)' <=> Away(w)),
         \A p \in Barriers : NextBarrier(From(w), p) => NextBarrier(From(w)', p),
         done \subseteq done', reached \subseteq reached',
         \A c \in crossed' : c \in crossed \/
           /\ c[1][1] = region /\ region \in Nat \ {0}
           /\ \A i \in 0 .. team[region] - 1 : <<<<region, i>>, c[2]>> \in reached',
         pc'[w] = "taskwait" =>
           wtask'[w] \in done' \/ (pc[w] = "taskwait" /\ wtask'[w] = wtask[w]),
         pc'[w] = "barrier" =>
           \/ <<member(w)', ip'[w]>> \in reached' /\ ~Stale(w)'
           \/ pc[w] = "barrier" /\ ip'[w] = ip[w] /\ member(w)' = member(w) /\ (Stale(w)' => Stale(w))
  PROVE  IInv'
  <1>1. ProgramInv' /\ MasterInv' /\ \A v \in Workers : WorkerInv(v)'
    BY FrameKept
  <1>2. WorkInv'
    <2>1. WorkInv /\ team' = team /\ Added' = Added /\ (Opened' <=> Opened)
      BY FrameKept DEF IInv, WorkerFrame
    <2>2. ASSUME NEW v \in Workers, pc'[v] # "idle"
          PROVE  pc[v] # "idle" /\ wtask'[v] = wtask[v] /\ (Away(v)' <=> Away(v))
      BY <2>2, FrameKept, Members DEF WorkerFrame
    <2> QED
      BY <2>1, <2>2, KeepWork
  <1>3. PositionInv'
    <2>1. ASSUME NEW t \in Team, NEW p \in Barriers, NextBarrier(From(t), p)
          PROVE  NextBarrier(From(t)', p)
      <3>1. t \in Threads /\ (t # w => From(t)' = From(t))
        BY FrameKept, Members
      <3> QED
        BY <2>1, <3>1
    <2> QED
      BY <2>1, FrameKept, KeepPosition DEF IInv
  <1>4. HistoryInv' /\ BarrierSeparates'
    <2>1. HistoryInv /\ BarrierSeparates /\ team' = team /\ (Opened' <=> Opened)
      BY FrameKept DEF IInv, WorkerFrame
    <2>2. \A v \in Workers : pc'[v] = "taskwait" =>
            wtask'[v] \in done' \/ (pc[v] = "taskwait" /\ wtask'[v] = wtask[v])
      BY Members DEF WorkerFrame
    <2>3. ASSUME NEW t \in Threads, pc'[t] = "barrier"
          PROVE  \/ <<member(t)', ip'[t]>> \in reached' /\ ~Stale(t)'
                 \/ /\ pc[t] = "barrier" /\ ip'[t] = ip[t] /\ member(t)' = member(t)
                    /\ (Stale(t)' => Stale(t))
      <3>1. CASE t = w
        BY <2>3, <3>1
      <3>2. CASE t # w
        BY <2>3, <3>2, FrameKept DEF WorkerFrame
      <3> QED
        BY <3>1, <3>2
    <2> QED
      BY <2>1, <2>2, <2>3, KeepHistory
  <1> QED
    BY <1>1, <1>2, <1>3, <1>4 DEF IInv

(* A worker enters a wait.                                                 *)
LEMMA WorkerWaits ==
  ASSUME Cooperative, IInv, NEW w \in Workers, BodyBarrier(w) \/ WorkerBodyEnds(w)
  PROVE  IInv'
  <1>0. w \in Threads /\ w # Master
    BY Members
  <1>1. pc[w] = "body" /\ wpc[w] = "busy" /\ bpc[w] = "out" /\ ip[w] \in 1 .. End
    BY <1>0, Places DEF BodyBarrier, WorkerBodyEnds, IInv, WorkerInv, ArrivalInv, TypeOK
  <1>2. PICK where \in {"barrier", "taskwait"} :
          /\ pc' = [pc EXCEPT ![w] = where]
          /\ where = "barrier" => NextOp(w) = "barrier" /\ <<member(w), ip[w]>> \in reached'
          /\ where = "taskwait" => ip[w] = End /\ member(w) \in done'
    <2>1. NextOp(w) = "return" => ip[w] = End
      BY <1>1, Places DEF NextOp
    <2> QED
      BY <2>1, <1>0 DEF BodyBarrier, WorkerBodyEnds, Goto
  <1>3. /\ bpc' = [bpc EXCEPT ![w] = "add"] /\ local' = [local EXCEPT ![w] = cycle]
        /\ UNCHANGED <<poolVars, regionVars, max, cycle, counter, ip, depth, index, own,
                       program, team, crossed>>
        /\ done \subseteq done' /\ reached \subseteq reached'
    BY DEF BodyBarrier, WorkerBodyEnds, ReadCycle
  <1>4. TypeOK'
    BY <1>0, <1>2, <1>3 DEF IInv, TypeOK, PoolTypeOK, BarrierTypeOK, BarrierPC, poolVars, regionVars,
         WorkerOnlyPC, RegionPC, region
  <1>5. WorkerFrame(w) /\ wpc' = wpc /\ started' = started
    BY <1>0, <1>1, <1>2, <1>3 DEF WorkerFrame, poolVars, regionVars, IInv, TypeOK, PoolTypeOK, BarrierTypeOK
  <1>6. pc'[w] = where /\ ip'[w] = ip[w] /\ wtask'[w] = wtask[w] /\ member(w)' = member(w)
    <2>1. pc \in [Threads -> PCs]
      BY DEF IInv, TypeOK, PCs
    <2> QED
      BY <1>0, <1>2, <1>3, <2>1, FrameKept, <1>5 DEF poolVars, member, thread_id
  <1>7. ~Stale(w) /\ ~Stale(w)' /\ ~Away(w) /\ ~Away(w)' /\ From(w)' = From(w)
    <2>1. ~Stale(w) /\ ~Stale(w)'
      BY <1>0, <1>1, <1>3 DEF Stale, IInv, TypeOK, BarrierTypeOK
    <2> QED
      BY <1>0, <1>1, <1>6, <2>1 DEF Away, From, Outside
  <1>8. Opened /\ Opened' /\ wtask[w] = member(w)
    <2>1. Opened
      BY <1>1, InRegion
    <2> QED
      BY <1>1, <1>3, <1>5, <2>1, InRegion, FrameKept
  <1>9. WorkerInv(w)'
    BY <1>1, <1>2, <1>3, <1>5, <1>6 DEF WorkerInv, NextOp
  <1>10. StaffInv'
    BY <1>5, FrameKept
  <1>11. ArrivalInv'
    <2>1. TypeOK /\ ArrivalInv /\ w \in Team /\ Team' = Team /\ pc'[w] \in Waitpoint
      BY <1>5, <1>6, FrameKept DEF IInv, Waitpoint
    <2>2. \A q \in Threads \ {w} : pc'[q] = pc[q]
      BY <1>5 DEF WorkerFrame
    <2> QED
      BY <1>0, <1>1, <1>3, <1>8, <2>1, <2>2, EnterArrival
  <1>12. UNCHANGED <<cycle, queue, head, tail, count>> /\ \A c \in crossed' : c \in crossed
    BY <1>3 DEF poolVars
  <1> QED
    BY <1>1, <1>2, <1>3, <1>4, <1>5, <1>6, <1>7, <1>8, <1>9, <1>10, <1>11, <1>12, WorkerKeeps

(* A worker is inside a wait.                                              *)
LEMMA WorkerWaiting ==
  ASSUME Cooperative, IInv, NEW w \in Workers, Waiting(w)
  PROVE  IInv'
  <1>0. w \in Threads /\ w # Master
    BY Members
  <1>1. /\ bpc[w] # "out" /\ ~Stale(w) /\ ~Stale(w)' /\ BarrierTypeOK'
        /\ \A q \in Threads \ {w} : bpc'[q] = bpc[q] /\ local'[q] = local[q]
        /\ cycle' = cycle /\ max' = max
    BY <1>0, WaitEffect
  <1>2. UNCHANGED <<poolVars, regionVars, threadVars, program, history>> /\ pc[w] # "idle"
    BY <1>0, <1>1, Waits DEF Waiting
  <1>3. TypeOK'
    BY <1>1, <1>2 DEF IInv, TypeOK, PoolTypeOK, poolVars, regionVars, threadVars, history, region
  <1>4. wpc[w] = "busy" /\ WorkerInv(w)
    BY <1>2 DEF IInv, WorkerInv
  <1>5. WorkerFrame(w) /\ started' = started /\ wpc' = wpc
    BY <1>1, <1>2, <1>4 DEF WorkerFrame, poolVars, regionVars, threadVars, history
  <1>7. (Away(w)' <=> Away(w)) /\ From(w)' = From(w) /\ WorkerInv(w)'
    BY <1>0, <1>1, <1>2, <1>4 DEF Away, From, Outside, threadVars, poolVars, WorkerInv, NextOp
  <1>8. StaffInv' /\ ArrivalInv'
    BY <1>0, <1>1, <1>5, FrameKept, WaitArrival
  <1>9. UNCHANGED <<cycle, queue, head, tail, count, crossed, done, reached, pc, ip, wtask>>
        /\ member(w)' = member(w)
    BY <1>1, <1>2 DEF poolVars, threadVars, history, member, thread_id, region
  <1> QED
    BY <1>1, <1>2, <1>3, <1>5, <1>7, <1>8, <1>9, WorkerKeeps

(* A worker goes on in its microtask.                                      *)
LEMMA WorkerMoves ==
  ASSUME Cooperative, IInv, NEW w \in Workers, BodySkip(w) \/ SetTls(w)
  PROVE  IInv'
  <1>0. w \in Threads /\ w # Master
    BY Members
  <1>1. /\ pc[w] \in {"tls1", "tls2", "body"} /\ wpc[w] = "busy" /\ bpc[w] = "out"
        /\ UNCHANGED <<poolVars, barrierVars, regionVars, depth, index, own, program, history>>
    BY <1>0 DEF BodySkip, SetTls, IInv, WorkerInv, ArrivalInv
  <1>2. PICK where \in {"tls2", "body"}, i \in 1 .. End :
          /\ pc' = [pc EXCEPT ![w] = where] /\ ip' = [ip EXCEPT ![w] = i]
          /\ where = "tls2" => i = 1
          /\ i = ip[w] \/ (ip[w] \notin Barriers /\ i = ip[w] + 1)
    <2>1. ip[w] \in 1 .. End /\ pc \in [Threads -> PCs] /\ ip \in [Threads -> 1 .. End]
      BY <1>0, Places DEF IInv, TypeOK, PCs
    <2>2. CASE BodySkip(w)
      <3>1. Body[ip[w]] = "master" /\ ip[w] \in 1 .. Len(Body)
        BY <2>1, <2>2, Places DEF BodySkip, NextOp
      <3>2. ip[w] \notin Barriers /\ ip[w] + 1 \in 1 .. End
        BY <2>1, <3>1, Places
      <3>3. ip' = [ip EXCEPT ![w] = ip[w] + 1] /\ pc' = [pc EXCEPT ![w] = "body"]
        BY <1>0, <2>1, <2>2 DEF BodySkip
      <3> QED
        BY <3>2, <3>3
    <2>3. CASE SetTls(w)
      <3>1. ip' = [ip EXCEPT ![w] = ip[w]]
        BY <1>0, <2>1, <2>3 DEF SetTls
      <3>2. WorkerInv(w)
        BY DEF IInv
      <3> QED
        BY <2>1, <2>3, <3>1, <3>2 DEF SetTls, Goto, WorkerInv
    <2> QED
      BY <2>2, <2>3
  <1>3. TypeOK'
    BY <1>0, <1>1, <1>2, Places DEF IInv, TypeOK, PoolTypeOK, BarrierTypeOK, poolVars, barrierVars,
         regionVars, history, WorkerOnlyPC, RegionPC, region
  <1>4. WorkerFrame(w) /\ started' = started /\ wpc' = wpc
    BY <1>0, <1>1, <1>2 DEF WorkerFrame, poolVars, barrierVars, regionVars, history, IInv, TypeOK, PoolTypeOK
  <1>5. pc'[w] = where /\ ip'[w] = i /\ bpc'[w] = "out" /\ ip[w] \in Nat
    BY <1>0, <1>1, <1>2, Places DEF IInv, TypeOK, barrierVars
  <1>6. ~Stale(w) /\ ~Stale(w)' /\ ~Away(w) /\ ~Away(w)' /\ From(w) = ip[w] /\ From(w)' = i
    BY <1>0, <1>1, <1>5 DEF Stale, Away, From, Outside
  <1>7. \A p \in Barriers : NextBarrier(From(w), p) => NextBarrier(From(w)', p)
    BY <1>2, <1>5, <1>6, NextAt
  <1>8. WorkerInv(w)'
    BY <1>1, <1>2, <1>4, <1>5 DEF WorkerInv
  <1>9. UNCHANGED <<bpc, local, cycle, counter, queue, head, tail, count, crossed, done, reached, wtask>>
    BY <1>1 DEF barrierVars, poolVars, history
  <1>10. StaffInv' /\ ArrivalInv'
    <2>1. Team' = Team /\ (Opened' <=> Opened) /\ StaffInv'
      BY <1>4, <1>9, FrameKept
    <2>2. \A t \in Threads : pc'[t] \in {"barrier", "taskwait", "endwait"}
                           <=> pc[t] \in {"barrier", "taskwait", "endwait"}
      BY <1>1, <1>4, <1>5 DEF WorkerFrame
    <2> QED
      BY <1>9, <2>1, <2>2, KeepArrival DEF IInv
  <1> QED
    BY <1>1, <1>2, <1>3, <1>4, <1>5, <1>6, <1>7, <1>8, <1>9, <1>10, WorkerKeeps

(* A worker without work goes to sleep or, once the pool is shut down,     *)
(* exits.                                                                  *)
LEMMA WorkerRests ==
  ASSUME Cooperative, IInv, NEW w \in Workers, WorkerIdle(w)
  PROVE  IInv'
  <1>0. w \in Threads /\ w # Master
    BY Members
  <1>1. /\ wpc[w] = "lock" /\ UNCHANGED <<pool, queue, head, tail, count, shutdown, thread_count, threads, wtask>>
        /\ UNCHANGED <<barrierVars, regionVars, threadVars, program, history>>
    BY DEF WorkerIdle, Sleep, Exit, ring
  <1>2. PICK where \in {"sleep", "exited"} :
          /\ wpc' = [wpc EXCEPT ![w] = where]
          /\ where = "exited" => Exit(w)
          /\ started' = IF where = "exited" THEN started - 1 ELSE started
    BY DEF WorkerIdle, Sleep, Exit
  <1>3. /\ wpc \in [Workers -> WorkerPC] /\ wpc'[w] = where
        /\ pc[w] = "idle" /\ bpc[w] = "out" /\ WorkerInv(w)
    BY <1>0, <1>1, <1>2 DEF IInv, TypeOK, PoolTypeOK, WorkerInv, ArrivalInv
  <1>4. WorkerFrame(w)
    BY <1>1, <1>2, <1>3 DEF WorkerFrame, regionVars, threadVars, barrierVars, history
  <1>5. StaffInv' /\ started' \in Nat
    <2>1. CASE where = "sleep"
      BY <1>1, <1>2, <1>3, <1>4, <2>1, FrameKept DEF IInv, TypeOK, PoolTypeOK
    <2>2. CASE where = "exited"
      <3> DEFINE S == {v \in Born : wpc[v] # "exited"}
      <3>1. S \in SUBSET Workers /\ w \in S /\ started = Cardinality(S)
        BY <1>1, Members DEF Born, IInv, StaffInv
      <3>2. Born' = Born /\ S' = S \ {w}
        BY <1>2, <1>3, <1>4, <2>2, FrameKept, Members
      <3>3. started' = Cardinality(S') /\ started' \in Nat
        BY <1>2, <2>2, <3>1, <3>2, CountWorker, WorkerCount
      <3>4. \A v \in Workers : wpc[v] = "exited" => wpc'[v] = "exited"
        BY <1>2, <1>3, <2>2
      <3>5. \A i \in 1 .. thread_count : pool = "live" => threads[i] \in Workers
        BY Members DEF IInv, StaffInv
      <3>6. ASSUME pc[Master] = "join", pool = "live"
            PROVE  /\ index[Master] <= thread_count
                   /\ \A i \in 1 .. index[Master] : wpc'[threads[i]] = "exited"
        <4>1. index[Master] \in Nat /\ thread_count \in Nat
          BY Members DEF IInv, TypeOK, PoolTypeOK
        <4> QED
          BY <3>4, <3>5, <3>6, <4>1 DEF IInv, StaffInv
      <3> QED
        BY <1>1, <3>2, <3>3, <3>6 DEF IInv, StaffInv, Up, regionVars, threadVars
    <2> QED
      BY <2>1, <2>2
  <1>6. TypeOK'
    BY <1>0, <1>1, <1>2, <1>3, <1>5 DEF IInv, TypeOK, PoolTypeOK, BarrierTypeOK, barrierVars,
         regionVars, threadVars, history, region, WorkerPC
  <1>7. UNCHANGED <<pc, ip, bpc, local, cycle, counter, done, reached, crossed>>
    BY <1>1 DEF threadVars, barrierVars, history
  <1>8. From(w)' = From(w) /\ WorkerInv(w)'
    BY <1>0, <1>2, <1>3, <1>7 DEF From, Outside, Away, WorkerInv
  <1>9. ArrivalInv'
    <2>1. Team' = Team /\ (Opened' <=> Opened)
      BY <1>4, <1>7, FrameKept
    <2> QED
      BY <1>7, <2>1, KeepArrival DEF IInv
  <1> QED
    BY <1>1, <1>3, <1>4, <1>5, <1>6, <1>7, <1>8, <1>9, WorkerKeeps

(* A worker sees that its wait is over.                                    *)
LEMMA WorkerLeaves ==
  ASSUME Cooperative, IInv, NEW w \in Workers, LeaveBarrier(w) \/ LeaveTask(w), SpinExit(w)
  PROVE  IInv'
  <1>0. w \in Threads /\ w # Master
    BY Members
  <1>1. /\ bpc' = [bpc EXCEPT ![w] = "out"] /\ UNCHANGED <<max, cycle, counter, local>>
        /\ Stale(w) /\ bpc[w] = "spin"
    BY DEF SpinExit, Stale
  <1>2. /\ UNCHANGED <<pool, queue, head, tail, count, shutdown, started, thread_count, threads>>
        /\ UNCHANGED <<regionVars, index, own, program, team, done, reached>>
    BY DEF LeaveBarrier, LeaveTask, FinishTask, ring, poolVars, history
  <1>3. ip[w] \in Barriers /\ ip[w] \in 1 .. End /\ wpc[w] = "busy" /\ WorkerInv(w)
    <2>1. pc[w] \in {"barrier", "taskwait"}
      BY DEF LeaveBarrier, LeaveTask
    <2> QED
      BY <1>0, <1>1, <2>1, Waits, Places DEF IInv, WorkerInv
  <1>4. CASE LeaveBarrier(w)
    <2>1. /\ pc[w] = "barrier" /\ pc' = [pc EXCEPT ![w] = "body"]
          /\ ip' = [ip EXCEPT ![w] = ip[w] + 1] /\ UNCHANGED <<wpc, wtask, depth>>
          /\ crossed' = crossed \cup {<<member(w), ip[w]>>}
      BY <1>4 DEF LeaveBarrier, Goto, poolVars
    <2>2. ip[w] + 1 \in 1 .. Len(Body) + 1
      <3>1. ip[w] # End
        BY <1>0, <1>1, <2>1, Waits
      <3> QED
        BY <1>3, <3>1, Places
    <2>3. TypeOK'
      BY <1>0, <1>1, <1>2, <2>1, <2>2 DEF IInv, TypeOK, PoolTypeOK, BarrierTypeOK, BarrierPC, regionVars,
           RegionPC, region
    <2>4. WorkerFrame(w)
      BY <1>0, <1>1, <1>2, <1>3, <2>1 DEF WorkerFrame, regionVars, IInv, TypeOK, BarrierTypeOK
    <2>5. pc'[w] = "body" /\ ip'[w] = ip[w] + 1 /\ bpc'[w] = "out"
      BY <1>0, <1>1, <2>1 DEF IInv, TypeOK, BarrierTypeOK
    <2>6. ~Away(w) /\ ~Away(w)' /\ ~Stale(w)' /\ From(w) = ip[w] + 1 /\ From(w)' = ip[w] + 1
      BY <1>0, <1>1, <2>1, <2>5 DEF Away, Stale, From, Outside
    <2>7. ArrivalInv'
      <3>1. Team' = Team /\ (Opened' <=> Opened) /\ pc'[w] \notin Waitpoint
            /\ \A q \in Threads \ {w} : pc'[q] = pc[q]
        BY <1>1, <2>4, <2>5, FrameKept DEF Waitpoint, WorkerFrame
      <3> QED
        BY <1>0, <3>1, ExitArrival DEF IInv
    <2>8. StaffInv' /\ WorkerInv(w)'
      BY <1>2, <1>3, <2>1, <2>4, <2>5, FrameKept DEF WorkerInv
    <2>9. ASSUME NEW c \in crossed', c \notin crossed
          PROVE  /\ c[1][1] = region /\ region \in Nat \ {0}
                 /\ \A i \in 0 .. team[region] - 1 : <<<<region, i>>, c[2]>> \in reached'
      <3>1. c = <<member(w), ip[w]>>
        BY <2>1, <2>9
      <3>2. region \in Nat \ {0} /\ \E k \in 1 .. Added - 1 : member(w) = <<region, k>>
        BY <2>1, InRegion
      <3>3. c[1][1] = region /\ c[2] = ip[w]
        BY <3>1, <3>2
      <3> QED
        BY <1>0, <1>1, <1>2, <2>1, <3>2, <3>3 DEF IInv, HistoryInv
    <2> QED
      BY <1>1, <1>2, <2>1, <2>3, <2>4, <2>5, <2>6, <2>7, <2>8, <2>9, WorkerKeeps
  <1>5. CASE LeaveTask(w)
    <2>1. /\ pc[w] = "taskwait" /\ pc' = [pc EXCEPT ![w] = "idle"]
          /\ depth' = [depth EXCEPT ![w] = 0]
          /\ wpc' = [wpc EXCEPT ![w] = "lock"] /\ wtask' = [wtask EXCEPT ![w] = None]
          /\ UNCHANGED <<ip, crossed>>
      BY <1>5 DEF LeaveTask, FinishTask, Goto, history
    <2>2. TypeOK'
      BY <1>0, <1>1, <1>2, <2>1 DEF IInv, TypeOK, PoolTypeOK, BarrierTypeOK, BarrierPC, regionVars,
           WorkerOnlyPC, WorkerPC, region
    <2>3. WorkerFrame(w)
      BY <1>0, <1>1, <1>2, <1>3, <2>1 DEF WorkerFrame, regionVars, IInv, TypeOK, PoolTypeOK, BarrierTypeOK
    <2>4. pc'[w] = "idle" /\ wpc'[w] = "lock" /\ bpc'[w] = "out"
      BY <1>0, <1>1, <2>1 DEF IInv, TypeOK, PoolTypeOK, BarrierTypeOK
    <2>5. From(w) = 1 /\ From(w)' = 1
      BY <1>0, <1>1, <2>1, <2>4 DEF From, Outside, Away
    <2>6. ArrivalInv'
      <3>1. Team' = Team /\ (Opened' <=> Opened) /\ pc'[w] \notin Waitpoint
            /\ \A q \in Threads \ {w} : pc'[q] = pc[q]
        BY <1>1, <2>3, <2>4, FrameKept DEF Waitpoint, WorkerFrame
      <3> QED
        BY <1>0, <3>1, ExitArrival DEF IInv
    <2>7. StaffInv' /\ WorkerInv(w)'
      BY <1>2, <1>3, <2>1, <2>3, <2>4, FrameKept DEF WorkerInv
    <2> QED
      BY <1>1, <1>2, <2>1, <2>2, <2>3, <2>4, <2>5, <2>6, <2>7, WorkerKeeps
  <1> QED
    BY <1>4, <1>5

(* A worker takes a work item of the open region.                          *)
LEMMA WorkerStarts ==
  ASSUME Cooperative, IInv, NEW w \in Workers, WorkerTakes(w)
  PROVE  IInv'
  <1>0. w \in Threads /\ w # Master
    BY Members
  <1>1. TakeTask(w) /\ PoolTypeOK /\ RingShape
    BY DEF WorkerTakes, IInv, TypeOK, WorkInv, QueueInv
  <1>2. /\ count \in 1 .. QueueSize /\ count' = count - 1 /\ Slot(head, 1) = head /\ 1 \in 1 .. count
        /\ head' \in 0 .. QueueSize - 1 /\ queue' = queue /\ RingShape'
        /\ \A i \in 1 .. count' : i + 1 \in 1 .. count /\ Slot(head, i)' = Slot(head, i + 1)
    BY <1>1, TakeRing DEF RingShape, Slot
  <1>3. /\ wpc[w] = "lock" /\ wpc' = [wpc EXCEPT ![w] = "busy"]
        /\ wtask' = [wtask EXCEPT ![w] = queue[head]]
        /\ pc' = [pc EXCEPT ![w] = "tls1"] /\ ip' = [ip EXCEPT ![w] = 1]
        /\ depth' = [depth EXCEPT ![w] = 1]
        /\ UNCHANGED <<pool, tail, shutdown, started, thread_count, threads>>
        /\ UNCHANGED <<barrierVars, regionVars, index, own, program, history>>
    BY DEF WorkerTakes, TakeTask, Goto
  <1>4. pc[w] = "idle" /\ bpc[w] = "out"
    BY <1>0, <1>3 DEF IInv, WorkerInv, ArrivalInv
  <1>5. TypeOK'
    <2>1. PoolTypeOK'
      <3>1. queue[head] \in Tasks \cup {None} /\ count' \in 0 .. QueueSize
        BY <1>1, <1>2, QueueSizeAssumption DEF PoolTypeOK
      <3>2. wpc' \in [Workers -> WorkerPC] /\ wtask' \in [Workers -> Tasks \cup {None}]
        BY <1>1, <1>3, <3>1 DEF PoolTypeOK, WorkerPC
      <3> QED
        BY <1>1, <1>2, <1>3, <3>1, <3>2 DEF PoolTypeOK
    <2> QED
      BY <1>0, <1>3, <2>1, Places DEF IInv, TypeOK, BarrierTypeOK, barrierVars, regionVars, history,
           region, WorkerOnlyPC
  <1>6. WorkerFrame(w)
    BY <1>0, <1>1, <1>3 DEF WorkerFrame, IInv, TypeOK, PoolTypeOK, barrierVars, regionVars, history
  <1>7. pc'[w] = "tls1" /\ ip'[w] = 1 /\ wpc'[w] = "busy" /\ wtask'[w] = queue[head] /\ bpc'[w] = "out"
    BY <1>0, <1>1, <1>3, <1>4 DEF IInv, TypeOK, PoolTypeOK, barrierVars
  <1>8. UNCHANGED <<bpc, local, cycle, counter, team, done, reached, crossed, started>>
    BY <1>3 DEF barrierVars, history
  <1>9. /\ Team' = Team /\ Born' = Born /\ region' = region /\ Added' = Added
        /\ (Opened' <=> Opened) /\ StaffInv' /\ ProgramInv' /\ MasterInv'
        /\ \A v \in Workers \ {w} : WorkerInv(v)' /\ (Away(v)' <=> Away(v))
        /\ \A t \in Threads \ {w} : From(t)' = From(t) /\ member(t)' = member(t) /\ (Stale(t)' <=> Stale(t))
    BY <1>3, <1>6, <1>7, <1>8, FrameKept
  <1>10. WorkerInv(w)' /\ ~Away(w)' /\ From(w) = 1 /\ From(w)' = 1 /\ ~Stale(w)'
    BY <1>0, <1>4, <1>7 DEF WorkerInv, Away, From, Outside, Stale
  <1>11. Opened /\ count <= Added - 1
    BY <1>2 DEF IInv, WorkInv, QueueInv
  <1>12. Added \in Int
    <2>1. region \in Nat \ {0} /\ region <= Len(team)
      BY <1>11 DEF IInv, MasterInv, Opened, TypeOK, region
    <2>2. team[region] \in Nat
      BY <2>1 DEF IInv, TypeOK, region
    <2> QED
      BY <2>2, Members DEF Added, IInv, TypeOK
  <1>13. WorkInv'
    <2>1. ASSUME NEW i \in 1 .. count
          PROVE  /\ \E k \in 1 .. Added - 1 : queue[Slot(head, i)] = <<region, k>>
                 /\ \A j \in 1 .. count : queue[Slot(head, i)] = queue[Slot(head, j)] => i = j
                 /\ \A v \in Workers : pc[v] # "idle" => wtask[v] # queue[Slot(head, i)]
      BY DEF IInv, WorkInv, QueueInv
    <2>2. ASSUME NEW v \in Workers, v # w, pc'[v] # "idle"
          PROVE  pc[v] # "idle" /\ wtask'[v] = wtask[v]
      BY <1>6, <2>2, Members DEF WorkerFrame
    <2>3. QueueInv'
      <3>1. ~Opened' => count' = 0
        BY <1>9, <1>11
      <3>2. Opened' => count' <= Added' - 1
        BY <1>2, <1>9, <1>11, <1>12
      <3>3. ASSUME NEW i \in 1 .. count'
            PROVE  /\ \E k \in 1 .. Added' - 1 : queue'[Slot(head, i)'] = <<region', k>>
                   /\ \A j \in 1 .. count' : queue'[Slot(head, i)'] = queue'[Slot(head, j)'] => i = j
                   /\ \A v \in Workers : pc'[v] # "idle" => wtask'[v] # queue'[Slot(head, i)']
        <4>1. i + 1 \in 1 .. count /\ Slot(head, i)' = Slot(head, i + 1) /\ i + 1 # 1
          BY <1>2
        <4>2. \E k \in 1 .. Added' - 1 : queue'[Slot(head, i)'] = <<region', k>>
          BY <1>2, <1>9, <2>1, <4>1
        <4>3. ASSUME NEW j \in 1 .. count', queue'[Slot(head, i)'] = queue'[Slot(head, j)'] PROVE i = j
          <5>1. j + 1 \in 1 .. count /\ Slot(head, j)' = Slot(head, j + 1)
            BY <1>2
          <5>2. i + 1 = j + 1
            BY <1>2, <2>1, <4>1, <4>3, <5>1
          <5> QED
            BY <5>2
        <4>4. ASSUME NEW v \in Workers, pc'[v] # "idle" PROVE wtask'[v] # queue'[Slot(head, i)']
          <5>1. CASE v = w
            <6>1. queue[Slot(head, 1)] # queue[Slot(head, i + 1)]
              BY <1>2, <2>1, <4>1
            <6> QED
              BY <1>2, <1>7, <4>1, <5>1, <6>1
          <5>2. CASE v # w
            BY <1>2, <2>1, <2>2, <4>1, <4>4, <5>2
          <5> QED
            BY <5>1, <5>2
        <4> QED
          BY <4>2, <4>3, <4>4
      <3> QED
        BY <1>2, <3>1, <3>2, <3>3 DEF QueueInv
    <2>4. ASSUME NEW v \in Workers PROVE HeldInv(v)'
      <3>1. CASE v = w
        <4>1. \E k \in 1 .. Added' - 1 : wtask'[w] = <<region', k>>
          BY <1>2, <1>7, <1>9, <2>1
        <4> QED
          BY <1>9, <1>10, <1>11, <3>1, <4>1 DEF HeldInv
      <3>2. CASE v # w
        <4>1. HeldInv(v)
          BY DEF IInv, WorkInv
        <4> QED
          BY <1>8, <1>9, <2>2, <3>2, <4>1 DEF HeldInv
      <3> QED
        BY <3>1, <3>2
    <2>5. ASSUME NEW u \in Workers, NEW v \in Workers,
                 pc'[u] # "idle", pc'[v] # "idle", wtask'[u] = wtask'[v]
          PROVE  u = v
      <3>1. CASE u = w /\ v # w
        BY <1>2, <1>7, <2>1, <2>2, <2>5, <3>1
      <3>2. CASE v = w /\ u # w
        BY <1>2, <1>7, <2>1, <2>2, <2>5, <3>2
      <3>3. CASE u # w /\ v # w
        BY <2>2, <2>5, <3>3 DEF IInv, WorkInv
      <3> QED
        BY <3>1, <3>2, <3>3
    <2> QED
      BY <2>3, <2>4, <2>5 DEF WorkInv
  <1>14. PositionInv'
    <2>1. \A t \in Team : From(t)' = From(t)
      BY <1>9, <1>10, Members
    <2> QED
      BY <1>9, <2>1, KeepPosition DEF IInv
  <1>15. ArrivalInv'
    <2>1. \A t \in Threads : pc'[t] \in {"barrier", "taskwait", "endwait"}
                           <=> pc[t] \in {"barrier", "taskwait", "endwait"}
      BY <1>4, <1>6, <1>7 DEF WorkerFrame
    <2> QED
      BY <1>8, <1>9, <2>1, KeepArrival DEF IInv
  <1>16. HistoryInv' /\ BarrierSeparates'
    <2>1. \A v \in Workers : pc'[v] = "taskwait" => pc[v] = "taskwait" /\ wtask'[v] = wtask[v]
      BY <1>6, <1>7, Members DEF WorkerFrame
    <2>2. \A t \in Threads : pc'[t] = "barrier" =>
            pc[t] = "barrier" /\ ip'[t] = ip[t] /\ member(t)' = member(t) /\ (Stale(t)' => Stale(t))
      BY <1>6, <1>7, <1>9 DEF WorkerFrame
    <2> QED
      BY <1>8, <1>9, <2>1, <2>2, KeepHistory DEF IInv
  <1> QED
    BY <1>5, <1>9, <1>10, <1>13, <1>14, <1>15, <1>16 DEF IInv

-----------------------------------------------------------------------------
(* The barrier opens                                                       *)

(* When it does the whole team is on record, as having reached the barrier *)
(* or as having finished the microtask.                                    *)
LEMMA WholeTeamRecorded ==
  ASSUME Cooperative, IInv, NEW t \in Threads, Last(t)
  PROVE  /\ ip[t] # End => /\ \A q \in Team : pc[q] = "barrier" /\ ip[q] = ip[t]
                           /\ \A i \in 0 .. team[region] - 1 : <<<<region, i>>, ip[t]>> \in reached
         /\ ip[t] = End => /\ \A q \in Team : pc[q] \in {"taskwait", "endwait"}
                           /\ pc[Master] = "endwait" /\ \A w \in Born : pc[w] = "taskwait"
                           /\ \A i \in 1 .. team[region] - 1 : <<region, i>> \in done
  <1>1. t \in Team /\ \A q \in Team : q \in Threads /\ bpc[q] # "out" /\ ip[q] = ip[t]
    <2>1. t \in Team
      BY Waits DEF Last
    <2> QED
      BY <2>1, AllArrived, Members
  <1>2. team[region] \in Nat
    <2>1. region \in Nat \ {0}
      BY AllArrived
    <2> QED
      BY <2>1 DEF IInv, TypeOK, region
  <1>3. ASSUME ip[t] # End
        PROVE  /\ \A q \in Team : pc[q] = "barrier" /\ ip[q] = ip[t]
               /\ \A i \in 0 .. team[region] - 1 : <<<<region, i>>, ip[t]>> \in reached
    <2>1. \A q \in Team : pc[q] = "barrier" /\ ip[q] = ip[t]
      BY <1>1, <1>3, Waits
    <2>2. \A q \in Team : <<member(q), ip[t]>> \in reached
      BY <1>1, <2>1 DEF IInv, HistoryInv
    <2>3. member(Master) = <<region, 0>> /\ Master \in Team
      BY Members DEF member, thread_id
    <2>4. ASSUME NEW i \in 0 .. team[region] - 1 PROVE <<<<region, i>>, ip[t]>> \in reached
      <3>1. CASE i = 0
        BY <2>2, <2>3, <3>1
      <3>2. CASE i # 0
        <4>1. i \in 1 .. team[region] - 1
          BY <1>2, <3>2
        <4>2. PICK w \in Born : wtask[w] = <<region, i>>
          BY <4>1, WholeTeam
        <4>3. member(w) = <<region, i>> /\ w \in Team
          BY <4>2, Members DEF member, thread_id, Team
        <4> QED
          BY <2>2, <4>3
      <3> QED
        BY <3>1, <3>2
    <2> QED
      BY <2>1, <2>4
  <1>4. ASSUME ip[t] = End
        PROVE  /\ \A q \in Team : pc[q] \in {"taskwait", "endwait"}
               /\ pc[Master] = "endwait" /\ \A w \in Born : pc[w] = "taskwait"
               /\ \A i \in 1 .. team[region] - 1 : <<region, i>> \in done
    <2>1. \A q \in Team : pc[q] \in {"taskwait", "endwait"}
      BY <1>1, <1>4, Waits
    <2>2. pc[Master] = "endwait"
      BY <2>1, AllArrived, Members
    <2>3. \A w \in Born : w \in Workers /\ pc[w] = "taskwait"
      BY <1>1, <2>1, Waits, Members DEF Team
    <2>4. ASSUME NEW i \in 1 .. team[region] - 1 PROVE <<region, i>> \in done
      <3>1. PICK w \in Born : wtask[w] = <<region, i>>
        BY WholeTeam
      <3> QED
        BY <2>3, <3>1 DEF IInv, HistoryInv
    <2> QED
      BY <2>1, <2>2, <2>3, <2>4
  <1> QED
    BY <1>3, <1>4

(* What all opening steps have in common                                   *)
OpenFrame(t) ==
  /\ \A q \in Threads \ {t} : pc'[q] = pc[q] /\ ip'[q] = ip[q] /\ depth'[q] = depth[q]
  /\ \A v \in Workers \ {t} : wtask'[v] = wtask[v]
  /\ UNCHANGED <<queue, head, tail, count, team, reached, done>>
  /\ Born' = Born

(* At a barrier in the body all go on together.                            *)
LEMMA OpenBarrier ==
  ASSUME Cooperative, IInv, NEW t \in Threads, StoreCycle(t), OpenFrame(t),
         pc[t] = "barrier", pc'[t] = "body", ip'[t] = ip[t] + 1, depth'[t] = depth[t],
         t \in Workers => wtask'[t] = wtask[t],
         crossed' = crossed \cup {<<member(t), ip[t]>>}
  PROVE  WorkInv' /\ PositionInv' /\ ArrivalInv' /\ HistoryInv' /\ BarrierSeparates'
  <1> USE DEF OpenFrame
  <1>1. /\ Team' = Team /\ region' = region
    BY DEF Team, region
  <1>2. /\ ArrivalInv' /\ Last(t) /\ bpc'[t] = "out"
        /\ \A q \in Team \ {t} : Stale(q)'
    BY <1>1, OpenArrival DEF Waitpoint
  <1>3. /\ \A q \in Team : pc[q] = "barrier" /\ ip[q] = ip[t]
        /\ \A i \in 0 .. team[region] - 1 : <<<<region, i>>, ip[t]>> \in reached
        /\ ip[t] \in Nat /\ ip[t] + 1 <= End
    <2>1. ip[t] # End /\ ip[t] \in Barriers
      BY <1>2, Waits DEF Last
    <2> QED
      BY <1>2, <2>1, WholeTeamRecorded, Places
  <1>4. t \in Team /\ Master \in Team /\ pc[Master] = "barrier" /\ pc'[Master] \in {"barrier", "body"}
    BY <1>2, <1>3, Waits, Members DEF Last
  <1>5. Opened /\ Opened' /\ Added' = Added
    BY <1>1, <1>4 DEF Opened, Inside, Added
  <1>6. ASSUME NEW w \in Workers, pc'[w] # "idle"
        PROVE  w \in Team /\ w \in Threads /\ pc[w] = "barrier" /\ wtask'[w] = wtask[w]
               /\ ~Away(w) /\ ~Away(w)'
    <2>1. w \in Threads
      BY Members
    <2>2. pc[w] # "idle"
      BY <1>6, <2>1
    <2>3. w \in Team
      BY <2>2 DEF IInv, WorkerInv, Team, Born
    <2> QED
      BY <1>3, <2>1, <2>3 DEF Away
  <1>7. WorkInv'
    BY <1>5, <1>6, KeepWork DEF IInv
  <1>8. PositionInv'
    <2>1. ASSUME NEW q \in Team PROVE From(q)' = ip[t] + 1
      <3>1. q \in Threads /\ ~Outside(q)'
        <4>1. CASE q = Master
          <5>1. depth[q] = 1 /\ depth'[q] = depth[q]
            BY <1>4, <4>1, Members DEF IInv, MasterInv
          <5> QED
            BY <4>1, <5>1, Members DEF Outside
        <4>2. CASE q # Master
          BY <1>3, <4>2, Members DEF Outside, Away
        <4> QED
          BY <4>1, <4>2
      <3>2. CASE q = t
        BY <1>2, <3>1, <3>2 DEF From, Stale
      <3>3. CASE q # t
        BY <1>2, <1>3, <3>1, <3>3 DEF From
      <3> QED
        BY <3>2, <3>3
    <2>2. ip[t] + 1 \in Nat
      BY <1>3
    <2>3. PICK p \in Barriers : NextBarrier(ip[t] + 1, p)
      BY <1>3, <2>2, NextExists
    <2>4. \A q \in Team' : NextBarrier(From(q)', p)
      BY <1>1, <2>1, <2>3
    <2> QED
      BY <2>4 DEF PositionInv, NextBarrier
  <1>9. HistoryInv' /\ BarrierSeparates'
    <2>1. /\ HistoryInv /\ BarrierSeparates /\ team' = team
          /\ done \subseteq done' /\ reached \subseteq reached'
      BY DEF IInv
    <2>2. region \in Nat \ {0} /\ member(t)[1] = region
      <3>1. CASE t = Master
        BY <1>2, <3>1, AllArrived DEF member
      <3>2. CASE t # Master
        <4>1. t \in Workers
          BY <3>2, Members
        <4> QED
          BY <4>1, InRegion
      <3> QED
        BY <3>1, <3>2
    <2>3. ASSUME NEW c \in crossed', c \notin crossed
          PROVE  /\ c[1][1] = region /\ region \in Nat \ {0}
                 /\ \A i \in 0 .. team[region] - 1 : <<<<region, i>>, c[2]>> \in reached'
      <3>1. c[1] = member(t) /\ c[2] = ip[t]
        BY <2>3
      <3> QED
        BY <1>3, <2>2, <3>1
    <2>4. \A w \in Workers : pc'[w] = "taskwait" =>
            wtask'[w] \in done' \/ (pc[w] = "taskwait" /\ wtask'[w] = wtask[w])
      BY <1>6, Members
    <2>5. ASSUME NEW q \in Threads, pc'[q] = "barrier"
          PROVE  /\ <<member(q)', ip'[q]>> \in reached'
                 /\ Stale(q)' => \A i \in 0 .. team[region] - 1 : <<<<region, i>>, ip'[q]>> \in reached'
      <3>1. q # t /\ pc[q] = "barrier" /\ ip'[q] = ip[q]
        BY <2>5
      <3>2. q \in Team
        <4>1. bpc[q] # "out"
          BY <3>1 DEF IInv, ArrivalInv
        <4> QED
          BY <4>1, Waits
      <3>3. member(q)' = member(q)
        BY <1>1, <3>1, Members DEF member, thread_id
      <3> QED
        BY <1>3, <3>1, <3>2, <3>3 DEF IInv, HistoryInv
    <2> QED
      BY <1>5, <2>1, <2>3, <2>4, <2>5, KeepHistory
  <1> QED
    BY <1>2, <1>7, <1>8, <1>9

(* At the end of the region all are done, and the region is closed.        *)
LEMMA OpenEnd ==
  ASSUME Cooperative, IInv, NEW t \in Threads, StoreCycle(t), OpenFrame(t),
         pc[t] \in {"taskwait", "endwait"}, pc'[t] = IF t = Master THEN "clear" ELSE "idle",
         crossed' = crossed
  PROVE  WorkInv' /\ PositionInv' /\ ArrivalInv' /\ HistoryInv' /\ BarrierSeparates' /\ Added' = Added
  <1> USE DEF OpenFrame
  <1>1. Team' = Team /\ region' = region
    BY DEF Team, region
  <1>2. /\ ArrivalInv' /\ Last(t) /\ bpc'[t] = "out"
        /\ \A q \in Team \ {t} : Stale(q)'
    BY <1>1, OpenArrival DEF Waitpoint
  <1>3. /\ \A q \in Team : pc[q] \in {"taskwait", "endwait"}
        /\ pc[Master] = "endwait" /\ \A w \in Born : pc[w] = "taskwait"
        /\ \A i \in 1 .. team[region] - 1 : <<region, i>> \in done
    <2>1. ip[t] = End
      BY <1>2, Waits DEF Last
    <2> QED
      BY <1>2, <2>1, WholeTeamRecorded
  <1>4. ~Opened' /\ Added' = Added
    <2>1. CASE t = Master
      BY <1>1, <1>3, <2>1 DEF Opened, Added
    <2>2. CASE t # Master
      <3>1. pc'[Master] = "endwait" /\ Stale(Master)'
        BY <1>2, <1>3, <2>2, Members
      <3> QED
        BY <1>1, <1>3, <3>1 DEF Opened, Added
    <2> QED
      BY <2>1, <2>2
  <1>5. ASSUME NEW w \in Workers, pc'[w] # "idle"
        PROVE  /\ w # t /\ pc[w] = "taskwait" /\ pc'[w] = "taskwait" /\ Away(w)'
               /\ wtask'[w] = wtask[w] /\ \E k \in 1 .. team[region] - 1 : wtask[w] = <<region, k>>
    <2>1. w \in Threads /\ w # t
      BY <1>5, Members
    <2>2. pc[w] # "idle" /\ pc'[w] = pc[w] /\ wtask'[w] = wtask[w]
      BY <1>5, <2>1
    <2>3. w \in Born /\ w \in Team
      BY <2>2 DEF IInv, WorkerInv, Team, Born
    <2> QED
      BY <1>2, <1>3, <2>1, <2>2, <2>3, AllArrived DEF Away
  <1>6. WorkInv'
    <2>1. QueueInv'
      <3>1. count = 0 /\ RingShape'
        BY <1>2, WholeTeam DEF IInv, WorkInv, QueueInv, RingShape
      <3> QED
        BY <1>4, <3>1 DEF QueueInv
    <2>2. ASSUME NEW w \in Workers PROVE HeldInv(w)'
      <3> SUFFICES ASSUME pc'[w] # "idle"
                   PROVE  /\ Away(w)'
                          /\ \E r \in 1 .. region' : /\ Opened' => r < region'
                                                     /\ \E k \in 1 .. team'[r] - 1 : wtask'[w] = <<r, k>>
        BY DEF HeldInv
      <3>1. region \in 1 .. region
        BY <1>2, AllArrived
      <3> QED
        BY <1>1, <1>4, <1>5, <3>1
    <2>3. \A v, w \in Workers :
            pc'[v] # "idle" /\ pc'[w] # "idle" /\ wtask'[v] = wtask'[w] => v = w
      <3>1. \A w \in Workers : pc'[w] # "idle" => pc[w] # "idle" /\ wtask'[w] = wtask[w]
        BY <1>5
      <3> QED
        BY <3>1 DEF IInv, WorkInv
    <2> QED
      BY <2>1, <2>2, <2>3 DEF WorkInv
  <1>7. PositionInv'
    BY <1>4 DEF PositionInv
  <1>8. HistoryInv' /\ BarrierSeparates'
    <2>1. ASSUME NEW r \in 1 .. region', NEW i \in 1 .. team'[r] - 1 PROVE <<r, i>> \in done'
      <3>1. CASE r = region
        BY <1>3, <3>1
      <3>2. CASE r # region
        <4>1. r \in 1 .. region /\ r < region
          BY <1>1, <1>2, <3>2, AllArrived
        <4> QED
          BY <4>1 DEF IInv, HistoryInv
      <3> QED
        BY <3>1, <3>2
    <2>2. \A w \in Workers : pc'[w] = "taskwait" => wtask'[w] \in done'
      <3>1. \A w \in Workers : pc'[w] = "taskwait" => pc[w] = "taskwait" /\ wtask'[w] = wtask[w]
        BY <1>5
      <3> QED
        BY <3>1 DEF IInv, HistoryInv
    <2>3. \A q \in Threads : pc'[q] # "barrier"
      <3>1. ASSUME NEW q \in Threads, pc'[q] = "barrier" PROVE FALSE
        <4>1. pc[q] = "barrier"
          BY <3>1
        <4>2. bpc[q] # "out"
          BY <4>1 DEF IInv, ArrivalInv
        <4> QED
          BY <1>3, <4>1, <4>2, Waits
      <3> QED
        BY <3>1
    <2>4. BarrierSeparates' /\ \A c \in crossed' : c[1][1] \in 1 .. region'
      BY <1>1 DEF IInv, HistoryInv, BarrierSeparates
    <2> QED
      BY <2>1, <2>2, <2>3, <2>4 DEF HistoryInv
  <1> QED
    BY <1>2, <1>4, <1>6, <1>7, <1>8

(* A worker is the last to arrive.                                         *)
LEMMA WorkerOpens ==
  ASSUME Cooperative, IInv, NEW w \in Workers, LeaveBarrier(w) \/ LeaveTask(w), StoreCycle(w)
  PROVE  IInv'
  <1>0. w \in Threads /\ w # Master
    BY Members
  <1>1. /\ bpc' = [bpc EXCEPT ![w] = "out"] /\ cycle' = local[w]
        /\ UNCHANGED <<max, counter, local>> /\ bpc[w] = "store"
    BY DEF StoreCycle
  <1>2. /\ UNCHANGED <<pool, queue, head, tail, count, shutdown, started, thread_count, threads>>
        /\ UNCHANGED <<regionVars, index, own, program, team, done, reached>>
    BY DEF LeaveBarrier, LeaveTask, FinishTask, ring, poolVars, history
  <1>3. ip[w] \in Barriers /\ ip[w] \in 1 .. End /\ wpc[w] = "busy" /\ WorkerInv(w)
    <2>1. pc[w] \in {"barrier", "taskwait"}
      BY DEF LeaveBarrier, LeaveTask
    <2> QED
      BY <1>0, <1>1, <2>1, Waits, Places DEF IInv, WorkerInv
  <1>4. CASE LeaveBarrier(w)
    <2>1. /\ pc[w] = "barrier" /\ pc' = [pc EXCEPT ![w] = "body"]
          /\ ip' = [ip EXCEPT ![w] = ip[w] + 1] /\ UNCHANGED <<wpc, wtask, depth>>
          /\ crossed' = crossed \cup {<<member(w), ip[w]>>}
      BY <1>4 DEF LeaveBarrier, Goto, poolVars
    <2>2. ip[w] + 1 \in 1 .. Len(Body) + 1
      <3>1. ip[w] # End
        BY <1>0, <1>1, <2>1, Waits
      <3> QED
        BY <1>3, <3>1, Places
    <2>3. TypeOK'
      BY <1>0, <1>1, <1>2, <2>1, <2>2 DEF IInv, TypeOK, PoolTypeOK, BarrierTypeOK, BarrierPC, regionVars,
           RegionPC, region
    <2>4. WorkerFrame(w)
      BY <1>0, <1>1, <1>2, <1>3, <2>1 DEF WorkerFrame, regionVars, IInv, TypeOK, BarrierTypeOK
    <2>5. pc'[w] = "body" /\ ip'[w] = ip[w] + 1 /\ depth'[w] = depth[w] /\ wtask'[w] = wtask[w]
      BY <1>0, <2>1 DEF IInv, TypeOK
    <2>6. Born' = Born /\ StaffInv' /\ ProgramInv' /\ MasterInv' /\ \A v \in Workers \ {w} : WorkerInv(v)'
      BY <1>2, <2>1, <2>4, FrameKept
    <2>7. WorkerInv(w)'
      BY <1>3, <2>1, <2>5 DEF WorkerInv
    <2>8. OpenFrame(w)
      BY <1>2, <2>4, <2>6 DEF OpenFrame, WorkerFrame
    <2> QED
      BY <1>0, <2>1, <2>3, <2>5, <2>6, <2>7, <2>8, OpenBarrier DEF IInv
  <1>5. CASE LeaveTask(w)
    <2>1. /\ pc[w] = "taskwait" /\ pc' = [pc EXCEPT ![w] = "idle"]
          /\ depth' = [depth EXCEPT ![w] = 0]
          /\ wpc' = [wpc EXCEPT ![w] = "lock"] /\ wtask' = [wtask EXCEPT ![w] = None]
          /\ UNCHANGED <<ip, crossed>>
      BY <1>5 DEF LeaveTask, FinishTask, Goto, history
    <2>2. TypeOK'
      BY <1>0, <1>1, <1>2, <2>1 DEF IInv, TypeOK, PoolTypeOK, BarrierTypeOK, BarrierPC, regionVars,
           WorkerOnlyPC, WorkerPC, region
    <2>3. WorkerFrame(w)
      BY <1>0, <1>1, <1>2, <1>3, <2>1 DEF WorkerFrame, regionVars, IInv, TypeOK, PoolTypeOK, BarrierTypeOK
    <2>4. pc'[w] = "idle" /\ wpc'[w] = "lock"
      BY <1>0, <2>1 DEF IInv, TypeOK, PoolTypeOK
    <2>5. Born' = Born /\ StaffInv' /\ ProgramInv' /\ MasterInv' /\ \A v \in Workers \ {w} : WorkerInv(v)'
      BY <1>2, <1>3, <2>3, <2>4, FrameKept
    <2>6. WorkerInv(w)'
      BY <2>4 DEF WorkerInv
    <2>7. OpenFrame(w)
      BY <1>2, <2>3, <2>5 DEF OpenFrame, WorkerFrame
    <2> QED
      BY <1>0, <2>1, <2>2, <2>4, <2>5, <2>6, <2>7, OpenEnd DEF IInv
  <1> QED
    BY <1>4, <1>5

(* Every step of a worker keeps the invariant.                             *)
LEMMA WorkerNext ==
  ASSUME Cooperative, IInv, NEW w \in Workers, WorkerStep(w)
  PROVE  IInv'
  <1>1. LeaveBarrier(w) \/ LeaveTask(w) => SpinExit(w) \/ StoreCycle(w)
    BY DEF LeaveBarrier, LeaveTask, WaitReturn
  <1> QED
    BY <1>1, WorkerSteps, WorkerWaits, WorkerWaiting, WorkerMoves, WorkerRests, WorkerLeaves,
       WorkerStarts, WorkerOpens

-----------------------------------------------------------------------------
(* The master                                                              *)

(* What it leaves alone, unless it opens the barrier.                      *)
MasterFrame ==
  /\ \A w \in Workers : /\ pc'[w] = pc[w] /\ ip'[w] = ip[w] /\ wtask'[w] = wtask[w]
                        /\ bpc'[w] = bpc[w] /\ local'[w] = local[w]
                        /\ wpc'[w] = "busy" <=> wpc[w] = "busy"
  /\ cycle' = cycle

(* A step of the master leaves the workers' parts of the invariant alone.  *)
LEMMA MasterFrameKept ==
  ASSUME IInv, MasterFrame
  PROVE  /\ \A w \in Workers : WorkerInv(w)'
         /\ \A w \in Workers : /\ w \in Threads /\ w # Master
                               /\ Stale(w)' <=> Stale(w)
                               /\ Away(w)' <=> Away(w)
                               /\ From(w)' = From(w) /\ member(w)' = member(w)
  <1> USE DEF MasterFrame
  <1>1. ASSUME NEW w \in Workers PROVE WorkerInv(w)'
    <2>1. WorkerInv(w)
      BY DEF IInv
    <2> QED
      BY <2>1 DEF WorkerInv, NextOp
  <1>2. ASSUME NEW w \in Workers
        PROVE  /\ w \in Threads /\ w # Master
               /\ Stale(w)' <=> Stale(w)
               /\ Away(w)' <=> Away(w)
               /\ From(w)' = From(w) /\ member(w)' = member(w)
    <2>1. w \in Threads /\ w # Master /\ (Stale(w)' <=> Stale(w))
      BY Members DEF Stale
    <2>2. Away(w)' <=> Away(w)
      BY <2>1 DEF Away
    <2> QED
      BY <2>1, <2>2 DEF From, Outside, member, thread_id
  <1> QED
    BY <1>1, <1>2

(* A step of the master between regions                                    *)
LEMMA MasterOutside ==
  ASSUME Cooperative, IInv, MasterFrame, ~Opened, ~Opened',
         UNCHANGED <<queue, head, tail, count, team, done, reached, crossed>>,
         pc'[Master] # "barrier",
         TypeOK', ProgramInv', StaffInv', MasterInv', ArrivalInv'
  PROVE  IInv'
  <1> USE DEF MasterFrame
  <1>1. \A w \in Workers : WorkerInv(w)'
    BY MasterFrameKept
  <1>2. region' = region
    BY DEF region
  <1>3. WorkInv'
    <2>1. QueueInv'
      BY DEF IInv, WorkInv, QueueInv, RingShape
    <2>2. ASSUME NEW w \in Workers PROVE HeldInv(w)'
      <3>1. HeldInv(w) /\ (Away(w)' <=> Away(w))
        BY MasterFrameKept DEF IInv, WorkInv
      <3> QED
        BY <1>2, <3>1 DEF HeldInv
    <2>3. \A v, w \in Workers :
            pc'[v] # "idle" /\ pc'[w] # "idle" /\ wtask'[v] = wtask'[w] => v = w
      BY DEF IInv, WorkInv
    <2> QED
      BY <2>1, <2>2, <2>3 DEF WorkInv
  <1>4. PositionInv'
    BY DEF PositionInv
  <1>5. HistoryInv' /\ BarrierSeparates'
    <2>1. \A t \in Threads : pc'[t] = "barrier" =>
            pc[t] = "barrier" /\ ip'[t] = ip[t] /\ member(t)' = member(t) /\ (Stale(t)' => Stale(t))
      BY MasterFrameKept, Members
    <2> QED
      BY <2>1, KeepHistory DEF IInv
  <1> QED
    BY <1>1, <1>3, <1>4, <1>5 DEF IInv

(* A step of the master in the open region that adds no work               *)
LEMMA MasterInside ==
  ASSUME Cooperative, IInv, MasterFrame, Opened, Opened', Team' = Team, Added' = Added,
         UNCHANGED <<queue, head, tail, count, team>>, done \subseteq done', reached \subseteq reached',
         \A c \in crossed' : c \in crossed \/
           /\ c[1][1] = region /\ region \in Nat \ {0}
           /\ \A i \in 0 .. team[region] - 1 : <<<<region, i>>, c[2]>> \in reached',
         \A p \in Barriers : NextBarrier(From(Master), p) => NextBarrier(From(Master)', p),
         pc'[Master] = "barrier" =>
           \/ <<<<region, 0>>, ip'[Master]>> \in reached' /\ ~Stale(Master)'
           \/ pc[Master] = "barrier" /\ ip'[Master] = ip[Master] /\ (Stale(Master)' => Stale(Master)),
         TypeOK', ProgramInv', StaffInv', MasterInv', ArrivalInv'
  PROVE  IInv'
  <1> USE DEF MasterFrame
  <1>1. \A w \in Workers : WorkerInv(w)'
    BY MasterFrameKept
  <1>2. region' = region
    BY DEF region
  <1>3. WorkInv'
    <2>1. \A w \in Workers : pc'[w] # "idle" =>
            pc[w] # "idle" /\ wtask'[w] = wtask[w] /\ (Away(w)' <=> Away(w))
      BY MasterFrameKept
    <2> QED
      BY <2>1, KeepWork DEF IInv
  <1>4. PositionInv'
    <2>1. ASSUME NEW t \in Team, NEW p \in Barriers, NextBarrier(From(t), p)
          PROVE  NextBarrier(From(t)', p)
      <3>1. t \in Workers \/ t = Master
        BY Members
      <3> QED
        BY <2>1, <3>1, MasterFrameKept
    <2> QED
      BY <2>1, KeepPosition DEF IInv
  <1>5. HistoryInv' /\ BarrierSeparates'
    <2>1. member(Master) = <<region, 0>> /\ member(Master)' = <<region, 0>>
      BY <1>2 DEF member, thread_id
    <2>2. ASSUME NEW t \in Threads, pc'[t] = "barrier"
          PROVE  \/ <<member(t)', ip'[t]>> \in reached' /\ ~Stale(t)'
                 \/ pc[t] = "barrier" /\ ip'[t] = ip[t] /\ member(t)' = member(t) /\ (Stale(t)' => Stale(t))
      <3>1. CASE t = Master
        BY <2>1, <2>2, <3>1
      <3>2. CASE t # Master
        BY <2>2, <3>2, MasterFrameKept, Members
      <3> QED
        BY <3>1, <3>2
    <2>3. \A w \in Workers : pc'[w] = "taskwait" => pc[w] = "taskwait" /\ wtask'[w] = wtask[w]
      OBVIOUS
    <2>4. HistoryInv /\ BarrierSeparates
      BY DEF IInv
    <2> QED
      BY <2>2, <2>3, <2>4, KeepHistory
  <1> QED
    BY <1>1, <1>3, <1>4, <1>5 DEF IInv

(* In a region the program, the pool and its threads do not change.        *)
LEMMA InsideKept ==
  ASSUME IInv, Inside, Inside', pc[Master] # "grow", pc'[Master] # "grow",
         UNCHANGED <<pool, bomp_num_threads, thread_count, threads, started, max, program>>,
         Born' = Born, \A w \in Workers : wpc'[w] = "exited" <=> wpc[w] = "exited"
  PROVE  ProgramInv' /\ StaffInv'
  <1>1. pool = "live" /\ Up /\ Up' /\ pc[Master] # "join" /\ pc'[Master] # "join"
    BY DEF IInv, MasterInv, Up, Inside
  <1>2. {w \in Born : wpc[w] # "exited"}' = {w \in Born : wpc[w] # "exited"}
    BY Members
  <1>3. ProgramInv'
    BY <1>1 DEF IInv, ProgramInv, Tuned
  <1>4. StaffInv'
    BY <1>1, <1>2 DEF IInv, StaffInv
  <1> QED
    BY <1>3, <1>4

(* What the master does in a region: it is thread 0, and the region is     *)
(* there.                                                                  *)
LEMMA RegionFacts ==
  ASSUME Cooperative, IInv, Inside
  PROVE  /\ pool = "live" /\ ~shutdown /\ bomp_num_threads >= 2 /\ omp_in_parallel
         /\ g_array = region /\ g_array # 0 /\ region \in 1 .. MaxRegions /\ region \in Nat \ {0}
         /\ team[region] = bomp_num_threads /\ team[region] \in Nat
         /\ thread_id(Master) = 0 /\ member(Master) = <<region, 0>>
         /\ ip[Master] \in 1 .. End /\ ip[Master] \in Nat
         /\ NextOp(Master) \in {"barrier", "master", "return"}
         /\ NextOp(Master) = "return" => ip[Master] = End
         /\ NextOp(Master) = "master" => ip[Master] \notin Barriers /\ ip[Master] + 1 \in 1 .. Len(Body) + 1
         /\ NextOp(Master) = "barrier" => ip[Master] \in Barriers /\ ip[Master] + 1 \in 1 .. Len(Body) + 1
  <1>1. /\ pool = "live" /\ ~shutdown /\ g_array = region /\ region >= 1 /\ region <= MaxRegions
        /\ g_thread_numbers = team[region] /\ team[region] = bomp_num_threads
    BY DEF IInv, MasterInv
  <1>2. bomp_num_threads >= 2 /\ bomp_num_threads \in Nat /\ region \in Nat /\ MaxRegions \in Nat
    BY <1>1 DEF IInv, StaffInv, TypeOK, region, Cooperative
  <1>3. omp_in_parallel
    BY <1>1, <1>2 DEF omp_in_parallel
  <1>4. ip[Master] \in 1 .. End /\ ip[Master] \in Nat
    BY Members, Places DEF IInv, TypeOK
  <1>5. /\ NextOp(Master) \in {"barrier", "master", "return"}
        /\ NextOp(Master) = "return" => ip[Master] = End
        /\ NextOp(Master) = "master" => ip[Master] \notin Barriers /\ ip[Master] + 1 \in 1 .. Len(Body) + 1
        /\ NextOp(Master) = "barrier" => ip[Master] \in Barriers /\ ip[Master] + 1 \in 1 .. Len(Body) + 1
    <2>1. CASE ip[Master] <= Len(Body)
      <3>1. ip[Master] \in 1 .. Len(Body)
        BY <1>4, <2>1, Places
      <3>2. Body[ip[Master]] \in {"barrier", "master"} /\ (Body[ip[Master]] = "barrier" <=> ip[Master] \in Barriers)
        BY <3>1, Places
      <3>3. NextOp(Master) = Body[ip[Master]]
        BY <2>1 DEF NextOp
      <3> QED
        BY <3>1, <3>2, <3>3, Places
    <2>2. CASE ~(ip[Master] <= Len(Body))
      BY <1>4, <2>2, Places DEF NextOp
    <2> QED
      BY <2>1, <2>2
  <1> QED
    BY <1>1, <1>2, <1>3, <1>4, <1>5 DEF thread_id, member

(* The master moves on in the open region.                                 *)
MovesOn ==
  /\ pc' = [pc EXCEPT ![Master] = pc'[Master]] /\ ip' = [ip EXCEPT ![Master] = ip'[Master]]
  /\ depth' = [depth EXCEPT ![Master] = depth'[Master]] /\ nested' = depth'[Master]
  /\ UNCHANGED <<poolVars, barrierVars, bomp_num_threads, g_thread_numbers, g_array,
                 index, own, program, team, reached, crossed>>
  /\ done \subseteq done'

(* A step of the master within a region that is neither a wait nor adds    *)
(* work: what it owes of the place the master is at                        *)
LEMMA MovedInside ==
  ASSUME Cooperative, IInv, Opened, MovesOn, pc[Master] \notin Waitpoint,
         pc[Master] = "adding" => index[Master] = team[region],
         pc'[Master] \in {"incr", "body", "end", "endprocessing", "decr"},
         ip'[Master] \in 1 .. Len(Body) + 1, depth'[Master] \in 0 .. 2,
         pc'[Master] = "incr" => depth'[Master] \in {0, 1},
         pc'[Master] \in {"body", "endprocessing"} => depth'[Master] = 1,
         pc'[Master] = "end" => depth'[Master] \in {1, 2},
         pc'[Master] = "decr" => depth'[Master] = 2,
         (pc'[Master] = "incr" /\ depth'[Master] = 1) \/ depth'[Master] = 2 =>
           ip'[Master] = ip[Master] /\ NextOp(Master) = "master",
         (pc'[Master] = "end" /\ depth'[Master] = 1) \/ pc'[Master] = "endprocessing" =>
           ip'[Master] = End,
         \A p \in Barriers : NextBarrier(From(Master), p) =>
           NextBarrier(IF depth'[Master] = 0 THEN 1 ELSE ip'[Master], p)
  PROVE  IInv'
  <1> DEFINE where == pc'[Master]
             i == ip'[Master]
             d == depth'[Master]
  <1> USE DEF MovesOn
  <1>0. Master \in Threads /\ Master \notin Workers /\ \A w \in Workers : w \in Threads
    BY Members
  <1>1. pc'[Master] = where /\ ip'[Master] = i /\ depth'[Master] = d
    BY <1>0 DEF IInv, TypeOK
  <1>2. TypeOK'
    <2>1. PoolTypeOK' /\ BarrierTypeOK'
      BY DEF IInv, TypeOK, PoolTypeOK, BarrierTypeOK, poolVars, barrierVars
    <2>2. pc' \in [Threads -> PCs]
      <3>1. where \in PCs /\ pc \in [Threads -> PCs] /\ pc' = [pc EXCEPT ![Master] = where]
        BY DEF IInv, TypeOK, PCs, RegionPC
      <3> QED
        BY <1>0, <3>1
    <2>3. ip' \in [Threads -> 1 .. Len(Body) + 1]
      BY <1>0 DEF IInv, TypeOK
    <2>4. depth' \in [Threads -> 0 .. 2]
      <3>1. depth' = [depth EXCEPT ![Master] = d] /\ d \in 0 .. 2 /\ depth \in [Threads -> 0 .. 2]
        BY DEF IInv, TypeOK
      <3> QED
        BY <1>0, <3>1
    <2>5. nested' \in Int
      OBVIOUS
    <2> QED
      BY <2>1, <2>2, <2>3, <2>4, <2>5 DEF IInv, TypeOK, PCs, region
  <1>3. MasterFrame
    BY <1>0 DEF MasterFrame, IInv, TypeOK, poolVars, barrierVars
  <1>4. Inside /\ Inside' /\ Opened' /\ pc[Master] # "grow"
    BY <1>1 DEF Opened, Inside
  <1>5. Born' = Born /\ Team' = Team /\ region' = region
    BY DEF Born, Team, poolVars, region
  <1>6. Added' = Added
    BY <1>1, <1>5 DEF Added
  <1>7. ProgramInv' /\ StaffInv'
    BY <1>1, <1>4, <1>5, InsideKept DEF poolVars, barrierVars
  <1>8. MasterInv'
    <2>1. /\ pool' = pool /\ shutdown' = shutdown /\ threads' = threads /\ max' = max
      BY DEF poolVars, barrierVars
    <2>2. /\ pool = "live" /\ ~shutdown
          /\ g_array = region /\ region >= 1 /\ region <= MaxRegions
          /\ g_thread_numbers = team[region] /\ team[region] = bomp_num_threads /\ Tuned
          /\ program # << >> /\ Head(program).op = "fork"
      BY <1>4 DEF IInv, MasterInv
    <2>3. NextOp(Master)' = IF i = ip[Master] THEN NextOp(Master) ELSE NextOp(Master)'
      BY <1>1 DEF NextOp
    <2>4. pc'[Master] \in MasterPC \cup RegionPC
      BY <1>1 DEF RegionPC
    <2>5. Tuned'
      BY <2>1, <2>2 DEF Tuned
    <2> QED
      BY <1>1, <1>4, <1>5, <2>1, <2>2, <2>3, <2>4, <2>5 DEF MasterInv
  <1>9. ArrivalInv'
    <2>1. \A t \in Threads : pc'[t] \in {"barrier", "taskwait", "endwait"}
                           <=> pc[t] \in {"barrier", "taskwait", "endwait"}
      BY <1>0, <1>1 DEF IInv, TypeOK, Waitpoint
    <2> QED
      BY <1>4, <1>5, <2>1, KeepArrival DEF IInv, barrierVars
  <1>10. From(Master)' = IF d = 0 THEN 1 ELSE i
    <2>1. bpc'[Master] = "out"
      BY <1>0 DEF IInv, ArrivalInv, barrierVars, Waitpoint
    <2> QED
      BY <1>1, <2>1 DEF From, Outside, Stale
  <1>11. UNCHANGED <<queue, head, tail, count>>
    BY DEF poolVars
  <1> QED
    BY <1>1, <1>2, <1>3, <1>4, <1>5, <1>6, <1>7, <1>8, <1>9, <1>10, <1>11, MasterInside

(* These steps: the last work item has been added, a region is counted,    *)
(* the body ends, a nested region is started or left.                      *)
LEMMA MasterMoves ==
  ASSUME Cooperative, IInv,
         \/ AddedAll(Master) \/ CountRegion(Master) \/ (BodyFork(Master) /\ StartNested(Master))
         \/ MasterBodyEnds(Master) \/ ParallelEnd(Master)
         \/ (UncountRegion(Master) /\ depth[Master] = 2)
  PROVE  IInv'
  <1>0. Master \in Threads /\ pc \in [Threads -> PCs] /\ ip \in [Threads -> 1 .. Len(Body) + 1]
        /\ depth \in [Threads -> 0 .. 2] /\ nested = depth[Master]
    BY Members DEF IInv, TypeOK, PCs, MasterInv
  <1>1. pc[Master] \in {"adding", "incr", "body", "end", "decr"} /\ (pc[Master] = "decr" => depth[Master] = 2)
    BY DEF AddedAll, CountRegion, BodyFork, MasterBodyEnds, ParallelEnd, UncountRegion
  <1>2. Opened /\ Inside /\ pc[Master] \notin Waitpoint
    BY <1>1 DEF Opened, Inside, Waitpoint
  <1>3. /\ UNCHANGED <<poolVars, barrierVars, bomp_num_threads, g_thread_numbers, g_array,
                       index, own, program, team, reached, crossed>>
        /\ done \subseteq done'
    BY DEF AddedAll, CountRegion, StartNested, MasterBodyEnds, ParallelEnd, UncountRegion, regionVars, history
  <1>4. From(Master) = IF depth[Master] = 0 THEN 1 ELSE ip[Master]
    <2>1. bpc[Master] = "out"
      BY <1>0, <1>2 DEF IInv, ArrivalInv, Waitpoint
    <2> QED
      BY <2>1 DEF From, Outside, Stale
  <1>5. pc[Master] = "adding" => own[Master] = region
    BY DEF IInv, MasterInv
  <1>6. ASSUME NEW where, NEW i, NEW d, pc' = [pc EXCEPT ![Master] = where],
               ip' = [ip EXCEPT ![Master] = i], depth' = [depth EXCEPT ![Master] = d], nested' = d
        PROVE  MovesOn /\ pc'[Master] = where /\ ip'[Master] = i /\ depth'[Master] = d
    BY <1>0, <1>3, <1>6 DEF MovesOn
  <1>7. ip[Master] \in 1 .. Len(Body) + 1 /\ depth[Master] \in 0 .. 2
    BY <1>0
  <1>8. CASE AddedAll(Master)
    <2>1. /\ pc[Master] = "adding" /\ index[Master] = team[region] /\ depth[Master] = 0
          /\ pc' = [pc EXCEPT ![Master] = "incr"]
          /\ ip' = [ip EXCEPT ![Master] = ip[Master]] /\ depth' = [depth EXCEPT ![Master] = 0] /\ nested' = 0
      BY <1>0, <1>5, <1>8 DEF AddedAll, Goto, regionVars, IInv, MasterInv
    <2>2. MovesOn /\ pc'[Master] = "incr" /\ ip'[Master] = ip[Master] /\ depth'[Master] = 0
      BY <1>6, <2>1
    <2> QED
      BY <1>2, <1>3, <1>4, <1>7, <2>1, <2>2, MovedInside
  <1>9. CASE CountRegion(Master)
    <2>1. pc[Master] = "incr" /\ depth[Master] \in {0, 1}
      BY <1>9 DEF CountRegion, IInv, MasterInv
    <2>2. CASE depth[Master] = 0
      <3>1. /\ pc' = [pc EXCEPT ![Master] = "body"] /\ nested' = 1
            /\ ip' = [ip EXCEPT ![Master] = 1] /\ depth' = [depth EXCEPT ![Master] = 1]
        BY <1>0, <1>9, <2>2 DEF CountRegion, Goto
      <3>2. 1 \in 1 .. Len(Body) + 1
        BY Places
      <3>3. MovesOn /\ pc'[Master] = "body" /\ ip'[Master] = 1 /\ depth'[Master] = 1
        BY <1>6, <3>1
      <3> QED
        BY <1>2, <1>3, <1>4, <2>1, <2>2, <3>1, <3>2, <3>3, MovedInside
    <2>3. CASE depth[Master] = 1
      <3>1. /\ pc' = [pc EXCEPT ![Master] = "end"] /\ nested' = 2
            /\ ip' = [ip EXCEPT ![Master] = ip[Master]] /\ depth' = [depth EXCEPT ![Master] = 2]
            /\ NextOp(Master) = "master"
        BY <1>0, <1>9, <2>1, <2>3 DEF CountRegion, Goto, IInv, MasterInv
      <3>2. MovesOn /\ pc'[Master] = "end" /\ ip'[Master] = ip[Master] /\ depth'[Master] = 2
        BY <1>6, <3>1
      <3> QED
        BY <1>2, <1>3, <1>4, <1>7, <2>1, <2>3, <3>1, <3>2, MovedInside
    <2> QED
      BY <2>1, <2>2, <2>3
  <1>10. CASE BodyFork(Master) /\ StartNested(Master)
    <2>1. /\ pc[Master] = "body" /\ depth[Master] = 1 /\ NextOp(Master) = "master"
          /\ pc' = [pc EXCEPT ![Master] = "incr"] /\ nested' = 1
          /\ ip' = [ip EXCEPT ![Master] = ip[Master]] /\ depth' = [depth EXCEPT ![Master] = 1]
      BY <1>0, <1>2, <1>10, RegionFacts DEF BodyFork, StartNested, Goto, regionVars, IInv, MasterInv
    <2>2. MovesOn /\ pc'[Master] = "incr" /\ ip'[Master] = ip[Master] /\ depth'[Master] = 1
      BY <1>6, <2>1
    <2> QED
      BY <1>2, <1>3, <1>4, <1>7, <2>1, <2>2, MovedInside
  <1>11. CASE MasterBodyEnds(Master)
    <2>1. /\ pc[Master] = "body" /\ depth[Master] = 1 /\ ip[Master] = End
          /\ pc' = [pc EXCEPT ![Master] = "end"] /\ nested' = 1
          /\ ip' = [ip EXCEPT ![Master] = ip[Master]] /\ depth' = [depth EXCEPT ![Master] = 1]
      BY <1>0, <1>2, <1>11, RegionFacts DEF MasterBodyEnds, Goto, regionVars, IInv, MasterInv
    <2>2. MovesOn /\ pc'[Master] = "end" /\ ip'[Master] = ip[Master] /\ depth'[Master] = 1
      BY <1>6, <2>1
    <2> QED
      BY <1>2, <1>3, <1>4, <1>7, <2>1, <2>2, MovedInside
  <1>12. CASE ParallelEnd(Master)
    <2>1. /\ pc[Master] = "end" /\ depth[Master] \in {1, 2}
          /\ pc' = [pc EXCEPT ![Master] = IF depth[Master] = 1 THEN "endprocessing" ELSE "decr"]
          /\ nested' = depth[Master] /\ ip' = [ip EXCEPT ![Master] = ip[Master]]
          /\ depth' = [depth EXCEPT ![Master] = depth[Master]]
      BY <1>0, <1>12 DEF ParallelEnd, Goto, regionVars, IInv, MasterInv
    <2>2. CASE depth[Master] = 1
      <3>1. ip[Master] = End
        BY <2>1, <2>2 DEF IInv, MasterInv
      <3>2. pc' = [pc EXCEPT ![Master] = "endprocessing"]
        BY <2>1, <2>2
      <3>3. MovesOn /\ pc'[Master] = "endprocessing" /\ ip'[Master] = ip[Master] /\ depth'[Master] = 1
        BY <1>6, <2>1, <2>2, <3>2
      <3> QED
        BY <1>2, <1>3, <1>4, <1>7, <2>1, <2>2, <3>1, <3>2, <3>3, MovedInside
    <2>3. CASE depth[Master] = 2
      <3>1. NextOp(Master) = "master"
        BY <2>1, <2>3 DEF IInv, MasterInv
      <3>2. /\ pc' = [pc EXCEPT ![Master] = "decr"] /\ depth' = [depth EXCEPT ![Master] = 2]
            /\ ip' = [ip EXCEPT ![Master] = ip[Master]] /\ nested' = 2
        BY <2>1, <2>3
      <3>3. MovesOn /\ pc'[Master] = "decr" /\ ip'[Master] = ip[Master] /\ depth'[Master] = 2
        BY <1>6, <3>2
      <3> QED
        BY <1>2, <1>3, <1>4, <1>7, <2>1, <2>3, <3>1, <3>2, <3>3, MovedInside
    <2> QED
      BY <2>1, <2>2, <2>3
  <1>13. CASE UncountRegion(Master) /\ depth[Master] = 2
    <2>1. /\ pc[Master] = "decr" /\ NextOp(Master) = "master"
          /\ pc' = [pc EXCEPT ![Master] = "body"] /\ nested' = 1
          /\ ip' = [ip EXCEPT ![Master] = ip[Master] + 1] /\ depth' = [depth EXCEPT ![Master] = 1]
      BY <1>0, <1>13 DEF UncountRegion, Goto, IInv, MasterInv
    <2>2. ip[Master] \notin Barriers /\ ip[Master] + 1 \in 1 .. Len(Body) + 1 /\ ip[Master] \in Nat
      BY <1>2, <2>1, RegionFacts
    <2>3. \A p \in Barriers : NextBarrier(From(Master), p) => NextBarrier(ip[Master] + 1, p)
      BY <1>4, <1>13, <2>2, NextAt
    <2>4. MovesOn /\ pc'[Master] = "body" /\ ip'[Master] = ip[Master] + 1 /\ depth'[Master] = 1
      BY <1>6, <2>1
    <2> QED
      BY <1>2, <1>3, <2>1, <2>2, <2>3, <2>4, MovedInside
  <1> QED
    BY <1>8, <1>9, <1>10, <1>11, <1>12, <1>13

(* The master enters, is in or leaves a wait of the region.                *)
LEMMA MasterInvAt ==
  ASSUME Cooperative, IInv, Inside, depth' = depth, depth[Master] = 1,
         UNCHANGED <<pool, shutdown, regionVars, index, own, program, team, max, threads>>,
         pc'[Master] \in {"body", "barrier", "endwait", "clear"},
         pc'[Master] = "barrier" => NextOp(Master)' = "barrier",
         pc'[Master] = "endwait" => ip'[Master] = End
  PROVE  MasterInv' /\ Inside'
  <1>1. Inside'
    BY DEF Inside
  <1>2. /\ pool = "live" /\ ~shutdown /\ nested = 1
        /\ g_array = region /\ region >= 1 /\ region <= MaxRegions
        /\ g_thread_numbers = team[region] /\ team[region] = bomp_num_threads /\ Tuned
        /\ program # << >> /\ Head(program).op = "fork"
    BY DEF IInv, MasterInv
  <1>3. region' = region /\ Tuned' /\ nested' = nested /\ g_array' = g_array
        /\ g_thread_numbers' = g_thread_numbers /\ bomp_num_threads' = bomp_num_threads
    BY <1>2 DEF region, Tuned, regionVars
  <1>4. pc'[Master] \in MasterPC \cup RegionPC
    BY DEF RegionPC
  <1> QED
    BY <1>1, <1>2, <1>3, <1>4 DEF MasterInv

(* The master enters a wait.                                               *)
LEMMA MasterWaits ==
  ASSUME Cooperative, IInv, BodyBarrier(Master) \/ EndProcessing(Master)
  PROVE  IInv'
  <1>0. Master \in Threads /\ Master \notin Workers /\ \A w \in Workers : w \in Threads
    BY Members
  <1>1. /\ pc[Master] \in {"body", "endprocessing"} /\ Opened /\ Inside /\ bpc[Master] = "out"
        /\ depth[Master] = 1
    <2>1. pc[Master] \in {"body", "endprocessing"}
      BY DEF BodyBarrier, EndProcessing
    <2> QED
      BY <1>0, <2>1 DEF Opened, Inside, IInv, ArrivalInv, MasterInv
  <1>2. /\ bpc' = [bpc EXCEPT ![Master] = "add"] /\ local' = [local EXCEPT ![Master] = cycle]
        /\ UNCHANGED <<poolVars, regionVars, max, cycle, counter, ip, depth, index, own,
                       program, team, crossed, done>>
        /\ reached \subseteq reached'
    BY DEF BodyBarrier, EndProcessing, ReadCycle, history
  <1>3. /\ pc'[Master] \in {"barrier", "endwait"} /\ pc' = [pc EXCEPT ![Master] = pc'[Master]]
        /\ pc'[Master] = "barrier" => NextOp(Master) = "barrier" /\ <<<<region, 0>>, ip[Master]>> \in reached'
        /\ pc'[Master] = "endwait" => ip[Master] = End
    <2>1. pc \in [Threads -> PCs]
      BY DEF IInv, TypeOK, PCs
    <2>2. CASE BodyBarrier(Master)
      BY <1>0, <1>1, <2>1, <2>2, RegionFacts DEF BodyBarrier, Goto
    <2>3. CASE EndProcessing(Master)
      BY <1>0, <1>1, <2>1, <2>3 DEF EndProcessing, Goto, IInv, MasterInv
    <2> QED
      BY <2>2, <2>3
  <1>4. TypeOK'
    <2>1. PoolTypeOK' /\ BarrierTypeOK'
      BY <1>0, <1>2 DEF IInv, TypeOK, PoolTypeOK, BarrierTypeOK, BarrierPC, poolVars
    <2>2. pc' \in [Threads -> PCs]
      <3>1. pc'[Master] \in PCs /\ pc \in [Threads -> PCs]
        BY <1>3 DEF IInv, TypeOK, PCs, RegionPC
      <3> QED
        BY <1>0, <1>3, <3>1
    <2> QED
      BY <1>2, <2>1, <2>2 DEF IInv, TypeOK, PCs, regionVars, region
  <1>5. MasterFrame
    BY <1>0, <1>2, <1>3 DEF MasterFrame, IInv, TypeOK, BarrierTypeOK, poolVars
  <1>6. Born' = Born /\ Team' = Team /\ region' = region /\ Added' = Added
    BY <1>1, <1>2, <1>3 DEF Born, Team, poolVars, region, Added
  <1>7. MasterInv' /\ Inside'
    <2>1. NextOp(Master)' = NextOp(Master)
      BY <1>2 DEF NextOp
    <2> QED
      BY <1>1, <1>2, <1>3, <2>1, MasterInvAt DEF poolVars
  <1>8. ~Stale(Master) /\ ~Stale(Master)' /\ Opened'
    <2>1. ~Stale(Master) /\ ~Stale(Master)'
      BY <1>0, <1>1, <1>2 DEF Stale, IInv, TypeOK, BarrierTypeOK
    <2> QED
      BY <1>3, <1>7, <2>1 DEF Opened
  <1>9. From(Master)' = From(Master)
    BY <1>1, <1>2, <1>8 DEF From, Outside
  <1>10. ProgramInv' /\ StaffInv'
    BY <1>1, <1>2, <1>3, <1>6, <1>7, InsideKept DEF poolVars, regionVars
  <1>11. ArrivalInv'
    <2>1. TypeOK /\ ArrivalInv /\ Master \in Team /\ pc'[Master] \in Waitpoint
      BY <1>3, Members DEF IInv, Waitpoint
    <2>2. \A q \in Threads \ {Master} : pc'[q] = pc[q]
      BY <1>3 DEF IInv, TypeOK
    <2> QED
      BY <1>0, <1>1, <1>2, <1>6, <1>8, <2>1, <2>2, EnterArrival
  <1> QED
    BY <1>1, <1>2, <1>3, <1>4, <1>5, <1>6, <1>7, <1>8, <1>9, <1>10, <1>11, MasterInside DEF poolVars

(* The master is inside a wait.                                            *)
LEMMA MasterWaiting ==
  ASSUME Cooperative, IInv, Waiting(Master)
  PROVE  IInv'
  <1>0. Master \in Threads /\ Master \notin Workers /\ \A w \in Workers : w \in Threads
    BY Members
  <1>1. /\ bpc[Master] # "out" /\ ~Stale(Master) /\ ~Stale(Master)' /\ BarrierTypeOK'
        /\ \A q \in Threads \ {Master} : bpc'[q] = bpc[q] /\ local'[q] = local[q]
        /\ cycle' = cycle /\ max' = max
    BY <1>0, WaitEffect
  <1>2. UNCHANGED <<poolVars, regionVars, threadVars, program, history>>
    BY DEF Waiting
  <1>3. UNCHANGED <<pool, shutdown, queue, head, tail, count, thread_count, threads, started, wpc, wtask, pc, ip, depth,
                    index, own, team, done, reached, crossed, bomp_num_threads>>
    BY <1>2 DEF poolVars, threadVars, history, regionVars
  <1>4. TypeOK'
    BY <1>1, <1>2 DEF IInv, TypeOK, PoolTypeOK, poolVars, regionVars, threadVars, history, region
  <1>5. MasterFrame
    BY <1>0, <1>1, <1>3 DEF MasterFrame
  <1>6. Opened /\ pc[Master] \in {"barrier", "endwait"}
    BY <1>0, <1>1, Current, Waits
  <1>7. Inside /\ Inside' /\ Opened' /\ depth[Master] = 1 /\ From(Master)' = From(Master)
    BY <1>1, <1>3, <1>6 DEF Inside, Opened, From, Outside, IInv, MasterInv
  <1>8. Born' = Born /\ Team' = Team /\ Added' = Added
    BY <1>3 DEF Born, Team, Added, region
  <1>9. MasterInv'
    <2>1. NextOp(Master)' = NextOp(Master)
      BY <1>3 DEF NextOp
    <2>2. /\ pc[Master] = "barrier" => NextOp(Master) = "barrier"
          /\ pc[Master] = "endwait" => ip[Master] = End
      BY DEF IInv, MasterInv
    <2> QED
      BY <1>1, <1>2, <1>3, <1>6, <1>7, <2>1, <2>2, MasterInvAt
  <1>10. ProgramInv' /\ StaffInv'
    BY <1>1, <1>2, <1>3, <1>6, <1>7, <1>8, InsideKept
  <1>11. ArrivalInv'
    BY <1>0, <1>6, <1>7, <1>8, WaitArrival
  <1> QED
    BY <1>1, <1>3, <1>4, <1>5, <1>6, <1>7, <1>8, <1>9, <1>10, <1>11, MasterInside

(* What leaving a wait does besides the barrier.                           *)
LEMMA MasterLeft ==
  ASSUME Cooperative, IInv, LeaveBarrier(Master) \/ LeaveEnd(Master)
  PROVE  /\ pc' = [pc EXCEPT ![Master] = pc'[Master]] /\ ip' = [ip EXCEPT ![Master] = ip'[Master]]
         /\ UNCHANGED <<poolVars, regionVars, depth, index, own, program, team, done, reached, max, local, counter>>
         /\ bpc' = [bpc EXCEPT ![Master] = "out"] /\ cycle' \in {0, 1}
         /\ Born' = Born /\ Team' = Team /\ region' = region
         /\ TypeOK' /\ MasterInv' /\ Inside' /\ ProgramInv' /\ StaffInv'
         /\ Inside /\ depth[Master] = 1 /\ bpc[Master] # "out" /\ pc'[Master] # "barrier"
         /\ \/ /\ pc[Master] = "barrier" /\ pc'[Master] = "body" /\ ip'[Master] = ip[Master] + 1
               /\ crossed' = crossed \cup {<<member(Master), ip[Master]>>}
            \/ /\ pc[Master] = "endwait" /\ pc'[Master] = "clear" /\ ip'[Master] = ip[Master]
               /\ crossed' = crossed
  <1>0. Master \in Threads
    BY Members
  <1>1. /\ pc[Master] \in {"barrier", "endwait"} /\ Inside /\ depth[Master] = 1
        /\ ip \in [Threads -> 1 .. Len(Body) + 1] /\ pc \in [Threads -> PCs]
    <2>1. pc[Master] \in {"barrier", "endwait"}
      BY DEF LeaveBarrier, LeaveEnd
    <2> QED
      BY <2>1 DEF Inside, IInv, MasterInv, TypeOK, PCs
  <1>2. /\ UNCHANGED <<poolVars, regionVars, depth, index, own, program, team, done, reached, max, local, counter>>
        /\ bpc' = [bpc EXCEPT ![Master] = "out"] /\ cycle' \in {0, 1} /\ bpc[Master] # "out"
    BY <1>0 DEF LeaveBarrier, LeaveEnd, WaitReturn, StoreCycle, SpinExit, history, IInv, TypeOK, BarrierTypeOK
  <1>3. /\ pc' = [pc EXCEPT ![Master] = pc'[Master]] /\ ip' = [ip EXCEPT ![Master] = ip'[Master]]
        /\ \/ /\ pc[Master] = "barrier" /\ pc'[Master] = "body" /\ ip'[Master] = ip[Master] + 1
              /\ crossed' = crossed \cup {<<member(Master), ip[Master]>>}
           \/ /\ pc[Master] = "endwait" /\ pc'[Master] = "clear" /\ ip'[Master] = ip[Master]
              /\ crossed' = crossed
    <2>1. CASE LeaveBarrier(Master)
      BY <1>0, <1>1, <2>1 DEF LeaveBarrier, Goto
    <2>2. CASE LeaveEnd(Master)
      BY <1>0, <1>1, <2>2 DEF LeaveEnd, Goto, history
    <2> QED
      BY <2>1, <2>2
  <1>4. ip'[Master] \in 1 .. Len(Body) + 1
    <2>1. CASE pc[Master] = "barrier"
      <3>1. NextOp(Master) = "barrier"
        BY <2>1 DEF IInv, MasterInv
      <3> QED
        BY <1>1, <1>3, <2>1, <3>1, RegionFacts
    <2>2. CASE pc[Master] = "endwait"
      BY <1>0, <1>1, <1>3, <2>2
    <2> QED
      BY <1>1, <2>1, <2>2
  <1>5. TypeOK'
    <2>1. PoolTypeOK' /\ BarrierTypeOK'
      BY <1>0, <1>2 DEF IInv, TypeOK, PoolTypeOK, BarrierTypeOK, BarrierPC, poolVars
    <2>2. pc' \in [Threads -> PCs]
      <3>1. pc'[Master] \in PCs
        BY <1>3 DEF PCs, RegionPC
      <3> QED
        BY <1>0, <1>1, <1>3, <3>1
    <2>3. ip' \in [Threads -> 1 .. Len(Body) + 1]
      BY <1>0, <1>1, <1>3, <1>4
    <2> QED
      BY <1>2, <2>1, <2>2, <2>3 DEF IInv, TypeOK, PCs, regionVars, region
  <1>6. Born' = Born /\ Team' = Team /\ region' = region
    BY <1>2 DEF Born, Team, poolVars, region
  <1>7. MasterInv' /\ Inside'
    BY <1>1, <1>2, <1>3, MasterInvAt DEF poolVars
  <1>8. ProgramInv' /\ StaffInv'
    BY <1>1, <1>2, <1>3, <1>6, <1>7, InsideKept DEF poolVars, regionVars
  <1> QED
    BY <1>1, <1>2, <1>3, <1>5, <1>6, <1>7, <1>8

(* The master sees that its wait is over.                                  *)
LEMMA MasterLeaves ==
  ASSUME Cooperative, IInv, LeaveBarrier(Master) \/ LeaveEnd(Master), SpinExit(Master)
  PROVE  IInv'
  <1>0. Master \in Threads /\ Master \notin Workers /\ \A w \in Workers : w \in Threads
    BY Members
  <1>1. Stale(Master) /\ cycle' = cycle
    BY DEF SpinExit, Stale
  <1>2. MasterFrame
    <2>1. UNCHANGED <<poolVars, local>> /\ bpc' = [bpc EXCEPT ![Master] = "out"]
          /\ pc' = [pc EXCEPT ![Master] = pc'[Master]] /\ ip' = [ip EXCEPT ![Master] = ip'[Master]]
      BY MasterLeft
    <2> QED
      BY <1>0, <1>1, <2>1 DEF MasterFrame, poolVars, IInv, TypeOK, BarrierTypeOK
  <1>3. \A q \in Threads \ {Master} : pc'[q] = pc[q]
    BY <1>0, <1>2, Members DEF MasterFrame
  <1>4. UNCHANGED <<queue, head, tail, count, team, done, reached>> /\ pc'[Master] # "barrier"
        /\ Team' = Team /\ TypeOK' /\ MasterInv' /\ ProgramInv' /\ StaffInv'
    BY MasterLeft DEF poolVars
  <1>5. CASE pc[Master] = "barrier"
    <2>1. /\ pc'[Master] = "body" /\ ip'[Master] = ip[Master] + 1
          /\ crossed' = crossed \cup {<<member(Master), ip[Master]>>}
          /\ depth[Master] = 1 /\ depth' = depth /\ Inside /\ Inside' /\ region' = region
          /\ bpc'[Master] = "out"
      BY <1>0, <1>5, MasterLeft DEF IInv, TypeOK, BarrierTypeOK
    <2>2. Opened /\ Opened' /\ Added' = Added
      BY <1>4, <1>5, <2>1 DEF Opened, Added
    <2>3. From(Master) = ip[Master] + 1 /\ From(Master)' = ip[Master] + 1
      BY <1>1, <2>1 DEF From, Outside, Stale
    <2>4. ArrivalInv'
      <3>1. pc'[Master] \notin Waitpoint /\ TypeOK /\ ArrivalInv
        BY <2>1 DEF Waitpoint, IInv
      <3> QED
        BY <1>0, <1>3, <1>4, <2>2, <3>1, ExitArrival
    <2>5. ASSUME NEW c \in crossed', c \notin crossed
          PROVE  /\ c[1][1] = region /\ region \in Nat \ {0}
                 /\ \A i \in 0 .. team[region] - 1 : <<<<region, i>>, c[2]>> \in reached'
      <3>1. c[1] = <<region, 0>> /\ c[2] = ip[Master] /\ region \in Nat \ {0}
        BY <2>1, <2>5, RegionFacts
      <3> QED
        BY <1>0, <1>1, <1>4, <1>5, <3>1 DEF IInv, HistoryInv
    <2> QED
      BY <1>2, <1>4, <2>2, <2>3, <2>4, <2>5, MasterInside
  <1>6. CASE pc[Master] = "endwait"
    <2>1. pc'[Master] = "clear" /\ crossed' = crossed
      BY <1>6, MasterLeft
    <2>2. ~Opened /\ ~Opened'
      BY <1>1, <1>6, <2>1 DEF Opened
    <2>3. ArrivalInv'
      <3>1. pc'[Master] \notin Waitpoint /\ TypeOK /\ ArrivalInv
        BY <2>1 DEF Waitpoint, IInv
      <3> QED
        BY <1>0, <1>3, <1>4, <2>2, <3>1, ExitArrival
    <2> QED
      BY <1>2, <1>4, <2>1, <2>2, <2>3, MasterOutside
  <1> QED
    BY <1>5, <1>6, MasterLeft

(* The master is the last to arrive.                                       *)
LEMMA MasterOpens ==
  ASSUME Cooperative, IInv, LeaveBarrier(Master) \/ LeaveEnd(Master), StoreCycle(Master)
  PROVE  IInv'
  <1>0. Master \in Threads /\ Master \notin Workers /\ \A w \in Workers : w \in Threads
    BY Members
  <1>1. /\ pc' = [pc EXCEPT ![Master] = pc'[Master]] /\ ip' = [ip EXCEPT ![Master] = ip'[Master]]
        /\ UNCHANGED <<poolVars, depth, team, done, reached>>
        /\ Born' = Born /\ TypeOK' /\ MasterInv' /\ ProgramInv' /\ StaffInv'
    BY MasterLeft
  <1>2. UNCHANGED <<queue, head, tail, count, wpc, wtask>>
    BY <1>1 DEF poolVars
  <1>3. \A q \in Threads \ {Master} : pc'[q] = pc[q] /\ ip'[q] = ip[q] /\ depth'[q] = depth[q]
    BY <1>0, <1>1 DEF IInv, TypeOK
  <1>4. OpenFrame(Master)
    BY <1>1, <1>2, <1>3 DEF OpenFrame
  <1>5. \A w \in Workers : WorkerInv(w)'
    <2>1. ASSUME NEW w \in Workers PROVE WorkerInv(w)'
      <3>1. WorkerInv(w) /\ pc'[w] = pc[w] /\ ip'[w] = ip[w] /\ wpc'[w] = wpc[w]
        BY <1>0, <1>2, <1>3 DEF IInv
      <3> QED
        BY <3>1 DEF WorkerInv, NextOp
    <2> QED
      BY <2>1
  <1>6. CASE pc[Master] = "barrier"
    <2>1. /\ pc'[Master] = "body" /\ ip'[Master] = ip[Master] + 1 /\ depth'[Master] = depth[Master]
          /\ crossed' = crossed \cup {<<member(Master), ip[Master]>>}
      BY <1>6, MasterLeft
    <2>2. WorkInv' /\ PositionInv' /\ ArrivalInv' /\ HistoryInv' /\ BarrierSeparates'
      BY <1>0, <1>4, <1>6, <2>1, OpenBarrier
    <2> QED
      BY <1>1, <1>5, <2>2 DEF IInv
  <1>7. CASE pc[Master] = "endwait"
    <2>1. pc'[Master] = "clear" /\ crossed' = crossed
      BY <1>7, MasterLeft
    <2>2. WorkInv' /\ PositionInv' /\ ArrivalInv' /\ HistoryInv' /\ BarrierSeparates'
      BY <1>0, <1>4, <1>7, <2>1, OpenEnd
    <2> QED
      BY <1>1, <1>5, <2>2 DEF IInv
  <1> QED
    BY <1>6, <1>7, MasterLeft

(* Between regions every worker is away.                                   *)
LEMMA AllAway ==
  ASSUME IInv, ~Opened
  PROVE  \A w \in Workers : Away(w) /\ From(w) = 1 /\ pc[w] # "barrier"
  <1> SUFFICES ASSUME NEW w \in Workers PROVE Away(w) /\ From(w) = 1 /\ pc[w] # "barrier"
    OBVIOUS
  <1>1. HeldInv(w) /\ w # Master
    BY Members DEF IInv, WorkInv
  <1>2. Away(w)
    BY <1>1 DEF HeldInv, Away
  <1> QED
    BY <1>1, <1>2 DEF From, Outside, Away

(* A region is started.                                                    *)
LEMMA MasterStarts ==
  ASSUME Cooperative, IInv, StartProcessing(Master)
  PROVE  IInv'
  <1>0. Master \in Threads /\ Master \notin Workers /\ \A w \in Workers : w \in Threads
    BY Members
  <1>1. /\ pc[Master] = "alloc" /\ program # << >> /\ Head(program).op = "fork"
        /\ pool = "live" /\ region < MaxRegions
    BY DEF StartProcessing, IInv, MasterInv
  <1>2. /\ pc' = [pc EXCEPT ![Master] = "adding"] /\ index' = [index EXCEPT ![Master] = 1]
        /\ own' = [own EXCEPT ![Master] = region + 1] /\ g_array' = region + 1
        /\ team' = Append(team, bomp_num_threads)
        /\ UNCHANGED <<poolVars, barrierVars, bomp_num_threads, g_thread_numbers, nested, ip, depth,
                       program, done, reached, crossed>>
    BY DEF StartProcessing, Goto
  <1>3. UNCHANGED <<pool, queue, head, tail, count, shutdown, started, thread_count, threads, wpc, wtask,
                    max, cycle, counter, bpc, local>>
    BY <1>2 DEF poolVars, barrierVars
  <1>4. /\ pc'[Master] = "adding" /\ index'[Master] = 1 /\ own'[Master] = region + 1
        /\ \A t \in Threads \ {Master} : pc'[t] = pc[t]
    BY <1>0, <1>2 DEF IInv, TypeOK
  <1>5. /\ region \in Nat /\ region' = region + 1 /\ bomp_num_threads \in Nat
        /\ team' \in Seq(Nat) /\ team'[region + 1] = bomp_num_threads
        /\ \A r \in 1 .. region : team'[r] = team[r]
    <2>1. team \in Seq(Nat) /\ bomp_num_threads \in Nat
      BY DEF IInv, TypeOK
    <2> QED
      BY <1>2, <2>1, AppendProperties, LenProperties DEF region
  <1>6. /\ ~Opened /\ Opened' /\ Inside' /\ ~Inside /\ depth[Master] = 0 /\ nested = 0
        /\ g_thread_numbers = bomp_num_threads
    BY <1>1, <1>4 DEF Opened, Inside, IInv, MasterInv
  <1>7. Up /\ Up' /\ Tuned /\ ~shutdown
    <2>1. Up /\ Up' /\ ~shutdown
      BY <1>1, <1>3, <1>4 DEF Up, IInv, MasterInv
    <2>2. program \in Seq([op : {"set", "fork"}, n : Nat])
      BY DEF IInv, ProgramInv
    <2>3. 1 \in DOMAIN program /\ program[1].op = "fork"
      BY <1>1, <2>2
    <2> QED
      BY <2>1, <2>3 DEF IInv, ProgramInv
  <1>8. TypeOK'
    <2>1. PoolTypeOK' /\ BarrierTypeOK'
      BY <1>3 DEF IInv, TypeOK, PoolTypeOK, BarrierTypeOK
    <2>2. pc' \in [Threads -> PCs]
      BY <1>0, <1>2 DEF IInv, TypeOK, PCs, RegionPC
    <2>3. index' \in [Threads -> Nat] /\ own' \in [Threads -> 0 .. region + 1] /\ g_array' \in 0 .. region + 1
      BY <1>0, <1>2, <1>5 DEF IInv, TypeOK
    <2> QED
      BY <1>2, <1>5, <2>1, <2>2, <2>3 DEF IInv, TypeOK, PCs
  <1>9. MasterFrame
    BY <1>0, <1>2, <1>3, <1>4 DEF MasterFrame
  <1>10. Born' = Born /\ Team' = Team
    BY <1>3 DEF Born, Team
  <1>11. ProgramInv'
    BY <1>2, <1>3, <1>7 DEF IInv, ProgramInv, Tuned
  <1>12. StaffInv'
    BY <1>1, <1>2, <1>3, <1>4, <1>7, <1>10 DEF IInv, StaffInv
  <1>13. MasterInv'
    <2>1. Tuned' /\ pc'[Master] \in MasterPC \cup RegionPC /\ MaxRegions \in Nat /\ bomp_num_threads >= 2
      BY <1>1, <1>2, <1>3, <1>4, <1>7 DEF Tuned, MasterPC, Cooperative, IInv, StaffInv
    <2> QED
      BY <1>1, <1>2, <1>3, <1>4, <1>5, <1>6, <1>7, <2>1 DEF MasterInv
  <1>14. WorkInv'
    <2>1. QueueInv'
      <3>1. count = 0 /\ RingShape' /\ Added' = 1
        BY <1>3, <1>4, <1>6 DEF IInv, WorkInv, QueueInv, RingShape, Added
      <3> QED
        BY <1>3, <1>6, <3>1 DEF QueueInv
    <2>2. ASSUME NEW w \in Workers PROVE HeldInv(w)'
      <3> SUFFICES ASSUME pc'[w] # "idle"
                   PROVE  /\ Away(w)'
                          /\ \E r \in 1 .. region' : /\ Opened' => r < region'
                                                     /\ \E k \in 1 .. team'[r] - 1 : wtask'[w] = <<r, k>>
        BY DEF HeldInv
      <3>1. HeldInv(w) /\ pc[w] # "idle"
        BY <1>9 DEF IInv, WorkInv, MasterFrame
      <3>2. PICK r \in 1 .. region : \E k \in 1 .. team[r] - 1 : wtask[w] = <<r, k>>
        BY <1>6, <3>1 DEF HeldInv
      <3>3. r \in 1 .. region' /\ r < region' /\ team'[r] = team[r]
        BY <1>5
      <3> QED
        BY <1>3, <1>6, <1>9, <3>2, <3>3, AllAway, MasterFrameKept
    <2>3. \A v, w \in Workers :
            pc'[v] # "idle" /\ pc'[w] # "idle" /\ wtask'[v] = wtask'[w] => v = w
      BY <1>9 DEF IInv, WorkInv, MasterFrame
    <2> QED
      BY <2>1, <2>2, <2>3 DEF WorkInv
  <1>15. PositionInv'
    <2>1. ASSUME NEW t \in Team PROVE From(t)' = 1
      <3>1. CASE t = Master
        BY <1>2, <1>6, <3>1 DEF From, Outside
      <3>2. CASE t # Master
        BY <1>6, <1>9, <3>2, AllAway, MasterFrameKept, Members
      <3> QED
        BY <3>1, <3>2
    <2>2. 1 <= End
      BY Places
    <2>3. PICK p \in Barriers : NextBarrier(1, p)
      BY <2>2, NextExists
    <2>4. \A t \in Team' : NextBarrier(From(t)', p)
      BY <1>10, <2>1, <2>3
    <2> QED
      BY <2>4 DEF PositionInv, NextBarrier
  <1>16. ArrivalInv'
    <2>1. \A t \in Threads : pc'[t] \in {"barrier", "taskwait", "endwait"}
                           <=> pc[t] \in {"barrier", "taskwait", "endwait"}
      BY <1>1, <1>4
    <2> QED
      BY <1>3, <1>6, <1>10, <2>1, KeepArrival DEF IInv
  <1>17. HistoryInv' /\ BarrierSeparates'
    <2>1. ASSUME NEW r \in 1 .. region', r < region' \/ ~Opened', NEW i \in 1 .. team'[r] - 1
          PROVE  <<r, i>> \in done'
      <3>1. r \in 1 .. region /\ team'[r] = team[r]
        BY <1>5, <1>6, <2>1
      <3> QED
        BY <1>2, <1>6, <2>1, <3>1 DEF IInv, HistoryInv
    <2>2. \A w \in Workers : pc'[w] = "taskwait" => wtask'[w] \in done'
      BY <1>2, <1>9 DEF IInv, HistoryInv, MasterFrame
    <2>3. \A t \in Threads : pc'[t] # "barrier"
      BY <1>4, <1>6, AllAway, Members
    <2>4. ASSUME NEW c \in crossed'
          PROVE  c \in crossed /\ c[1][1] \in 1 .. region /\ c[1][1] \in 1 .. region'
                 /\ team'[c[1][1]] = team[c[1][1]]
      <3>1. c \in crossed /\ c[1][1] \in 1 .. region
        BY <1>2 DEF IInv, HistoryInv
      <3> QED
        BY <1>5, <3>1
    <2>5. BarrierSeparates'
      BY <1>2, <2>4 DEF IInv, BarrierSeparates
    <2> QED
      BY <2>1, <2>2, <2>3, <2>4, <2>5 DEF HistoryInv
  <1> QED
    BY <1>8, <1>9, <1>11, <1>12, <1>13, <1>14, <1>15, <1>16, <1>17, MasterFrameKept DEF IInv

(* The master adds the next work item, for which there is room.            *)
LEMMA MasterAdds ==
  ASSUME Cooperative, IInv, AddWork(Master)
  PROVE  IInv'
  <1>0. Master \in Threads /\ Master \notin Workers /\ \A w \in Workers : w \in Threads
    BY Members
  <1>1. pc[Master] = "adding" /\ Inside /\ Opened /\ Added = index[Master]
    BY DEF AddWork, Inside, Opened, Added
  <1>2. /\ own[Master] = region /\ index[Master] \in 1 .. team[region] - 1 /\ index[Master] \in Nat \ {0}
        /\ team[region] = bomp_num_threads /\ pool = "live" /\ ~shutdown
        /\ region \in 1 .. MaxRegions /\ bomp_num_threads \in Nat
    <2>1. own[Master] = region /\ 1 <= index[Master] /\ index[Master] < team[region]
      BY <1>1 DEF AddWork, IInv, MasterInv
    <2> QED
      BY <1>0, <1>1, <2>1, RegionFacts DEF IInv, TypeOK
  <1>3. /\ bomp_num_threads <= QueueSize + 1
        /\ (1 .. MaxRegions) \X (1 .. bomp_num_threads - 1) \subseteq Tasks
    <2>1. Up /\ Tuned
      BY <1>1, <1>2 DEF Up, IInv, MasterInv
    <2> QED
      BY <2>1 DEF IInv, ProgramInv
  <1>4. <<region, index[Master]>> \in Tasks
    BY <1>2, <1>3
  <1>5. PoolTypeOK /\ RingShape /\ count \in Nat /\ count <= index[Master] - 1 /\ count < QueueSize
    <2>1. PoolTypeOK /\ RingShape /\ count <= index[Master] - 1
      BY <1>1 DEF IInv, TypeOK, WorkInv, QueueInv
    <2>2. count \in Nat
      BY <2>1, QueueSizeAssumption DEF PoolTypeOK
    <2> QED
      BY <1>2, <1>3, <2>1, <2>2, QueueSizeAssumption
  <1>6. Enqueue(<<region, index[Master]>>)
    <2>1. AddResult = "ok"
      BY <1>2, <1>5 DEF AddResult
    <2> QED
      BY <1>2, <2>1 DEF AddWork, Add
  <1>7. /\ count' = count + 1 /\ count' \in 1 .. QueueSize
        /\ \A i \in 1 .. count : queue'[Slot(head, i)] = queue[Slot(head, i)]
        /\ queue'[Slot(head, count + 1)] = <<region, index[Master]>>
        /\ RingShape' /\ tail' \in 0 .. QueueSize - 1
        /\ queue' \in [0 .. QueueSize - 1 -> Tasks \cup {None}]
    BY <1>4, <1>5, <1>6, EnqueueRing DEF RingShape
  <1>8. /\ wpc' = WakeAll /\ UNCHANGED <<pool, head, shutdown, started, thread_count, threads, wtask>>
        /\ index' = [index EXCEPT ![Master] = index[Master] + 1]
        /\ UNCHANGED <<barrierVars, regionVars, pc, ip, depth, own, program, history>>
    BY <1>6 DEF Enqueue, AddWork
  <1>9. UNCHANGED <<max, cycle, counter, bpc, local, bomp_num_threads, g_thread_numbers, nested, g_array,
                    team, done, reached, crossed>>
    BY <1>8 DEF barrierVars, regionVars, history
  <1>10. /\ wpc' \in [Workers -> WorkerPC]
         /\ \A w \in Workers : /\ wpc'[w] = "busy" <=> wpc[w] = "busy"
                               /\ wpc'[w] = "unborn" <=> wpc[w] = "unborn"
                               /\ wpc'[w] = "exited" <=> wpc[w] = "exited"
    BY <1>5, <1>8 DEF WakeAll, PoolTypeOK, WorkerPC
  <1>11. TypeOK'
    <2>1. PoolTypeOK'
      BY <1>5, <1>7, <1>8, <1>10, QueueSizeAssumption DEF PoolTypeOK
    <2>2. BarrierTypeOK' /\ index' \in [Threads -> Nat]
      BY <1>0, <1>2, <1>8, <1>9 DEF IInv, TypeOK, BarrierTypeOK
    <2> QED
      BY <1>8, <1>9, <2>1, <2>2 DEF IInv, TypeOK, region
  <1>12. MasterFrame
    BY <1>8, <1>9, <1>10 DEF MasterFrame
  <1>13. /\ Born' = Born /\ Team' = Team /\ region' = region /\ index'[Master] = index[Master] + 1
         /\ Inside' /\ Opened' /\ Added' = index[Master] + 1
    <2>1. Born' = Born /\ Team' = Team /\ region' = region
      BY <1>9, <1>10 DEF Born, Team, region
    <2>2. index'[Master] = index[Master] + 1
      BY <1>0, <1>8 DEF IInv, TypeOK
    <2> QED
      BY <1>1, <1>8, <1>9, <2>1, <2>2 DEF Inside, Opened, Added
  <1>14. ProgramInv' /\ StaffInv'
    BY <1>1, <1>8, <1>9, <1>10, <1>13, InsideKept
  <1>15. MasterInv'
    <2>1. index'[Master] <= team[region] /\ 1 <= index'[Master]
      BY <1>2, <1>13
    <2>2. NextOp(Master)' = NextOp(Master) /\ Tuned' = Tuned
      BY <1>8, <1>9 DEF NextOp, Tuned
    <2> QED
      BY <1>1, <1>2, <1>8, <1>9, <1>13, <2>1, <2>2 DEF IInv, MasterInv
  <1>16. ASSUME NEW i \in 1 .. count
         PROVE  /\ \E k \in 1 .. index[Master] - 1 : queue'[Slot(head, i)] = <<region, k>>
                /\ queue'[Slot(head, i)] # <<region, index[Master]>>
                /\ \A j \in 1 .. count : queue'[Slot(head, i)] = queue'[Slot(head, j)] => i = j
                /\ \A w \in Workers : pc[w] # "idle" => wtask[w] # queue'[Slot(head, i)]
    <2>1. queue'[Slot(head, i)] = queue[Slot(head, i)]
      BY <1>7
    <2>2. PICK k \in 1 .. index[Master] - 1 : queue[Slot(head, i)] = <<region, k>>
      BY <1>1 DEF IInv, WorkInv, QueueInv
    <2>3. k # index[Master]
      BY <1>2
    <2>4. /\ \A j \in 1 .. count : queue[Slot(head, i)] = queue[Slot(head, j)] => i = j
          /\ \A w \in Workers : pc[w] # "idle" => wtask[w] # queue[Slot(head, i)]
      BY DEF IInv, WorkInv, QueueInv
    <2> QED
      BY <1>7, <2>1, <2>2, <2>3, <2>4
  <1>17. ASSUME NEW w \in Workers, pc[w] # "idle"
         PROVE  /\ HeldInv(w)' /\ wtask[w] # <<region, index[Master]>>
    <2>1. HeldInv(w) /\ (Away(w)' <=> Away(w)) /\ wtask'[w] = wtask[w]
      BY <1>12, MasterFrameKept DEF IInv, WorkInv, MasterFrame
    <2>2. CASE ~Away(w)
      <3>1. PICK k \in 1 .. index[Master] - 1 : wtask[w] = <<region, k>>
        BY <1>1, <1>17, <2>1, <2>2 DEF HeldInv
      <3>2. k \in 1 .. Added' - 1 /\ k # index[Master]
        BY <1>2, <1>13
      <3> QED
        BY <1>13, <2>1, <2>2, <3>1, <3>2 DEF HeldInv
    <2>3. CASE Away(w)
      <3>1. PICK r \in 1 .. region : r < region /\ \E k \in 1 .. team[r] - 1 : wtask[w] = <<r, k>>
        BY <1>1, <1>17, <2>1, <2>3 DEF HeldInv
      <3>2. r # region
        BY <1>2, <3>1
      <3> QED
        BY <1>9, <1>13, <2>1, <2>3, <3>1, <3>2 DEF HeldInv
    <2> QED
      BY <2>2, <2>3
  <1>18. WorkInv'
    <2>1. QueueInv'
      <3>1. count' <= Added' - 1
        BY <1>2, <1>5, <1>7, <1>13
      <3>2. \A i \in 1 .. count' : i \in 1 .. count \/ i = count + 1
        BY <1>5, <1>7
      <3>3. ASSUME NEW i \in 1 .. count'
            PROVE  /\ \E k \in 1 .. Added' - 1 : queue'[Slot(head, i)] = <<region, k>>
                   /\ \A j \in 1 .. count' : queue'[Slot(head, i)] = queue'[Slot(head, j)] => i = j
                   /\ \A w \in Workers : pc[w] # "idle" => wtask[w] # queue'[Slot(head, i)]
        <4>1. CASE i \in 1 .. count
          <5>1. PICK k \in 1 .. index[Master] - 1 : queue'[Slot(head, i)] = <<region, k>>
            BY <1>16, <4>1
          <5>2. k \in 1 .. Added' - 1
            BY <1>2, <1>13
          <5>3. \A j \in 1 .. count' : queue'[Slot(head, i)] = queue'[Slot(head, j)] => i = j
            BY <1>7, <1>16, <3>2, <4>1
          <5> QED
            BY <1>16, <4>1, <5>1, <5>2, <5>3
        <4>2. CASE i = count + 1
          <5>1. queue'[Slot(head, i)] = <<region, index[Master]>> /\ index[Master] \in 1 .. Added' - 1
            BY <1>2, <1>7, <1>13, <4>2
          <5>2. \A j \in 1 .. count' : queue'[Slot(head, i)] = queue'[Slot(head, j)] => i = j
            BY <1>16, <3>2, <4>2, <5>1
          <5> QED
            BY <1>17, <5>1, <5>2
        <4> QED
          BY <3>2, <4>1, <4>2
      <3>4. \A i \in 1 .. count' : Slot(head, i)' = Slot(head, i)
        BY <1>8 DEF Slot
      <3> QED
        BY <1>7, <1>8, <1>13, <3>1, <3>3, <3>4 DEF QueueInv
    <2>2. \A w \in Workers : HeldInv(w)'
      BY <1>8, <1>17 DEF HeldInv
    <2>3. \A v, w \in Workers :
            pc'[v] # "idle" /\ pc'[w] # "idle" /\ wtask'[v] = wtask'[w] => v = w
      BY <1>8 DEF IInv, WorkInv
    <2> QED
      BY <2>1, <2>2, <2>3 DEF WorkInv
  <1>19. PositionInv'
    <2>1. From(Master)' = From(Master)
      BY <1>8, <1>9 DEF From, Outside, Stale
    <2>2. \A t \in Team : From(t)' = From(t)
      BY <1>12, <2>1, MasterFrameKept, Members
    <2> QED
      BY <1>1, <1>13, <2>2, KeepPosition DEF IInv
  <1>20. ArrivalInv'
    BY <1>8, <1>9, <1>13, KeepArrival DEF IInv
  <1>21. HistoryInv' /\ BarrierSeparates'
    <2>1. \A t \in Threads : member(t)' = member(t) /\ (Stale(t)' <=> Stale(t))
      BY <1>8, <1>9, <1>13 DEF member, thread_id, Stale
    <2> QED
      BY <1>1, <1>8, <1>9, <1>13, <2>1, KeepHistory DEF IInv
  <1> QED
    BY <1>11, <1>12, <1>14, <1>15, <1>18, <1>19, <1>20, <1>21, MasterFrameKept DEF IInv

(* A step of the master between regions                                    *)
LEMMA MovedOutside ==
  ASSUME Cooperative, IInv, ~Opened, ~Opened',
         pc' = [pc EXCEPT ![Master] = pc'[Master]],
         pc[Master] \notin Waitpoint, pc'[Master] \notin Waitpoint,
         UNCHANGED <<ip, queue, head, tail, count, wtask, team, done, reached, crossed,
                     bpc, local, cycle, counter>>,
         \A w \in Workers : wpc'[w] = "busy" <=> wpc[w] = "busy",
         TypeOK', ProgramInv', StaffInv', MasterInv'
  PROVE  IInv'
  <1>1. MasterFrame
    BY Members DEF MasterFrame, IInv, TypeOK
  <1>2. ArrivalInv'
    <2>1. \A t \in Threads : pc'[t] \in {"barrier", "taskwait", "endwait"}
                           <=> pc[t] \in {"barrier", "taskwait", "endwait"}
      BY <1>1, Members DEF Waitpoint, MasterFrame
    <2> QED
      BY <2>1, KeepArrival DEF IInv
  <1> QED
    BY <1>1, <1>2, MasterOutside DEF Waitpoint

(* The staff does not change, and the master joins nobody.                 *)
LEMMA StaffKept ==
  ASSUME IInv, UNCHANGED <<pool, thread_count, threads, started, wpc>>,
         bomp_num_threads' >= bomp_num_threads, bomp_num_threads' \in Nat,
         pc'[Master] # "join",
         Up' => thread_count = IF pc'[Master] = "grow" THEN bomp_num_threads' + index'[Master] - 1
                                                     ELSE bomp_num_threads' - 1
  PROVE  StaffInv'
  <1>1. Born' = Born
    BY DEF Born
  <1>2. bomp_num_threads \in Nat
    BY DEF IInv, TypeOK
  <1> QED
    BY <1>1, <1>2 DEF IInv, StaffInv

(* What is left of the program                                             *)
LEMMA Rest ==
  ASSUME IInv, program # << >>
  PROVE  /\ Head(program) = program[1] /\ 1 \in DOMAIN program
         /\ Head(program) \in [op : {"set", "fork"}, n : Nat]
         /\ Tail(program) \in Seq([op : {"set", "fork"}, n : Nat])
         /\ \A i \in DOMAIN Tail(program) :
              /\ i \in Nat /\ i + 1 \in DOMAIN program /\ Tail(program)[i] = program[i + 1]
  <1> DEFINE S == [op : {"set", "fork"}, n : Nat]
  <1>1. program \in Seq(S)
    BY DEF IInv, ProgramInv
  <1> HIDE DEF S
  <1>2. Len(program) \in Nat /\ DOMAIN program = 1 .. Len(program) /\ Len(program) # 0
    BY <1>1, LenProperties, EmptySeq
  <1>3. Head(program) = program[1] /\ Head(program) \in S
    BY <1>1, HeadTailProperties
  <1>4. Tail(program) \in Seq(S) /\ Len(Tail(program)) = Len(program) - 1
    BY <1>1, HeadTailProperties
  <1>5. DOMAIN Tail(program) = 1 .. Len(program) - 1
    BY <1>4, LenProperties
  <1>6. \A i \in 1 .. Len(program) - 1 : Tail(program)[i] = program[i + 1]
    BY <1>1, <1>4, HeadTailProperties
  <1> QED
    BY <1>2, <1>3, <1>4, <1>5, <1>6 DEF S

(* A region is over, or a request for as many threads as there are.        *)
LEMMA ProgramTail ==
  ASSUME IInv, program # << >>, program' = Tail(program), UNCHANGED <<bomp_num_threads, max>>,
         Up' => Up, Head(program).op = "fork" \/ Head(program).n = bomp_num_threads
  PROVE  ProgramInv'
  <1>1. program' \in Seq([op : {"set", "fork"}, n : Nat])
    BY Rest
  <1>2. Tuned' <=> Tuned
    BY DEF Tuned
  <1>3. ASSUME Up', NEW i \in DOMAIN program'
        PROVE  \/ /\ program'[i].op = "set"
                  /\ program'[i].n <= QueueSize + 1
                  /\ (1 .. MaxRegions) \X (1 .. program'[i].n - 1) \subseteq Tasks
                  /\ bomp_num_threads <= program'[i].n
                  /\ \A j \in 1 .. i - 1 : program'[j].op = "set" => program'[j].n <= program'[i].n
               \/ /\ program'[i].op = "fork"
                  /\ \/ Tuned
                     \/ \E j \in 1 .. i - 1 : program'[j].op = "set" /\ bomp_num_threads < program'[j].n
    <2>1. i \in Nat /\ i + 1 \in DOMAIN program /\ program'[i] = program[i + 1]
      BY Rest
    <2>2. ASSUME NEW j \in 1 .. i - 1
          PROVE  program'[j] = program[j + 1] /\ j + 1 \in 1 .. (i + 1) - 1
      <3>1. Len(program') \in Nat /\ DOMAIN program' = 1 .. Len(program')
        BY <1>1, LenProperties
      <3>2. j \in DOMAIN program'
        BY <2>1, <3>1
      <3>3. program'[j] = program[j + 1]
        BY <3>2, Rest
      <3>4. j + 1 \in 1 .. (i + 1) - 1
        BY <2>1
      <3> QED
        BY <3>3, <3>4
    <2>3. CASE program[i + 1].op = "set"
      <3>1. /\ program[i + 1].n <= QueueSize + 1
            /\ (1 .. MaxRegions) \X (1 .. program[i + 1].n - 1) \subseteq Tasks
            /\ bomp_num_threads <= program[i + 1].n
            /\ \A j \in 1 .. (i + 1) - 1 : program[j].op = "set" => program[j].n <= program[i + 1].n
        BY <1>3, <2>1, <2>3 DEF IInv, ProgramInv
      <3> QED
        BY <2>1, <2>2, <2>3, <3>1
    <2>4. CASE program[i + 1].op # "set"
      <3>1. /\ program[i + 1].op = "fork"
            /\ \/ Tuned
               \/ \E j \in 1 .. (i + 1) - 1 : program[j].op = "set" /\ bomp_num_threads < program[j].n
        BY <1>3, <2>1, <2>4 DEF IInv, ProgramInv
      <3>2. ASSUME NEW j \in 1 .. (i + 1) - 1, program[j].op = "set", bomp_num_threads < program[j].n
            PROVE  \E l \in 1 .. i - 1 : program'[l].op = "set" /\ bomp_num_threads < program'[l].n
        <4>1. j # 1
          <5>1. Head(program) = program[1]
            BY Rest
          <5>2. bomp_num_threads \in Nat
            BY DEF IInv, TypeOK
          <5> QED
            BY <3>2, <5>1, <5>2
        <4>2. PICK l \in 1 .. i - 1 : j = l + 1
          <5>1. j - 1 \in 1 .. i - 1 /\ j = (j - 1) + 1
            BY <2>1, <4>1
          <5> QED
            BY <5>1
        <4> QED
          BY <2>2, <3>2, <4>2
      <3> QED
        BY <2>1, <3>1, <3>2
    <2> QED
      BY <2>3, <2>4
  <1>4. Up' /\ Tuned' =>
          /\ bomp_num_threads <= QueueSize + 1
          /\ (1 .. MaxRegions) \X (1 .. bomp_num_threads - 1) \subseteq Tasks
    BY <1>2 DEF IInv, ProgramInv
  <1> QED
    BY <1>1, <1>2, <1>3, <1>4 DEF ProgramInv

(* The globals are reset, and the region is left.                          *)
LEMMA MasterReturns ==
  ASSUME Cooperative, IInv,
         \/ ClearArray(Master) \/ ResetRegion(Master)
         \/ (UncountRegion(Master) /\ depth[Master] = 1)
  PROVE  IInv'
  <1>0. Master \in Threads
    BY Members
  <1>1. /\ UNCHANGED <<poolVars, barrierVars, bomp_num_threads, ip, index, own, history>>
        /\ pc' = [pc EXCEPT ![Master] = pc'[Master]]
        /\ depth \in [Threads -> 0 .. 2] /\ pc \in [Threads -> PCs]
    <2>1. depth \in [Threads -> 0 .. 2] /\ pc \in [Threads -> PCs]
      BY DEF IInv, TypeOK, PCs
    <2> QED
      BY <1>0, <2>1 DEF ClearArray, ResetRegion, UncountRegion, Goto
  <1>2. UNCHANGED <<pool, queue, head, tail, count, shutdown, started, thread_count, threads, wpc, wtask,
                    max, cycle, counter, bpc, local, team, done, reached, crossed>>
    BY <1>1 DEF poolVars, barrierVars, history
  <1>3. region' = region /\ Tuned' = Tuned
    BY <1>1, <1>2 DEF region, Tuned
  <1>4. CASE ClearArray(Master)
    <2>1. /\ pc[Master] = "clear" /\ pc'[Master] = "reset" /\ depth' = depth /\ depth[Master] = 1
          /\ g_array' = 0 /\ g_thread_numbers' = bomp_num_threads /\ nested' = nested /\ program' = program
      BY <1>0, <1>1, <1>4 DEF ClearArray, Goto, Inside, IInv, MasterInv
    <2>2. Inside /\ ~Inside' /\ ~Opened /\ ~Opened' /\ Up /\ Up'
      BY <1>2, <2>1 DEF Inside, Opened, Up, IInv, MasterInv
    <2>3. TypeOK'
      <3>1. "reset" \in PCs
        BY DEF PCs, RegionPC
      <3>2. pc' \in [Threads -> PCs]
        BY <1>0, <1>1, <2>1, <3>1
      <3>3. PoolTypeOK' /\ BarrierTypeOK'
        BY <1>2 DEF IInv, TypeOK, PoolTypeOK, BarrierTypeOK
      <3>4. region \in Nat
        BY LenProperties DEF IInv, TypeOK, region
      <3>5. g_array' \in 0 .. region /\ g_thread_numbers' \in Nat
        BY <2>1, <3>4 DEF IInv, TypeOK
      <3> QED
        BY <1>1, <1>2, <1>3, <2>1, <3>2, <3>3, <3>5 DEF IInv, TypeOK, PCs
    <2>4. ProgramInv'
      BY <1>1, <1>3, <2>1, <2>2 DEF IInv, ProgramInv
    <2>5. StaffInv'
      <3>1. thread_count = bomp_num_threads - 1 /\ bomp_num_threads \in Nat
        BY <2>1, <2>2 DEF IInv, StaffInv, TypeOK
      <3> QED
        BY <1>1, <1>2, <2>1, <3>1, StaffKept
    <2>6. MasterInv'
      <3>1. pc'[Master] \in RegionPC
        BY <2>1 DEF RegionPC
      <3> QED
        BY <1>1, <1>2, <2>1, <2>2, <3>1 DEF IInv, MasterInv
    <2> QED
      BY <1>1, <1>2, <2>1, <2>2, <2>3, <2>4, <2>5, <2>6, MovedOutside DEF Waitpoint
  <1>5. CASE UncountRegion(Master) /\ depth[Master] = 1
    <2>1. /\ pc[Master] = "decr" /\ pc'[Master] = "serial" /\ depth' = [depth EXCEPT ![Master] = 0]
          /\ nested' = 0 /\ program' = Tail(program) /\ program # << >> /\ Head(program).op = "fork"
          /\ UNCHANGED <<g_array, g_thread_numbers>>
      BY <1>0, <1>1, <1>5 DEF UncountRegion, Goto, IInv, MasterInv
    <2>2. depth'[Master] = 0
      BY <1>0, <1>1, <2>1
    <2>3. ~Inside /\ ~Inside' /\ ~Opened /\ ~Opened' /\ (Up' <=> Up)
      BY <1>2, <1>5, <2>1 DEF Inside, Opened, Up
    <2>4. TypeOK'
      <3>1. "serial" \in PCs
        BY DEF PCs, MasterPC
      <3>2. pc' \in [Threads -> PCs] /\ depth' \in [Threads -> 0 .. 2]
        BY <1>0, <1>1, <2>1, <3>1
      <3>3. PoolTypeOK' /\ BarrierTypeOK'
        BY <1>2 DEF IInv, TypeOK, PoolTypeOK, BarrierTypeOK
      <3> QED
        BY <1>1, <1>2, <1>3, <2>1, <3>2, <3>3 DEF IInv, TypeOK, PCs
    <2>5. ProgramInv'
      BY <1>1, <1>2, <2>1, <2>3, ProgramTail
    <2>6. StaffInv'
      <3>1. (Up => thread_count = bomp_num_threads - 1) /\ bomp_num_threads \in Nat
        BY <2>1 DEF IInv, StaffInv, TypeOK
      <3> QED
        BY <1>1, <1>2, <2>1, <2>3, <3>1, StaffKept
    <2>7. MasterInv'
      <3>1. pc'[Master] \in MasterPC
        BY <2>1 DEF MasterPC
      <3> QED
        BY <1>1, <1>2, <2>1, <2>2, <2>3, <3>1 DEF IInv, MasterInv
    <2> QED
      BY <1>1, <1>2, <2>1, <2>3, <2>4, <2>5, <2>6, <2>7, MovedOutside DEF Waitpoint
  <1>6. CASE ResetRegion(Master)
    <2>1. /\ pc[Master] = "reset" /\ pc'[Master] = "decr" /\ depth' = depth /\ depth[Master] = 1
          /\ g_array = 0 /\ g_array' = 0 /\ g_thread_numbers' = 1 /\ nested' = nested /\ program' = program
      BY <1>0, <1>1, <1>6 DEF ResetRegion, Goto, Inside, IInv, MasterInv
    <2>2. ~Inside /\ ~Inside' /\ ~Opened /\ ~Opened' /\ (Up' <=> Up)
      BY <1>2, <2>1 DEF Inside, Opened, Up
    <2>3. TypeOK'
      <3>1. "decr" \in PCs
        BY DEF PCs, RegionPC
      <3>2. pc' \in [Threads -> PCs]
        BY <1>0, <1>1, <2>1, <3>1
      <3>3. PoolTypeOK' /\ BarrierTypeOK'
        BY <1>2 DEF IInv, TypeOK, PoolTypeOK, BarrierTypeOK
      <3>4. region \in Nat
        BY LenProperties DEF IInv, TypeOK, region
      <3>5. g_array' \in 0 .. region /\ g_thread_numbers' \in Nat
        BY <2>1, <3>4
      <3> QED
        BY <1>1, <1>2, <1>3, <2>1, <3>2, <3>3, <3>5 DEF IInv, TypeOK, PCs
    <2>4. ProgramInv'
      BY <1>1, <1>3, <2>1, <2>2 DEF IInv, ProgramInv
    <2>5. StaffInv'
      <3>1. (Up => thread_count = bomp_num_threads - 1) /\ bomp_num_threads \in Nat
        BY <2>1, <2>2 DEF IInv, StaffInv, TypeOK
      <3> QED
        BY <1>1, <1>2, <2>1, <2>2, <3>1, StaffKept
    <2>6. MasterInv'
      <3>1. pc'[Master] \in RegionPC
        BY <2>1 DEF RegionPC
      <3> QED
        BY <1>1, <1>2, <2>1, <2>2, <3>1 DEF IInv, MasterInv
    <2> QED
      BY <1>1, <1>2, <2>1, <2>2, <2>3, <2>4, <2>5, <2>6, MovedOutside DEF Waitpoint
  <1> QED
    BY <1>4, <1>5, <1>6

OutsidePC == {"serial", "start", "alloc", "grow", "destroy", "join", "exited", "undefined"}

(* A step between regions: what it owes of the pool, the program and the   *)
(* place the master is at.                                                 *)
LEMMA SteppedBetween ==
  ASSUME Cooperative, IInv, pc[Master] \in OutsidePC, pc'[Master] \in OutsidePC,
         pc' = [pc EXCEPT ![Master] = pc'[Master]],
         UNCHANGED <<ip, depth, own, g_array, nested, queue, head, tail, count, wtask,
                     team, done, reached, crossed, bpc, local, cycle, counter>>,
         wpc' \in [Workers -> WorkerPC], \A w \in Workers : wpc'[w] = "busy" <=> wpc[w] = "busy",
         pool' \in {"null", "live", "freed"}, shutdown' \in BOOLEAN, started' \in Nat,
         thread_count' \in Nat, threads' \in Seq(Workers \cup {None}),
         bomp_num_threads' \in Nat, max' \in Int, index' \in [Threads -> Nat],
         ProgramInv', StaffInv',
         pc'[Master] = "grow" =>
           /\ pool' = "live" /\ program' # << >> /\ Head(program').op = "set"
           /\ bomp_num_threads' < Head(program').n
           /\ DOMAIN threads' = 1 .. Head(program').n
           /\ bomp_num_threads' + index'[Master] <= Head(program').n,
         g_thread_numbers' \in Nat,
         pc'[Master] # "undefined" =>
           g_thread_numbers' = IF pc'[Master] = "alloc" THEN bomp_num_threads' ELSE 1,
         pc'[Master] \in {"start", "alloc"} => program' # << >> /\ Head(program').op = "fork",
         pc'[Master] = "undefined" => pool' # "live",
         pool' = "null" => pc'[Master] \in {"serial", "start", "alloc", "exited", "undefined"},
         pc'[Master] = "join" <=> pool' = "live" /\ shutdown'
  PROVE  IInv'
  <1>1. ~Inside /\ ~Inside' /\ ~Opened /\ ~Opened'
    BY DEF OutsidePC, Inside, Opened
  <1>2. TypeOK'
    <2>1. pc' \in [Threads -> PCs]
      <3>1. pc \in [Threads -> PCs] /\ pc'[Master] \in PCs /\ Master \in Threads
        BY Members DEF IInv, TypeOK, PCs, MasterPC, RegionPC, OutsidePC
      <3> QED
        BY <3>1
    <2>2. PoolTypeOK'
      BY DEF IInv, TypeOK, PoolTypeOK
    <2>3. BarrierTypeOK'
      BY DEF IInv, TypeOK, BarrierTypeOK
    <2>4. region' = region
      BY DEF region
    <2> QED
      BY <2>1, <2>2, <2>3, <2>4 DEF IInv, TypeOK, PCs
  <1>3. MasterInv'
    <2>1. /\ nested' = depth'[Master] /\ depth'[Master] = 0 /\ g_array' = 0
      BY <1>1 DEF IInv, MasterInv, OutsidePC
    <2>2. pc'[Master] \in MasterPC \cup RegionPC
      BY DEF MasterPC, RegionPC, OutsidePC
    <2> QED
      BY <1>1, <2>1, <2>2 DEF MasterInv, OutsidePC
  <1> QED
    BY <1>1, <1>2, <1>3, MovedOutside DEF OutsidePC, Waitpoint

SerialPC == {"serial", "grow", "destroy", "join"}

(* ... one that starts no region                                           *)
LEMMA MovedBetween ==
  ASSUME Cooperative, IInv, pc[Master] \in SerialPC, pc'[Master] \in SerialPC \cup {"exited", "undefined"},
         pc' = [pc EXCEPT ![Master] = pc'[Master]],
         UNCHANGED <<ip, depth, own, g_array, g_thread_numbers, nested, queue, head, tail, count, wtask,
                     team, done, reached, crossed, bpc, local, cycle, counter>>,
         wpc' \in [Workers -> WorkerPC], \A w \in Workers : wpc'[w] = "busy" <=> wpc[w] = "busy",
         pool' \in {"null", "live", "freed"}, shutdown' \in BOOLEAN, started' \in Nat,
         thread_count' \in Nat, threads' \in Seq(Workers \cup {None}),
         bomp_num_threads' \in Nat, max' \in Int, index' \in [Threads -> Nat],
         ProgramInv', StaffInv',
         pc'[Master] = "grow" =>
           /\ pool' = "live" /\ program' # << >> /\ Head(program').op = "set"
           /\ bomp_num_threads' < Head(program').n
           /\ DOMAIN threads' = 1 .. Head(program').n
           /\ bomp_num_threads' + index'[Master] <= Head(program').n,
         pc'[Master] = "undefined" => pool' # "live",
         pool' = "null" => pc'[Master] \in {"serial", "exited", "undefined"},
         pc'[Master] = "join" <=> pool' = "live" /\ shutdown'
  PROVE  IInv'
  <1>1. pc[Master] \in OutsidePC /\ pc'[Master] \in OutsidePC
    BY DEF OutsidePC, SerialPC
  <1>2. g_thread_numbers \in Nat /\ g_thread_numbers = 1
    BY DEF SerialPC, Inside, IInv, MasterInv
  <1>3. g_thread_numbers' \in Nat /\ g_thread_numbers' = 1 /\ pc'[Master] \notin {"start", "alloc"}
    BY <1>2 DEF SerialPC
  <1> QED
    BY <1>1, <1>3, SteppedBetween

(* The types of what most of these steps leave alone                       *)
LEMMA Types ==
  ASSUME IInv
  PROVE  /\ wpc \in [Workers -> WorkerPC] /\ pool \in {"null", "live", "freed"} /\ shutdown \in BOOLEAN
         /\ started \in Nat /\ thread_count \in Nat /\ threads \in Seq(Workers \cup {None})
         /\ bomp_num_threads \in Nat /\ max \in Int /\ index \in [Threads -> Nat]
         /\ Master \in Threads /\ pc \in [Threads -> PCs]
  BY Members DEF IInv, TypeOK, PoolTypeOK, BarrierTypeOK, PCs

(* There is no pool where one is needed.                                   *)
LEMMA MasterUndefined ==
  ASSUME Cooperative, IInv, Undefined(Master), pool # "live", pc[Master] \in OutsidePC
  PROVE  IInv'
  <1>1. /\ pc'[Master] = "undefined" /\ pc' = [pc EXCEPT ![Master] = pc'[Master]]
        /\ UNCHANGED <<poolVars, barrierVars, regionVars, ip, depth, index, own, program, history>>
    BY Types DEF Undefined, Goto
  <1>2. UNCHANGED <<pool, queue, head, tail, count, shutdown, started, thread_count, threads, wpc, wtask,
                    max, cycle, counter, bpc, local, team, done, reached, crossed,
                    bomp_num_threads, g_thread_numbers, nested, g_array>>
    BY <1>1 DEF poolVars, barrierVars, regionVars, history
  <1>3. ~Up'
    BY <1>2 DEF Up
  <1>4. ProgramInv'
    BY <1>1, <1>3 DEF IInv, ProgramInv
  <1>5. StaffInv'
    BY <1>1, <1>2, <1>3, Types, StaffKept
  <1>6. pc'[Master] \in OutsidePC /\ g_thread_numbers' \in Nat
    BY <1>1, <1>2 DEF OutsidePC, IInv, TypeOK
  <1> QED
    BY <1>1, <1>2, <1>4, <1>5, <1>6, Types, SteppedBetween

(* The master passes the test of omp_in_parallel, and announces the team.  *)
LEMMA MasterEnters ==
  ASSUME Cooperative, IInv, (MasterForks /\ StartOuter(Master)) \/ StoreTeamSize(Master)
  PROVE  IInv'
  <1>1. /\ pc' = [pc EXCEPT ![Master] = pc'[Master]]
        /\ UNCHANGED <<poolVars, barrierVars, bomp_num_threads, g_array, nested, ip, depth, index, own,
                       program, history>>
        /\ \/ pc[Master] = "serial" /\ pc'[Master] = "start" /\ g_thread_numbers' = g_thread_numbers
           \/ /\ pc[Master] = "start" /\ pc'[Master] = "alloc"
              /\ g_thread_numbers' = bomp_num_threads
        /\ program # << >> /\ Head(program).op = "fork"
    BY Types DEF MasterForks, StartOuter, StoreTeamSize, Goto, regionVars, IInv, MasterInv
  <1>2. UNCHANGED <<pool, queue, head, tail, count, shutdown, started, thread_count, threads, wpc, wtask,
                    max, cycle, counter, bpc, local, team, done, reached, crossed>>
    BY <1>1 DEF poolVars, barrierVars, history
  <1>3. (Up' <=> Up) /\ (Tuned' <=> Tuned)
    BY <1>1, <1>2 DEF Up, Tuned
  <1>4. ProgramInv'
    BY <1>1, <1>2, <1>3 DEF IInv, ProgramInv
  <1>5. StaffInv'
    <2>1. Up => thread_count = bomp_num_threads - 1
      BY <1>1 DEF IInv, StaffInv
    <2> QED
      BY <1>1, <1>2, <1>3, <2>1, Types, StaffKept
  <1>6. pc[Master] \in OutsidePC /\ pc'[Master] \in OutsidePC
    BY <1>1 DEF OutsidePC
  <1>7. /\ g_thread_numbers' = IF pc'[Master] = "alloc" THEN bomp_num_threads' ELSE 1
        /\ g_thread_numbers' \in Nat
    <2>1. pc[Master] = "serial" => g_thread_numbers = 1
      BY DEF Inside, IInv, MasterInv
    <2> QED
      BY <1>1, <2>1, Types
  <1>8. /\ pool' = "null" => pc'[Master] \in {"serial", "start", "alloc", "exited", "undefined"}
        /\ pc'[Master] = "join" <=> pool' = "live" /\ shutdown'
    BY <1>1, <1>2 DEF IInv, MasterInv
  <1> QED
    BY <1>1, <1>2, <1>4, <1>5, <1>6, <1>7, <1>8, Types, SteppedBetween

(* A request for as many threads as there are                              *)
LEMMA MasterKeeps ==
  ASSUME Cooperative, IInv, NEW n, NoChange(n)
  PROVE  IInv'
  <1>1. /\ pc[Master] = "serial" /\ program # << >> /\ Head(program) = Set(n) /\ n = bomp_num_threads
        /\ program' = Tail(program)
        /\ UNCHANGED <<poolVars, barrierVars, regionVars, threadVars, history>>
    BY DEF NoChange, Requests
  <1>2. UNCHANGED <<pool, queue, head, tail, count, shutdown, started, thread_count, threads, wpc, wtask,
                    max, cycle, counter, bpc, local, team, done, reached, crossed,
                    bomp_num_threads, g_thread_numbers, nested, g_array, pc, ip, depth, index, own>>
    BY <1>1 DEF poolVars, barrierVars, regionVars, threadVars, history
  <1>3. pc' = [pc EXCEPT ![Master] = pc'[Master]] /\ pc'[Master] = "serial"
    BY <1>1, <1>2, Types
  <1>4. Up' <=> Up
    BY <1>2 DEF Up
  <1>5. ProgramInv'
    BY <1>1, <1>2, <1>4, ProgramTail DEF Set
  <1>6. StaffInv'
    <2>1. Up => thread_count = bomp_num_threads - 1
      BY <1>1 DEF IInv, StaffInv
    <2> QED
      BY <1>2, <1>3, <1>4, <2>1, Types, StaffKept
  <1>7. pc[Master] \in SerialPC /\ pc'[Master] \in SerialPC \cup {"exited", "undefined"}
    BY <1>1, <1>3 DEF SerialPC
  <1>8. /\ pool' = "null" => pc'[Master] \in {"serial", "exited", "undefined"}
        /\ pc'[Master] = "join" <=> pool' = "live" /\ shutdown'
    BY <1>2, <1>3 DEF IInv, MasterInv
  <1> QED
    BY <1>2, <1>3, <1>5, <1>6, <1>7, <1>8, Types, MovedBetween

(* A request for more threads: the table of handles grows, ...             *)
LEMMA MasterGrows ==
  ASSUME Cooperative, IInv, NEW n, GrowBegins(n)
  PROVE  IInv'
  <1>1. /\ pc[Master] = "serial" /\ program # << >> /\ Head(program) = Set(n)
        /\ bomp_num_threads < n /\ pool = "live" /\ threads' = Resize(n)
        /\ index' = [index EXCEPT ![Master] = 0] /\ pc' = [pc EXCEPT ![Master] = "grow"]
        /\ UNCHANGED <<pool, queue, head, tail, count, shutdown, started, thread_count, wpc, wtask,
                       barrierVars, regionVars, ip, depth, own, program, history>>
    BY DEF GrowBegins, Requests, Goto, ring
  <1>2. UNCHANGED <<max, cycle, counter, bpc, local, team, done, reached, crossed,
                    bomp_num_threads, g_thread_numbers, nested, g_array>>
    BY <1>1 DEF barrierVars, regionVars, history
  <1>3. /\ pc' = [pc EXCEPT ![Master] = pc'[Master]] /\ pc'[Master] = "grow"
        /\ index'[Master] = 0 /\ index' \in [Threads -> Nat]
    BY <1>1, Types
  <1>4. Head(program).op = "set" /\ Head(program).n = n /\ n \in Nat
    <2>1. Head(program).op = "set" /\ Head(program).n = n
      BY <1>1 DEF Set
    <2> QED
      BY <1>1, <2>1, Rest
  <1>5. Up /\ Up'
    BY <1>1, <1>3 DEF Up
  <1>6. ProgramInv'
    BY <1>1, <1>2, <1>5 DEF IInv, ProgramInv, Tuned
  <1>7. thread_count = bomp_num_threads - 1
    BY <1>1, <1>5 DEF IInv, StaffInv
  <1>8. /\ threads' \in [1 .. n -> Workers \cup {None}] /\ DOMAIN threads' = 1 .. n
        /\ 1 .. thread_count \subseteq 1 .. n
        /\ \A i \in 1 .. thread_count : threads'[i] = threads[i]
    <2>1. \A i \in DOMAIN threads : threads[i] \in Workers \cup {None}
      BY Types, ElementOfSeq, LenProperties
    <2>2. 1 .. thread_count \subseteq 1 .. n /\ 1 .. thread_count \subseteq DOMAIN threads
      BY <1>1, <1>4, <1>7, Types DEF IInv, StaffInv
    <2> QED
      BY <1>1, <2>1, <2>2 DEF Resize
  <1>9. StaffInv'
    <2>1. Born' = Born
      BY <1>1 DEF Born
    <2> QED
      BY <1>1, <1>2, <1>3, <1>5, <1>7, <1>8, <2>1, Types DEF IInv, StaffInv
  <1>10. pc[Master] \in SerialPC /\ pc'[Master] \in SerialPC \cup {"exited", "undefined"}
    BY <1>1, <1>3 DEF SerialPC
  <1>11. threads' \in Seq(Workers \cup {None})
    BY <1>4, <1>8, HandleTable
  <1>12. ~shutdown
    BY <1>1 DEF IInv, MasterInv
  <1>13. bomp_num_threads' + index'[Master] <= Head(program').n
    BY <1>1, <1>2, <1>3, <1>4, Types
  <1> QED
    BY <1>1, <1>2, <1>3, <1>4, <1>6, <1>8, <1>9, <1>10, <1>11, <1>12, <1>13, Types, MovedBetween

(* ... a thread is created, ...                                            *)
LEMMA MasterCreates ==
  ASSUME Cooperative, IInv, Grow
  PROVE  IInv'
  <1>1. PICK w \in Workers : wpc[w] = "unborn" /\ StartWorker(w, bomp_num_threads + index[Master])
    <2>1. Unborn # {} /\ StartWorker(CHOOSE w \in Unborn : TRUE, bomp_num_threads + index[Master])
      BY DEF Grow
    <2>2. (CHOOSE w \in Unborn : TRUE) \in Unborn
      BY <2>1
    <2> QED
      BY <2>1, <2>2 DEF Unborn
  <1>2. /\ pc[Master] = "grow" /\ bomp_num_threads + index[Master] < Head(program).n
        /\ index' = [index EXCEPT ![Master] = @ + 1]
        /\ UNCHANGED <<barrierVars, regionVars, pc, ip, depth, own, program, history>>
    BY DEF Grow
  <1>3. UNCHANGED <<max, cycle, counter, bpc, local, team, done, reached, crossed,
                    bomp_num_threads, g_thread_numbers, nested, g_array>>
    BY <1>2 DEF barrierVars, regionVars, history
  <1>4. /\ threads' = [threads EXCEPT ![bomp_num_threads + index[Master]] = w]
        /\ wpc' = [wpc EXCEPT ![w] = "lock"] /\ thread_count' = thread_count + 1 /\ started' = started + 1
        /\ UNCHANGED <<pool, queue, head, tail, count, shutdown, wtask>>
    BY <1>1 DEF StartWorker, ring
  <1>5. /\ pc' = [pc EXCEPT ![Master] = pc'[Master]] /\ pc'[Master] = "grow"
        /\ index'[Master] = index[Master] + 1 /\ index' \in [Threads -> Nat] /\ index[Master] \in Nat
    BY <1>2, Types
  <1>6. /\ pool = "live" /\ program # << >> /\ Head(program).op = "set" /\ Head(program).n \in Nat
        /\ bomp_num_threads < Head(program).n /\ DOMAIN threads = 1 .. Head(program).n /\ Up /\ Up'
    <2>1. pool = "live" /\ program # << >> /\ Head(program).op = "set"
          /\ bomp_num_threads < Head(program).n /\ DOMAIN threads = 1 .. Head(program).n
      BY <1>2 DEF IInv, MasterInv
    <2> QED
      BY <1>2, <1>4, <1>5, <2>1, Rest DEF Up
  <1>7. thread_count = bomp_num_threads + index[Master] - 1
    BY <1>2, <1>6 DEF IInv, StaffInv
  <1>8. PICK k \in Nat \ {0} : k = bomp_num_threads + index[Master]
    <2>1. bomp_num_threads + index[Master] >= 2
      BY <1>5, <1>6, Types DEF IInv, StaffInv
    <2> QED
      BY <1>5, <2>1, Types
  <1>9. k \in DOMAIN threads /\ thread_count = k - 1 /\ thread_count' = k
    BY <1>2, <1>4, <1>6, <1>7, <1>8, Types
  <1>10. /\ threads' \in Seq(Workers \cup {None}) /\ DOMAIN threads' = DOMAIN threads
         /\ threads'[k] = w /\ \A i \in 1 .. thread_count : threads'[i] = threads[i]
    <2>1. threads' = [threads EXCEPT ![k] = w]
      BY <1>4, <1>8
    <2>2. \A i \in DOMAIN threads : threads[i] \in Workers \cup {None}
      BY Types, ElementOfSeq, LenProperties
    <2>3. threads = [i \in 1 .. Head(program).n |-> threads[i]]
      BY <1>6, Types
    <2>4. threads' \in [1 .. Head(program).n -> Workers \cup {None}] /\ DOMAIN threads' = DOMAIN threads
      BY <1>6, <2>1, <2>2, <2>3
    <2>5. threads' \in Seq(Workers \cup {None})
      BY <1>6, <2>4, HandleTable
    <2>6. 1 .. thread_count \subseteq DOMAIN threads
      BY <1>6 DEF IInv, StaffInv
    <2>7. threads'[k] = w /\ \A i \in 1 .. thread_count : threads'[i] = threads[i]
      BY <1>9, <2>1, <2>6
    <2> QED
      BY <2>4, <2>5, <2>7
  <1>11. /\ Born' = Born \cup {w} /\ w \notin Born
         /\ {v \in Born : wpc[v] # "exited"}' = {v \in Born : wpc[v] # "exited"} \cup {w}
    BY <1>1, <1>4, Types DEF Born
  <1>12. StaffInv'
    <2>1. /\ Cardinality(Born) = thread_count /\ 1 .. thread_count \subseteq DOMAIN threads
          /\ \A i \in 1 .. thread_count : threads[i] \in Born
          /\ \A v \in Born : \E i \in 1 .. thread_count : threads[i] = v
          /\ started = Cardinality({v \in Born : wpc[v] # "exited"}) /\ bomp_num_threads >= 2
      BY <1>6 DEF IInv, StaffInv
    <2>2. /\ Cardinality(Born') = thread_count'
          /\ started' = Cardinality({v \in Born : wpc[v] # "exited"}')
      <3>1. Born \in SUBSET Workers /\ {v \in Born : wpc[v] # "exited"} \in SUBSET Workers
        BY DEF Born
      <3>2. Cardinality(Born \cup {w}) = Cardinality(Born) + 1
        BY <1>11, <3>1, CountWorker
      <3>3. Cardinality({v \in Born : wpc[v] # "exited"} \cup {w})
              = Cardinality({v \in Born : wpc[v] # "exited"}) + 1
        BY <1>11, <3>1, CountWorker
      <3> QED
        BY <1>4, <1>11, <2>1, <3>2, <3>3
    <2>3. \A i \in 1 .. thread_count' : i \in 1 .. thread_count \/ i = k
      BY <1>9
    <2>4. 1 .. thread_count \subseteq 1 .. thread_count' /\ k \in 1 .. thread_count'
      BY <1>9
    <2>5. /\ 1 .. thread_count' \subseteq DOMAIN threads'
          /\ \A i \in 1 .. thread_count' : threads'[i] \in Born'
      BY <1>9, <1>10, <1>11, <2>1, <2>3
    <2>6. \A v \in Born' : \E i \in 1 .. thread_count' : threads'[i] = v
      BY <1>10, <1>11, <2>1, <2>4
    <2>7. thread_count' = bomp_num_threads' + index'[Master] - 1
      BY <1>3, <1>4, <1>5, <1>7, Types
    <2> QED
      BY <1>3, <1>4, <1>5, <2>1, <2>2, <2>5, <2>6, <2>7 DEF StaffInv
  <1>13. ProgramInv'
    BY <1>2, <1>3, <1>6 DEF IInv, ProgramInv, Tuned
  <1>14. wpc' \in [Workers -> WorkerPC] /\ \A v \in Workers : wpc'[v] = "busy" <=> wpc[v] = "busy"
    BY <1>1, <1>4, Types DEF WorkerPC
  <1>15. pc[Master] \in SerialPC /\ pc'[Master] \in SerialPC \cup {"exited", "undefined"} /\ ~shutdown
    BY <1>2, <1>5, <1>6 DEF SerialPC, IInv, MasterInv
  <1>16. bomp_num_threads' + index'[Master] <= Head(program').n
    BY <1>2, <1>3, <1>5, <1>6, Types
  <1>17. started' \in Nat /\ thread_count' \in Nat
    BY <1>4, Types
  <1> QED
    BY <1>2, <1>3, <1>4, <1>5, <1>6, <1>10, <1>12, <1>13, <1>14, <1>15, <1>16, <1>17, Types, MovedBetween

(* ... and at last the barrier is set to the new number of threads, which  *)
(* no later request is below.                                              *)
LEMMA MasterGrown ==
  ASSUME Cooperative, IInv, GrowEnds
  PROVE  IInv'
  <1> DEFINE n == Head(program).n
  <1>1. /\ pc[Master] = "grow" /\ bomp_num_threads + index[Master] = n
        /\ max' = n /\ bomp_num_threads' = n /\ program' = Tail(program)
        /\ pc' = [pc EXCEPT ![Master] = "serial"]
        /\ UNCHANGED <<cycle, counter, bpc, local, poolVars, g_thread_numbers, nested, g_array, ip, depth,
                       index, own, history>>
    BY DEF GrowEnds, SetThreads, UpdateMax, Goto
  <1>2. UNCHANGED <<pool, queue, head, tail, count, shutdown, started, thread_count, threads, wpc, wtask,
                    team, done, reached, crossed>>
    BY <1>1 DEF poolVars, history
  <1>3. pc' = [pc EXCEPT ![Master] = pc'[Master]] /\ pc'[Master] = "serial"
    BY <1>1, Types
  <1>4. pool = "live" /\ program # << >> /\ Head(program).op = "set" /\ bomp_num_threads < n
    BY <1>1 DEF IInv, MasterInv
  <1>5. Up /\ Up' /\ ~shutdown
    BY <1>1, <1>2, <1>3, <1>4 DEF Up, IInv, MasterInv
  <1>6. /\ program[1].op = "set" /\ program[1].n = n /\ 1 \in DOMAIN program /\ n \in Nat
        /\ program' \in Seq([op : {"set", "fork"}, n : Nat])
        /\ \A i \in DOMAIN program' :
             /\ i \in Nat /\ i + 1 \in DOMAIN program /\ program'[i] = program[i + 1]
    BY <1>1, <1>4, Rest
  <1> HIDE DEF n
  <1>7. ProgramInv'
    <2>1. Tuned'
      BY <1>1 DEF Tuned
    <2>2. n <= QueueSize + 1 /\ (1 .. MaxRegions) \X (1 .. n - 1) \subseteq Tasks
      BY <1>5, <1>6 DEF IInv, ProgramInv
    <2>3. ASSUME NEW i \in DOMAIN program'
          PROVE  \/ /\ program'[i].op = "set"
                    /\ program'[i].n <= QueueSize + 1
                    /\ (1 .. MaxRegions) \X (1 .. program'[i].n - 1) \subseteq Tasks
                    /\ n <= program'[i].n
                    /\ \A j \in 1 .. i - 1 : program'[j].op = "set" => program'[j].n <= program'[i].n
                 \/ program'[i].op = "fork"
      <3>1. i \in Nat /\ i + 1 \in DOMAIN program /\ program'[i] = program[i + 1] /\ i >= 1
        <4>1. DOMAIN program' = 1 .. Len(program')
          BY <1>6, LenProperties
        <4> QED
          BY <1>6, <4>1
      <3>2. CASE program[i + 1].op = "set"
        <4>1. /\ program[i + 1].n <= QueueSize + 1
              /\ (1 .. MaxRegions) \X (1 .. program[i + 1].n - 1) \subseteq Tasks
              /\ \A j \in 1 .. (i + 1) - 1 : program[j].op = "set" => program[j].n <= program[i + 1].n
          BY <1>5, <3>1, <3>2 DEF IInv, ProgramInv
        <4>2. 1 \in 1 .. (i + 1) - 1
          BY <3>1
        <4>3. n <= program[i + 1].n
          BY <1>6, <4>1, <4>2
        <4>4. ASSUME NEW j \in 1 .. i - 1
              PROVE  program'[j] = program[j + 1] /\ j + 1 \in 1 .. (i + 1) - 1
          <5>1. Len(program') \in Nat /\ DOMAIN program' = 1 .. Len(program')
            BY <1>6, LenProperties
          <5>2. j \in DOMAIN program'
            BY <3>1, <5>1
          <5>3. j + 1 \in 1 .. (i + 1) - 1
            BY <3>1
          <5> QED
            BY <1>6, <5>2, <5>3
        <4> QED
          BY <3>1, <3>2, <4>1, <4>3, <4>4
      <3>3. CASE program[i + 1].op # "set"
        BY <1>5, <3>1, <3>3 DEF IInv, ProgramInv
      <3> QED
        BY <3>2, <3>3
    <2> QED
      BY <1>1, <1>6, <2>1, <2>2, <2>3 DEF ProgramInv
  <1>8. StaffInv'
    <2>1. thread_count = bomp_num_threads + index[Master] - 1
      BY <1>1, <1>5 DEF IInv, StaffInv
    <2>2. thread_count = n - 1 /\ n >= bomp_num_threads
      BY <1>1, <1>4, <1>6, <2>1, Types
    <2> QED
      BY <1>1, <1>2, <1>3, <1>6, <2>2, StaffKept
  <1>9. pc[Master] \in SerialPC /\ pc'[Master] \in SerialPC \cup {"exited", "undefined"}
    BY <1>1, <1>3 DEF SerialPC
  <1>10. n \in Int
    BY <1>6
  <1> QED
    BY <1>1, <1>2, <1>3, <1>4, <1>5, <1>6, <1>7, <1>8, <1>9, <1>10, Types, MovedBetween

(* The pool is given up: a thread could not be created, or the program is  *)
(* over.                                                                   *)
LEMMA MasterGivesUp ==
  ASSUME Cooperative, IInv, GrowFails \/ MasterQuits
  PROVE  IInv'
  <1>1. /\ pc[Master] \in {"grow", "serial"} /\ pc' = [pc EXCEPT ![Master] = pc'[Master]]
        /\ pc'[Master] = IF pool = "null" THEN "exited" ELSE "destroy"
        /\ UNCHANGED <<poolVars, barrierVars, regionVars, ip, depth, index, own, program, history>>
    <2>1. CASE GrowFails
      <3>1. pool = "live" /\ program # << >>
        BY <2>1 DEF GrowFails, IInv, MasterInv
      <3> QED
        BY <2>1, <3>1, Types DEF GrowFails, Goto
    <2>2. CASE MasterQuits
      BY <2>2, Types DEF MasterQuits, Goto
    <2> QED
      BY <2>1, <2>2
  <1>2. UNCHANGED <<pool, queue, head, tail, count, shutdown, started, thread_count, threads, wpc, wtask,
                    max, cycle, counter, bpc, local, team, done, reached, crossed,
                    bomp_num_threads, g_thread_numbers, nested, g_array>>
    BY <1>1 DEF poolVars, barrierVars, regionVars, history
  <1>3. ~Up'
    BY <1>1, <1>2 DEF Up
  <1>4. ProgramInv'
    <2>1. program \in Seq([op : {"set", "fork"}, n : Nat])
      BY DEF IInv, ProgramInv
    <2>2. program' \in Seq([op : {"set", "fork"}, n : Nat])
      BY <1>1, <2>1
    <2> QED
      BY <1>3, <2>2 DEF ProgramInv
  <1>5. StaffInv'
    BY <1>1, <1>2, <1>3, Types, StaffKept
  <1>6. pc[Master] \in SerialPC /\ pc'[Master] \in SerialPC \cup {"exited", "undefined"}
    BY <1>1 DEF SerialPC
  <1>7. pc'[Master] = "join" <=> pool' = "live" /\ shutdown'
    BY <1>1, <1>2 DEF IInv, MasterInv
  <1> QED
    BY <1>1, <1>2, <1>4, <1>5, <1>6, <1>7, Types, MovedBetween

(* The shutdown is announced; the workers are still there.                 *)
LEMMA MasterDestroys ==
  ASSUME Cooperative, IInv, Destroy
  PROVE  IInv'
  <1>1. /\ pc[Master] = "destroy" /\ pool = "live" /\ shutdown' = TRUE /\ wpc' = WakeAll
        /\ index' = [index EXCEPT ![Master] = 0] /\ pc' = [pc EXCEPT ![Master] = "join"]
        /\ UNCHANGED <<pool, queue, head, tail, count, started, thread_count, threads, wtask,
                       barrierVars, regionVars, ip, depth, own, program, history>>
    BY DEF Destroy, BeginShutdown, Goto, ring
  <1>2. UNCHANGED <<max, cycle, counter, bpc, local, team, done, reached, crossed,
                    bomp_num_threads, g_thread_numbers, nested, g_array>>
    BY <1>1 DEF barrierVars, regionVars, history
  <1>3. /\ pc' = [pc EXCEPT ![Master] = pc'[Master]] /\ pc'[Master] = "join"
        /\ index'[Master] = 0 /\ index' \in [Threads -> Nat]
    BY <1>1, Types
  <1>4. /\ wpc' \in [Workers -> WorkerPC]
        /\ \A w \in Workers : /\ wpc'[w] = "busy" <=> wpc[w] = "busy"
                              /\ wpc'[w] = "unborn" <=> wpc[w] = "unborn"
                              /\ wpc'[w] = "exited" <=> wpc[w] = "exited"
    BY <1>1, Types DEF WakeAll, WorkerPC
  <1>5. ~Up'
    BY <1>3 DEF Up
  <1>6. ProgramInv'
    BY <1>1, <1>5 DEF IInv, ProgramInv
  <1>7. StaffInv'
    <2>1. /\ Born' = Born
          /\ {w \in Born : wpc[w] # "exited"}' = {w \in Born : wpc[w] # "exited"}
      BY <1>4 DEF Born
    <2>2. index'[Master] <= thread_count' /\ \A i \in 1 .. index'[Master] : FALSE
      BY <1>1, <1>3, Types
    <2> QED
      BY <1>1, <1>2, <1>5, <2>1, <2>2 DEF IInv, StaffInv
  <1>8. pc[Master] \in SerialPC /\ pc'[Master] \in SerialPC \cup {"exited", "undefined"}
    BY <1>1, <1>3 DEF SerialPC
  <1> QED
    BY <1>1, <1>2, <1>3, <1>4, <1>6, <1>7, <1>8, Types, MovedBetween

(* The next worker is joined.                                              *)
LEMMA MasterJoins ==
  ASSUME Cooperative, IInv, Join
  PROVE  IInv'
  <1>1. /\ pc[Master] = "join" /\ index[Master] < thread_count /\ wpc[threads[index[Master] + 1]] = "exited"
        /\ index' = [index EXCEPT ![Master] = @ + 1]
        /\ UNCHANGED <<poolVars, barrierVars, regionVars, pc, ip, depth, own, program, history>>
    BY DEF Join, CanJoin
  <1>2. UNCHANGED <<pool, queue, head, tail, count, shutdown, started, thread_count, threads, wpc, wtask,
                    max, cycle, counter, bpc, local, team, done, reached, crossed,
                    bomp_num_threads, g_thread_numbers, nested, g_array>>
    BY <1>1 DEF poolVars, barrierVars, regionVars, history
  <1>3. /\ pc' = [pc EXCEPT ![Master] = pc'[Master]] /\ pc'[Master] = "join"
        /\ index'[Master] = index[Master] + 1 /\ index' \in [Threads -> Nat] /\ index[Master] \in Nat
    BY <1>1, Types
  <1>4. ~Up'
    BY <1>3 DEF Up
  <1>5. ProgramInv'
    BY <1>1, <1>4 DEF IInv, ProgramInv
  <1>6. StaffInv'
    <2>1. Born' = Born
      BY <1>2 DEF Born
    <2>2. \A i \in 1 .. index[Master] + 1 : i \in 1 .. index[Master] \/ i = index[Master] + 1
      BY <1>3
    <2>3. pool = "live" =>
            /\ index'[Master] <= thread_count
            /\ \A i \in 1 .. index'[Master] : wpc[threads[i]] = "exited"
      <3>1. index'[Master] <= thread_count
        BY <1>1, <1>3, Types
      <3> QED
        BY <1>1, <1>3, <2>2, <3>1 DEF IInv, StaffInv
    <2> QED
      BY <1>2, <1>3, <1>4, <2>1, <2>3 DEF IInv, StaffInv
  <1>7. pc[Master] \in SerialPC /\ pc'[Master] \in SerialPC \cup {"exited", "undefined"}
    BY <1>1, <1>3 DEF SerialPC
  <1>8. /\ pool' = "null" => pc'[Master] \in {"serial", "exited", "undefined"}
        /\ pc'[Master] = "join" <=> pool' = "live" /\ shutdown'
    BY <1>1, <1>2, <1>3 DEF IInv, MasterInv
  <1> QED
    BY <1>1, <1>2, <1>3, <1>5, <1>6, <1>7, <1>8, Types, MovedBetween

(* All workers have been joined, so none is registered and the pool goes.  *)
LEMMA MasterFrees ==
  ASSUME Cooperative, IInv, Free
  PROVE  IInv'
  <1>1. /\ pc[Master] = "join" /\ index[Master] = thread_count /\ thread_count' = 0
        /\ pool' = (IF started > 0 THEN pool ELSE "freed")
        /\ pc' = [pc EXCEPT ![Master] = IF program = << >> THEN "exited" ELSE "serial"]
        /\ program' = program \/ (program # << >> /\ program' = Tail(program))
        /\ UNCHANGED <<queue, head, tail, count, shutdown, started, threads, wpc, wtask,
                       barrierVars, regionVars, ip, depth, index, own, history>>
    BY DEF Free, FreePool, Goto, ring
  <1>2. UNCHANGED <<max, cycle, counter, bpc, local, team, done, reached, crossed,
                    bomp_num_threads, g_thread_numbers, nested, g_array>>
    BY <1>1 DEF barrierVars, regionVars, history
  <1>3. pc' = [pc EXCEPT ![Master] = pc'[Master]] /\ pc'[Master] \in {"exited", "serial"}
    BY <1>1, Types
  <1>4. pool = "live"
    BY <1>1 DEF IInv, MasterInv
  <1>5. \A w \in Born : wpc[w] = "exited"
    BY <1>1, <1>4 DEF IInv, StaffInv
  <1>6. started = 0
    <2>1. {w \in Born : wpc[w] # "exited"} = {}
      BY <1>5
    <2>2. {w \in Born : wpc[w] # "exited"} \in SUBSET Workers
      BY DEF Born
    <2>3. Cardinality({w \in Born : wpc[w] # "exited"}) = 0
      BY <2>1, <2>2, WorkerCount
    <2> QED
      BY <2>3 DEF IInv, StaffInv
  <1>7. pool' = "freed"
    BY <1>1, <1>6
  <1>8. ~Up'
    BY <1>7 DEF Up
  <1>9. ProgramInv'
    <2>1. program \in Seq([op : {"set", "fork"}, n : Nat])
      BY DEF IInv, ProgramInv
    <2>2. program' \in Seq([op : {"set", "fork"}, n : Nat])
      BY <1>1, <2>1, Rest
    <2> QED
      BY <1>8, <2>2 DEF ProgramInv
  <1>10. StaffInv'
    <2>1. Born' = Born
      BY <1>1 DEF Born
    <2> QED
      BY <1>1, <1>7, <1>8, <2>1 DEF IInv, StaffInv
  <1>11. pc[Master] \in SerialPC /\ pc'[Master] \in SerialPC \cup {"exited", "undefined"}
    BY <1>1, <1>3 DEF SerialPC
  <1> QED
    BY <1>1, <1>2, <1>3, <1>7, <1>9, <1>10, <1>11, Types, MovedBetween

(* What a program that sets its threads first never makes the master do:   *)
(* shrink the team, follow a null pointer inside a region, start a region  *)
(* in a region, or join a thread that was never created.                   *)
LEMMA MasterNever ==
  ASSUME Cooperative, IInv
  PROVE  /\ ~BodySkip(Master) /\ ~WorkerBodyEnds(Master) /\ ~EndProcessingNull(Master) /\ ~JoinGarbage
         /\ \A n : ~Shrink(n)
         /\ BodyFork(Master) => StartNested(Master)
         /\ MasterForks => ~StartNested(Master)
  <1>1. ~BodySkip(Master) /\ ~WorkerBodyEnds(Master)
    BY DEF BodySkip, WorkerBodyEnds, thread_id
  <1>2. ~EndProcessingNull(Master)
    <2> SUFFICES ASSUME pc[Master] = "endprocessing" PROVE g_array # 0
      BY DEF EndProcessingNull
    <2>1. Inside
      BY DEF Inside
    <2> QED
      BY <2>1 DEF IInv, MasterInv
  <1>3. ~JoinGarbage
    <2> SUFFICES ASSUME pc[Master] = "join", index[Master] < thread_count
                 PROVE  index[Master] + 1 \in DOMAIN threads /\ threads[index[Master] + 1] # None
      BY DEF JoinGarbage
    <2>1. PICK i \in 1 .. thread_count : i = index[Master] + 1
      BY Types
    <2>2. i \in DOMAIN threads /\ threads[i] \in Born
      BY DEF IInv, MasterInv, StaffInv
    <2> QED
      BY <2>1, <2>2, WorkersAssumption DEF Born
  <1>4. ASSUME NEW n PROVE ~Shrink(n)
    <2> SUFFICES ASSUME Shrink(n) PROVE FALSE
      OBVIOUS
    <2>1. /\ pc[Master] = "serial" /\ program # << >> /\ Head(program) = Set(n)
          /\ pool = "live" /\ n <= bomp_num_threads /\ (n = 1 \/ n # bomp_num_threads)
      BY DEF Shrink, Requests
    <2>2. Up /\ bomp_num_threads >= 2
      BY <2>1 DEF Up, IInv, StaffInv
    <2>3. 1 \in DOMAIN program /\ program[1].op = "set" /\ program[1].n = n /\ n \in Nat
      <3>1. Head(program).op = "set" /\ Head(program).n = n
        BY <2>1 DEF Set
      <3> QED
        BY <2>1, <3>1, Rest
    <2>4. bomp_num_threads <= n
      BY <2>2, <2>3 DEF IInv, ProgramInv
    <2> QED
      BY <2>1, <2>2, <2>3, <2>4, Types
  <1>5. BodyFork(Master) => StartNested(Master)
    <2> SUFFICES ASSUME BodyFork(Master) PROVE StartNested(Master)
      OBVIOUS
    <2>1. pc[Master] = "body" /\ ParallelStart(Master)
      BY DEF BodyFork
    <2>2. g_thread_numbers = bomp_num_threads /\ bomp_num_threads >= 2
      <3>1. Inside
        BY <2>1 DEF Inside
      <3> QED
        BY <3>1 DEF IInv, MasterInv, StaffInv
    <2>3. omp_in_parallel
      BY <2>2, Types DEF omp_in_parallel
    <2> QED
      BY <2>1, <2>3 DEF ParallelStart, StartOuter
  <1>6. MasterForks => ~StartNested(Master)
    <2> SUFFICES ASSUME pc[Master] = "serial" PROVE ~omp_in_parallel
      BY DEF MasterForks, StartNested
    <2>1. ~Inside
      BY DEF Inside
    <2> QED
      BY <2>1 DEF IInv, MasterInv, omp_in_parallel
  <1> QED
    BY <1>1, <1>2, <1>3, <1>4, <1>5, <1>6

(* Every step of the master keeps the invariant.                           *)
LEMMA MasterNext ==
  ASSUME Cooperative, IInv, MasterStep
  PROVE  IInv'
  <1>1. CASE RegionStep(Master)
    <2>1. CASE \/ AddedAll(Master) \/ CountRegion(Master) \/ BodyFork(Master)
               \/ MasterBodyEnds(Master) \/ ParallelEnd(Master)
      BY <2>1, MasterNever, MasterMoves
    <2>2. CASE UncountRegion(Master)
      <3>1. depth[Master] \in {1, 2}
        BY <2>2 DEF UncountRegion, IInv, MasterInv
      <3> QED
        BY <2>2, <3>1, MasterMoves, MasterReturns
    <2>3. CASE LeaveBarrier(Master) \/ LeaveEnd(Master)
      <3>1. SpinExit(Master) \/ StoreCycle(Master)
        BY <2>3 DEF LeaveBarrier, LeaveEnd, WaitReturn
      <3> QED
        BY <2>3, <3>1, MasterLeaves, MasterOpens
    <2>4. CASE AddWork(Master)
      BY <2>4, MasterAdds
    <2>5. CASE BodyBarrier(Master) \/ EndProcessing(Master)
      BY <2>5, MasterWaits
    <2>6. CASE Waiting(Master)
      BY <2>6, MasterWaiting
    <2>7. CASE ClearArray(Master) \/ ResetRegion(Master)
      BY <2>7, MasterReturns
    <2>8. CASE StoreTeamSize(Master)
      BY <2>8, MasterEnters
    <2>9. CASE StartProcessing(Master)
      BY <2>9, MasterStarts
    <2>10. CASE StartWithoutPool(Master)
      <3>1. Undefined(Master) /\ pool # "live" /\ pc[Master] \in OutsidePC
        BY <2>10 DEF StartWithoutPool, OutsidePC
      <3> QED
        BY <3>1, MasterUndefined
    <2> QED
      BY <1>1, <2>1, <2>2, <2>3, <2>4, <2>5, <2>6, <2>7, <2>8, <2>9, <2>10, MasterNever DEF RegionStep
  <1>2. CASE MasterForks
    <2>1. StartOuter(Master)
      BY <1>2, MasterNever DEF MasterForks, ParallelStart
    <2> QED
      BY <1>2, <2>1, MasterEnters
  <1>3. ASSUME NEW n, GrowBegins(n) \/ Shrink(n) \/ NoChange(n) \/ ResizeWithoutPool(n)
        PROVE  IInv'
    <2>1. CASE ResizeWithoutPool(n)
      <3>1. Undefined(Master) /\ pool # "live" /\ pc[Master] \in OutsidePC
        BY <2>1 DEF ResizeWithoutPool, Requests, OutsidePC
      <3> QED
        BY <3>1, MasterUndefined
    <2> QED
      BY <1>3, <2>1, MasterNever, MasterGrows, MasterKeeps
  <1>4. CASE DestroyFreed
    <2>1. Undefined(Master) /\ pool # "live" /\ pc[Master] \in OutsidePC
      BY <1>4 DEF DestroyFreed, OutsidePC
    <2> QED
      BY <2>1, MasterUndefined
  <1>5. CASE \/ Grow \/ GrowFails \/ GrowEnds \/ MasterQuits \/ Destroy \/ Join \/ JoinGarbage \/ Free
    BY <1>5, MasterNever, MasterCreates, MasterGivesUp, MasterGrown, MasterDestroys, MasterJoins, MasterFrees
  <1> QED
    BY <1>1, <1>2, <1>3, <1>4, <1>5 DEF MasterStep

-----------------------------------------------------------------------------
(* The invariant                                                           *)

(* threadpool_create finds as many workers as it asks for, all different.  *)
LEMMA FirstAre ==
  ASSUME NEW n \in Nat, n <= Cardinality(Workers)
  PROVE  /\ FirstWorkers(n) \in [1 .. n -> Workers]
         /\ Cardinality({FirstWorkers(n)[i] : i \in 1 .. n}) = n
  <1> DEFINE Firsts == [1 .. n -> Workers]
             Distinct(s) == \A i, j \in 1 .. n : s[i] = s[j] => i = j
  <1>1. \E s \in Firsts : Distinct(s)
    <2>1. ExistsBijection(1 .. Cardinality(Workers), Workers) /\ Cardinality(Workers) \in Nat
      BY WorkersAssumption, FS_CardinalityType
    <2>2. PICK f : f \in Bijection(1 .. Cardinality(Workers), Workers)
      BY <2>1 DEF ExistsBijection
    <2>3. /\ f \in [1 .. Cardinality(Workers) -> Workers]
          /\ \A i, j \in 1 .. Cardinality(Workers) : f[i] = f[j] => i = j
      BY <2>2 DEF Bijection, Injection, IsInjective
    <2>4. 1 .. n \subseteq 1 .. Cardinality(Workers)
      BY <2>1
    <2>5. [i \in 1 .. n |-> f[i]] \in Firsts /\ Distinct([i \in 1 .. n |-> f[i]])
      BY <2>3, <2>4
    <2> QED
      BY <2>5
  <1>2. FirstWorkers(n) \in Firsts /\ Distinct(FirstWorkers(n))
    BY <1>1 DEF FirstWorkers
  <1>3. PICK f \in Firsts : f = FirstWorkers(n) /\ Distinct(f)
    BY <1>2
  <1>4. f \in Bijection(1 .. n, {f[i] : i \in 1 .. n})
    BY <1>3 DEF Bijection, Injection, Surjection, IsInjective
  <1>5. ExistsBijection(1 .. n, {f[i] : i \in 1 .. n})
    BY <1>4 DEF ExistsBijection
  <1>6. Cardinality({f[i] : i \in 1 .. n}) = n
    BY <1>5, FS_CountingElements
  <1> QED
    BY <1>2, <1>3, <1>6

(* The state the library's constructor leaves                              *)
LEMMA InvariantInit ==
  ASSUME Cooperative, Init
  PROVE  IInv
  <1>1. PICK cores \in Nat \ {0} : cores \in Cores /\ InitWith(cores, FirstWorkers(cores - 1))
    BY DEF Init, Cooperative
  <1>2. PICK n \in Nat : n = cores - 1
    OBVIOUS
  <1>3. PICK first \in [1 .. n -> Workers] :
          first = FirstWorkers(n) /\ Cardinality({first[i] : i \in 1 .. n}) = n
    BY <1>1, <1>2, FirstAre DEF Cooperative
  <1>4. /\ bomp_num_threads = cores /\ max = n /\ cycle = 0 /\ counter = 0
        /\ bpc = [t \in Threads |-> "out"] /\ local = [t \in Threads |-> 0]
        /\ pool = (IF cores > 1 THEN "live" ELSE "null")
        /\ threads = first /\ thread_count = n /\ started = n
        /\ wpc = [w \in Workers |->
                    IF \E i \in 1 .. n : first[i] = w THEN "lock" ELSE "unborn"]
    <2>1. InitWith(cores, first) /\ DOMAIN first = 1 .. n
      BY <1>1, <1>2, <1>3
    <2> QED
      BY <1>2, <2>1 DEF InitWith, BarrierInit
  <1>5. /\ queue = [i \in 0 .. QueueSize - 1 |-> None] /\ head = 0 /\ tail = 0 /\ count = 0
        /\ shutdown = FALSE /\ wtask = [w \in Workers |-> None]
        /\ g_thread_numbers = 1 /\ nested = 0 /\ g_array = 0
        /\ pc = [t \in Threads |-> IF t = Master THEN "serial" ELSE "idle"]
        /\ ip = [t \in Threads |-> 1] /\ depth = [t \in Threads |-> 0]
        /\ index = [t \in Threads |-> 0] /\ own = [t \in Threads |-> 0]
        /\ program \in Programs /\ team = << >> /\ done = {} /\ reached = {} /\ crossed = {}
    BY DEF Init
  <1>6. /\ Master \in Threads /\ pc[Master] = "serial" /\ depth[Master] = 0
        /\ \A w \in Workers : w \in Threads /\ w # Master /\ pc[w] = "idle"
        /\ ~Inside /\ ~Opened
    <2>1. /\ Master \in Threads /\ pc[Master] = "serial" /\ depth[Master] = 0
          /\ \A w \in Workers : w \in Threads /\ w # Master /\ pc[w] = "idle"
      BY <1>5, MasterAssumption
    <2> QED
      BY <2>1 DEF Inside, Opened
  <1>7. Born = {first[i] : i \in 1 .. n} /\ \A w \in Born : wpc[w] = "lock"
    BY <1>4 DEF Born
  <1>8. region = 0
    BY <1>5 DEF region
  <1>9. TypeOK
    <2>1. PoolTypeOK
      <3>1. threads \in Seq(Workers \cup {None})
        BY <1>4, HandleTable
      <3>2. wpc \in [Workers -> WorkerPC]
        BY <1>4 DEF WorkerPC
      <3> QED
        BY <1>4, <1>5, <3>1, <3>2, QueueSizeAssumption DEF PoolTypeOK
    <2>2. BarrierTypeOK
      BY <1>4 DEF BarrierTypeOK, BarrierPC
    <2>3. pc \in [Threads -> PCs]
      BY <1>5 DEF PCs, MasterPC, WorkerOnlyPC
    <2>4. Len(Body) \in Nat
      BY LenProperties DEF Cooperative
    <2>5. ip \in [Threads -> 1 .. Len(Body) + 1]
      BY <1>5, <2>4
    <2>6. /\ depth \in [Threads -> 0 .. 2] /\ index \in [Threads -> Nat]
          /\ own \in [Threads -> 0 .. region] /\ g_array \in 0 .. region
      BY <1>5, <1>8
    <2>7. team \in Seq(Nat) /\ nested \in Int /\ bomp_num_threads \in Nat /\ g_thread_numbers \in Nat
      BY <1>4, <1>5
    <2> QED
      BY <2>1, <2>2, <2>3, <2>5, <2>6, <2>7 DEF TypeOK, PCs
  <1>10. ProgramInv
    <2>1. program \in Seq([op : {"set", "fork"}, n : Nat])
      BY <1>5 DEF Cooperative
    <2>2. ~Tuned
      BY <1>2, <1>4 DEF Tuned
    <2>3. ASSUME NEW i \in DOMAIN program
          PROVE  \/ /\ program[i].op = "set"
                    /\ program[i].n <= QueueSize + 1
                    /\ (1 .. MaxRegions) \X (1 .. program[i].n - 1) \subseteq Tasks
                    /\ bomp_num_threads <= program[i].n
                    /\ \A j \in 1 .. i - 1 : program[j].op = "set" => program[j].n <= program[i].n
                 \/ /\ program[i].op = "fork"
                    /\ \E j \in 1 .. i - 1 : program[j].op = "set" /\ bomp_num_threads < program[j].n
      BY <1>1, <1>4, <1>5 DEF Cooperative
    <2> QED
      BY <2>1, <2>2, <2>3 DEF ProgramInv
  <1>11. StaffInv
    <2>1. {w \in Born : wpc[w] # "exited"} = Born
      BY <1>7
    <2>2. Cardinality(Born) = n
      BY <1>3, <1>7
    <2>3. /\ pool = "live" => cores >= 2
          /\ DOMAIN threads = 1 .. n /\ \A i \in 1 .. n : threads[i] \in Born
          /\ \A w \in Born : \E i \in 1 .. n : threads[i] = w
      BY <1>4, <1>7
    <2> QED
      BY <1>2, <1>4, <1>6, <2>1, <2>2, <2>3 DEF StaffInv
  <1>12. MasterInv
    BY <1>5, <1>6 DEF MasterInv, MasterPC
  <1>13. \A w \in Workers : WorkerInv(w)
    <2>1. \A w \in Workers : wpc[w] # "busy"
      BY <1>4
    <2> QED
      BY <1>6, <2>1 DEF WorkerInv
  <1>14. WorkInv
    <2>1. 0 % QueueSize = 0
      BY QueueSizeAssumption
    <2>2. QueueInv
      BY <1>5, <1>6, <2>1 DEF QueueInv, RingShape
    <2> QED
      BY <1>6, <2>2 DEF WorkInv, HeldInv
  <1>15. PositionInv
    BY <1>6 DEF PositionInv
  <1>16. ArrivalInv
    <2>1. \A t \in Threads : bpc[t] = "out" /\ pc[t] \in {"serial", "idle"}
      BY <1>4, <1>5
    <2>2. Spinning = {}
      BY <2>1 DEF Spinning
    <2>3. counter = Cardinality(Spinning)
      BY <1>4, <2>2, FS_EmptySet
    <2> QED
      BY <2>1, <2>3 DEF ArrivalInv, Last
  <1>17. HistoryInv /\ BarrierSeparates
    <2>1. \A t \in Threads : pc[t] # "barrier" /\ pc[t] # "taskwait"
      BY <1>5
    <2>2. 1 .. region = {}
      BY <1>8
    <2> QED
      BY <1>5, <1>6, <2>1, <2>2 DEF HistoryInv, BarrierSeparates
  <1> QED
    BY <1>9, <1>10, <1>11, <1>12, <1>13, <1>14, <1>15, <1>16, <1>17 DEF IInv

(* A step that changes nothing                                             *)
LEMMA InvariantStutter ==
  ASSUME IInv, UNCHANGED vars
  PROVE  IInv'
  <1>1. UNCHANGED <<pool, queue, head, tail, count, shutdown, started, thread_count, threads, wpc, wtask,
                    max, cycle, counter, bpc, local, team, done, reached, crossed,
                    bomp_num_threads, g_thread_numbers, nested, g_array,
                    pc, ip, depth, index, own, program>>
    BY DEF vars, poolVars, barrierVars, regionVars, threadVars, history
  <1>2. /\ region' = region /\ Born' = Born /\ Team' = Team /\ (Inside' <=> Inside)
        /\ Up' = Up /\ Tuned' = Tuned /\ Spinning' = Spinning /\ NextOp(Master)' = NextOp(Master)
    BY <1>1 DEF region, Born, Team, Inside, Up, Tuned, Spinning, NextOp
  <1>3. \A t \in Threads : /\ Stale(t)' <=> Stale(t)
                           /\ Last(t)' <=> Last(t)
                           /\ member(t)' = member(t)
    BY <1>1, <1>2 DEF Stale, Last, member, thread_id
  <1>4. /\ Opened' <=> Opened
        /\ Added' = Added
        /\ \A t \in Threads : (Away(t)' <=> Away(t)) /\ From(t)' = From(t)
    BY <1>1, <1>2, <1>3, Members DEF Opened, Added, Away, From, Outside, Stale
  <1>5. TypeOK'
    BY <1>1, <1>2 DEF IInv, TypeOK, PoolTypeOK, BarrierTypeOK
  <1>6. ProgramInv' /\ StaffInv' /\ MasterInv'
    BY <1>1, <1>2 DEF IInv, ProgramInv, StaffInv, MasterInv
  <1>7. MasterFrame
    BY <1>1 DEF MasterFrame
  <1>8. WorkInv'
    BY <1>1, <1>4, Members, KeepWork DEF IInv
  <1>9. PositionInv'
    BY <1>2, <1>4, Members, KeepPosition DEF IInv
  <1>10. ArrivalInv'
    BY <1>1, <1>2, <1>4, KeepArrival DEF IInv
  <1>11. HistoryInv' /\ BarrierSeparates'
    BY <1>1, <1>2, <1>3, <1>4, KeepHistory DEF IInv
  <1> QED
    BY <1>5, <1>6, <1>7, <1>8, <1>9, <1>10, <1>11, MasterFrameKept DEF IInv

(* Every step keeps the invariant.                                         *)
LEMMA InvariantNext ==
  ASSUME Cooperative
  PROVE  IInv /\ [Next]_vars => IInv'
  <1> SUFFICES ASSUME IInv, [Next]_vars PROVE IInv'
    OBVIOUS
  <1>1. ASSUME NEW t \in Threads, ThreadStep(t) PROVE IInv'
    <2>1. t = Master \/ t \in Workers
      BY Members
    <2> QED
      BY <1>1, <2>1, MasterNext, WorkerNext, Members DEF ThreadStep
  <1> QED
    BY <1>1, InvariantStutter DEF Next

-----------------------------------------------------------------------------
(* The program sets its number of threads before it forks: then, for any   *)
(* number of threads, of cores and of regions, any body of barriers and    *)
(* the master's nested regions, and although pthread_create may fail, the  *)
(* library's state is always as RegionInvariant describes it.              *)
THEOREM RegionInvariantHolds ==
  ASSUME Cooperative
  PROVE  Spec => []IInv
  <1>1. Init => IInv
    BY InvariantInit
  <1>2. IInv /\ [Next]_vars => IInv'
    BY InvariantNext
  <1> QED
    BY <1>1, <1>2, PTL DEF Spec

(* The implicit barrier at the end of a region: when __kmpc_fork_call has  *)
(* returned, every thread of the team has finished its microtask.          *)
THEOREM RegionsAreJoined ==
  ASSUME Cooperative
  PROVE  Spec => []RegionsJoined
  <1>1. IInv => RegionsJoined
    BY DEF IInv, HistoryInv, RegionsJoined, Opened, Inside
  <1> QED
    BY <1>1, RegionInvariantHolds, PTL

(* __kmpc_barrier: nobody gets past an explicit barrier before the whole   *)
(* team has reached it.                                                    *)
THEOREM BarriersSeparate ==
  ASSUME Cooperative
  PROVE  Spec => []BarrierSeparates
  <1>1. IInv => BarrierSeparates
    BY DEF IInv
  <1> QED
    BY <1>1, RegionInvariantHolds, PTL

(* bomp_set_tls and omp_get_thread_num: a worker in a region finds the     *)
(* globals of that region, none that were reset or replaced meanwhile.     *)
THEOREM WorkersSeeRegion ==
  ASSUME Cooperative
  PROVE  Spec => []WorkersSeeTheirRegion
  <1>1. IInv => WorkersSeeTheirRegion
    <2> SUFFICES ASSUME IInv, NEW w \in Workers, pc[w] \in {"tls1", "tls2", "body", "barrier"}
                 PROVE  g_array = member(w)[1] /\ g_thread_numbers = team[g_array]
      BY DEF WorkersSeeTheirRegion
    <2>1. /\ g_array = region /\ g_thread_numbers = team[region]
          /\ \E k \in 1 .. Added - 1 : member(w) = <<region, k>>
      BY InRegion
    <2> QED
      BY <2>1
  <1> QED
    BY <1>1, RegionInvariantHolds, PTL

(* omp_set_num_threads and threadpool_destroy: every worker ever started   *)
(* has its handle among the first thread_count entries of pool->threads.   *)
THEOREM HandlesAreKept ==
  ASSUME Cooperative
  PROVE  Spec => []HandlesKept
  <1>1. IInv => HandlesKept
    BY DEF IInv, StaffInv, HandlesKept, Born
  <1> QED
    BY <1>1, RegionInvariantHolds, PTL
=============================================================================
