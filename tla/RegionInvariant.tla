---------------------------- MODULE RegionInvariant ----------------------------
(***************************************************************************)
(* Why regions are joined in programs that set their number of threads     *)
(* before they fork (BompParallel): the inductive invariant.               *)
(*                                                                         *)
(* All waits, explicit barriers and the ends of regions, are on one        *)
(* barrier.  While a region is open all threads have the same next place   *)
(* to wait at (PositionInv); the barrier opens when every thread there is  *)
(* has arrived there (ArrivalInv), since its max is the number of threads  *)
(* (StaffInv); each then holds a work item of its own (WorkInv), so the    *)
(* whole team has come.  Between regions nobody waits but those who have   *)
(* not seen yet that the last wait is over.                                *)
(***************************************************************************)
EXTENDS BompParallel

(* What the program must do for the library to cope with it: before its    *)
(* first region it asks for more threads than there are cores, and never   *)
(* for fewer than before; a team's work items fit in the queue; threads do *)
(* not start nested regions except the master.                             *)
Cooperative ==
  /\ Cores \subseteq Nat \ {0}
  /\ \A cores \in Cores : cores - 1 <= Cardinality(Workers)
  /\ MaxRegions \in Nat
  /\ Body \in Seq({"barrier", "master"})
  /\ Programs \subseteq Seq([op : {"set", "fork"}, n : Nat])
  /\ \A p \in Programs : \A i \in DOMAIN p :
       \/ /\ p[i].op = "set"
          /\ p[i].n <= QueueSize + 1
          /\ (1 .. MaxRegions) \X (1 .. p[i].n - 1) \subseteq Tasks
          /\ \A cores \in Cores : cores <= p[i].n
          /\ \A j \in 1 .. i - 1 : p[j].op = "set" => p[j].n <= p[i].n
       \/ /\ p[i].op = "fork"
          /\ \E j \in 1 .. i - 1 : p[j].op = "set" /\ \A cores \in Cores : cores < p[j].n

-----------------------------------------------------------------------------
End == Len(Body) + 1

(* Where a thread of a region waits                                        *)
Barriers == {i \in 1 .. Len(Body) : Body[i] = "barrier"} \cup {End}

NextBarrier(i, p) == p \in Barriers /\ i <= p /\ \A b \in Barriers : i <= b => p <= b

Born == {w \in Workers : wpc[w] # "unborn"}
Team == {Master} \cup Born

(* The wait is over and t has not seen it.                                 *)
Stale(t) == bpc[t] = "spin" /\ local[t] # cycle

(* Not in the open region: not yet, or any more                            *)
Away(w) == pc[w] = "idle" \/ (pc[w] = "taskwait" /\ Stale(w))

(* From GOMP_parallel_start until the globals are reset, and until the     *)
(* wait of bomp_end_processing is over                                     *)
Inside ==
  \/ pc[Master] \in {"adding", "incr", "body", "barrier", "end", "endprocessing",
                     "endwait", "clear"}
  \/ pc[Master] = "decr" /\ depth[Master] = 2

Opened == Inside /\ pc[Master] # "clear" /\ ~(pc[Master] = "endwait" /\ Stale(Master))

(* The work items handed to threadpool_add so far are <<region, i>> with   *)
(* 1 <= i < Added.                                                         *)
Added == IF pc[Master] = "adding" THEN index[Master] ELSE team[region]

-----------------------------------------------------------------------------
(* While the pool is up no later request is for fewer threads, and a       *)
(* region is preceded by one for more, or they are there already.          *)
Up == pool = "live" /\ pc[Master] \notin {"destroy", "join"}

Tuned == max = bomp_num_threads

ProgramInv ==
  /\ program \in Seq([op : {"set", "fork"}, n : Nat])
  /\ Up => \A i \in DOMAIN program :
       \/ /\ program[i].op = "set"
          /\ program[i].n <= QueueSize + 1
          /\ (1 .. MaxRegions) \X (1 .. program[i].n - 1) \subseteq Tasks
          /\ bomp_num_threads <= program[i].n
          /\ \A j \in 1 .. i - 1 : program[j].op = "set" => program[j].n <= program[i].n
       \/ /\ program[i].op = "fork"
          /\ \/ Tuned
             \/ \E j \in 1 .. i - 1 : program[j].op = "set" /\ bomp_num_threads < program[j].n
  /\ Up /\ Tuned =>
       /\ bomp_num_threads <= QueueSize + 1
       /\ (1 .. MaxRegions) \X (1 .. bomp_num_threads - 1) \subseteq Tasks

(* The threads there are, their handles, and started                       *)
StaffInv ==
  /\ pool = "live" =>
       /\ bomp_num_threads >= 2
       /\ Cardinality(Born) = thread_count
       /\ 1 .. thread_count \subseteq DOMAIN threads
       /\ \A i \in 1 .. thread_count : threads[i] \in Born
       /\ \A w \in Born : \E i \in 1 .. thread_count : threads[i] = w
  /\ started = Cardinality({w \in Born : wpc[w] # "exited"})
  /\ Up => thread_count = IF pc[Master] = "grow" THEN bomp_num_threads + index[Master] - 1
                                                 ELSE bomp_num_threads - 1
  /\ pc[Master] = "join" /\ pool = "live" =>
       /\ index[Master] <= thread_count
       /\ \A i \in 1 .. index[Master] : wpc[threads[i]] = "exited"

(* Where the master is tells the state of the region and of the pool.      *)
MasterInv ==
  /\ pc[Master] \in MasterPC \cup RegionPC
  /\ nested = depth[Master]
  /\ pc[Master] \in {"serial", "grow", "destroy", "join", "exited", "undefined",
                    "start", "alloc", "adding"} =>
       depth[Master] = 0
  /\ pc[Master] = "incr" => depth[Master] \in {0, 1}
  /\ pc[Master] \in {"body", "barrier", "endprocessing", "endwait", "clear", "reset"} =>
       depth[Master] = 1
  /\ pc[Master] \in {"end", "decr"} => depth[Master] \in {1, 2}
  /\ (pc[Master] = "incr" /\ depth[Master] = 1) \/ depth[Master] = 2 => NextOp(Master) = "master"
  /\ pc[Master] = "barrier" => NextOp(Master) = "barrier"
  /\ (pc[Master] = "end" /\ depth[Master] = 1) \/ pc[Master] \in {"endprocessing", "endwait"} =>
       ip[Master] = End
  /\ Inside \/ pc[Master] \in {"start", "alloc", "reset", "decr"} =>
       program # << >> /\ Head(program).op = "fork"
  /\ pc[Master] = "adding" => own[Master] = region /\ 1 <= index[Master] /\ index[Master] <= team[region]
  /\ pc[Master] = "grow" =>
       /\ pool = "live" /\ program # << >> /\ Head(program).op = "set"
       /\ bomp_num_threads < Head(program).n
       /\ DOMAIN threads = 1 .. Head(program).n
       /\ bomp_num_threads + index[Master] <= Head(program).n
  /\ pc[Master] = "undefined" => pool # "live"
  /\ pool = "null" => pc[Master] \in {"serial", "start", "alloc", "exited", "undefined"}
  /\ pc[Master] = "join" <=> pool = "live" /\ shutdown
  /\ Inside =>
       /\ pool = "live" /\ ~shutdown
       /\ g_array = region /\ region >= 1 /\ region <= MaxRegions
       /\ g_thread_numbers = team[region] /\ team[region] = bomp_num_threads /\ Tuned
  /\ ~Inside =>
       /\ g_array = 0
       /\ pc[Master] # "undefined" =>
            g_thread_numbers = IF pc[Master] \in {"alloc", "reset"} THEN bomp_num_threads ELSE 1

WorkerInv(w) ==
  /\ pc[w] \in {"idle", "tls1", "tls2", "body", "barrier", "taskwait"}
  /\ pc[w] = "idle" <=> wpc[w] # "busy"
  /\ pc[w] \in {"tls1", "tls2"} => ip[w] = 1
  /\ pc[w] = "barrier" => NextOp(w) = "barrier"
  /\ pc[w] = "taskwait" => ip[w] = End

(* The queue and the workers in the open region hold its work items, each  *)
(* once; between regions there are none.                                   *)
QueueInv ==
  /\ RingShape
  /\ ~Opened => count = 0
  /\ Opened => count <= Added - 1
  /\ \A i \in 1 .. count :
       /\ \E k \in 1 .. Added - 1 : queue[Slot(head, i)] = <<region, k>>
       /\ \A j \in 1 .. count : queue[Slot(head, i)] = queue[Slot(head, j)] => i = j
       /\ \A w \in Workers : pc[w] # "idle" => wtask[w] # queue[Slot(head, i)]

HeldInv(w) ==
  pc[w] # "idle" =>
    \/ Opened /\ ~Away(w) /\ \E k \in 1 .. Added - 1 : wtask[w] = <<region, k>>
    \/ /\ Away(w)
       /\ \E r \in 1 .. region : /\ Opened => r < region
                                 /\ \E k \in 1 .. team[r] - 1 : wtask[w] = <<r, k>>

WorkInv ==
  /\ QueueInv
  /\ \A w \in Workers : HeldInv(w)
  /\ \A v, w \in Workers :
       pc[v] # "idle" /\ pc[w] # "idle" /\ wtask[v] = wtask[w] => v = w

-----------------------------------------------------------------------------
(* Where t begins to look for the next place to wait                       *)
Outside(t) == IF t = Master THEN depth[t] = 0 ELSE Away(t)
From(t) == IF Outside(t) THEN 1 ELSE IF Stale(t) THEN ip[t] + 1 ELSE ip[t]

PositionInv == Opened => \E p \in Barriers : \A t \in Team : NextBarrier(From(t), p)

Spinning == {t \in Threads : bpc[t] = "spin" /\ local[t] = cycle}
Last(t) == bpc[t] \in {"reset", "toggle", "store"}

ArrivalInv ==
  /\ \A t \in Threads : bpc[t] = "out" <=> pc[t] \notin {"barrier", "taskwait", "endwait"}
  /\ \A t \in Threads : bpc[t] \in {"add", "reset", "toggle"} => local[t] = cycle
  /\ \A t \in Threads : bpc[t] = "store" => local[t] = 1 - cycle
  /\ \A t \in Threads : Last(t) => Team \ {t} \subseteq Spinning
  /\ ~Opened => \A t \in Threads : bpc[t] = "out" \/ Stale(t)
  /\ \/ counter = Cardinality(Spinning) /\ \A t \in Threads : ~Last(t)
     \/ \E t \in Threads : bpc[t] = "reset"
     \/ counter = 0 /\ \E t \in Threads : bpc[t] \in {"toggle", "store"}

(* What the history says of the regions that are over, and of the waits    *)
(* that are over in the open one.                                          *)
HistoryInv ==
  /\ \A r \in 1 .. region : r < region \/ ~Opened =>
       \A i \in 1 .. team[r] - 1 : <<r, i>> \in done
  /\ \A w \in Workers : pc[w] = "taskwait" => wtask[w] \in done
  /\ \A t \in Threads : pc[t] = "barrier" => <<member(t), ip[t]>> \in reached
  /\ \A t \in Threads : pc[t] = "barrier" /\ Stale(t) =>
       \A i \in 0 .. team[region] - 1 : <<<<region, i>>, ip[t]>> \in reached
  /\ \A c \in crossed : c[1][1] \in 1 .. region

IInv ==
  /\ TypeOK /\ ProgramInv /\ StaffInv /\ MasterInv
  /\ \A w \in Workers : WorkerInv(w)
  /\ WorkInv /\ PositionInv /\ ArrivalInv
  /\ HistoryInv /\ BarrierSeparates
=============================================================================
