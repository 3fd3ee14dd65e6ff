---------------------------- MODULE MigrationProofs ----------------------------
(***************************************************************************)
(* The migration shim is correct for any number of threads, any stack      *)
(* sizes and any sequence of migrations: the invariant IInv of Migration   *)
(* is inductive, so the shim never follows a dangling pointer, callbacks   *)
(* run on arrival, and rewrites fill the unused half of the stack.         *)
(***************************************************************************)
EXTENDS Migration, SequenceTheorems, TLAPS

-----------------------------------------------------------------------------
(* The geometry of a stack.                                                *)

(* The two halves are further apart than any frames are long, and both lie *)
(* in the thread's own stack, below argv.                                  *)
LEMMA Halves ==
  ASSUME NEW t \in Threads, size \in [Threads -> Sizes]
  PROVE  LET b == StackOf(t)
             mid == stack_b(b)
         IN  /\ b \in [low : Int, high : Int] /\ mid \in Int
             /\ b # Unset /\ b # NoBounds
             /\ mid + MaxDepth <= b.high
             /\ b.low + MaxDepth <= mid
             /\ Top - size[t] <= b.low
             /\ b.high = IF t = main THEN Top - Argv ELSE Top
  <1>1. size[t] \in Nat /\ MAX_STACK_SIZE <= size[t] /\ size[t] < Top
    BY StackAssumption
  <1>2. CASE t = main
    BY <1>1, <1>2, StackAssumption, MigrationAssumption
       DEF StackOf, prep_stack, stack_b, NoBounds
  <1>3. CASE t # main
    BY <1>1, <1>3, StackAssumption, MigrationAssumption
       DEF StackOf, get_thread_stack, stack_b, NoBounds
  <1> QED
    BY <1>2, <1>3

(* sp tells the halves apart: a thread's frames lie in the half they began *)
(* in, and new_stack is the beginning of the other one.                    *)
LEMMA OtherHalf ==
  ASSUME TypeOK, NEW t \in Threads
  PROVE  LET b == StackOf(t)
             mid == stack_b(b)
         IN  /\ base[t] = b.high => sp(t) >= mid /\ new_stack(t, b) = mid
             /\ base[t] = mid => sp(t) < mid /\ new_stack(t, b) = b.high
             /\ new_stack(t, b) \in Bases(t) \ {base[t]}
             /\ b.high # mid
  <1> DEFINE b == StackOf(t)
             mid == stack_b(b)
  <1>1. /\ b.high \in Int /\ mid \in Int /\ mid + MaxDepth <= b.high
        /\ MaxDepth \in Nat \ {0}
    BY Halves, MigrationAssumption DEF TypeOK
  <1>2. depth[t] \in 1 .. MaxDepth /\ base[t] \in {b.high, mid}
    BY DEF TypeOK, Bases
  <1> HIDE DEF b, mid
  <1>3. base[t] = b.high => sp(t) >= mid
    BY <1>1, <1>2 DEF sp
  <1>4. base[t] = mid => sp(t) < mid
    BY <1>1, <1>2 DEF sp
  <1>5. b.high # mid
    BY <1>1
  <1>6. sp(t) \in Int
    BY <1>1, <1>2 DEF sp
  <1>7. new_stack(t, b) = IF sp(t) >= mid THEN mid ELSE b.high
    BY DEF new_stack, mid
  <1>8. /\ base[t] = b.high => new_stack(t, b) = mid
        /\ base[t] = mid => new_stack(t, b) = b.high
    BY <1>1, <1>3, <1>4, <1>6, <1>7
  <1>9. new_stack(t, b) \in {b.high, mid} \ {base[t]}
    BY <1>2, <1>5, <1>8
  <1> QED
    BY <1>3, <1>4, <1>5, <1>8, <1>9 DEF b, mid, Bases

(* The bounds a rewrite works with are those of the thread's stack, or     *)
(* none, with which it refuses every stack pointer.                        *)
LEMMA ResolvedBounds ==
  ASSUME TypeOK, NEW t \in Threads, StackInv(t), handles = Arch, NEW b \in Resolve(t)
  PROVE  /\ b \in {NoBounds, StackOf(t)}
         /\ t = main => b = StackOf(t)
         /\ SpValid(t, b) => b = StackOf(t)
  <1>1. StackOf(t) # Unset /\ StackOf(t) # NoBounds
    BY Halves DEF TypeOK
  <1>2. t = main => b = StackOf(t)
    BY <1>1 DEF StackInv, Resolve, Known
  <1>3. ASSUME t # main PROVE b \in {NoBounds, StackOf(t)}
    <2>1. NoBounds # Unset
      BY StackAssumption DEF NoBounds
    <2>2. bounds[t] \in {NoBounds, StackOf(t)} \/ (bounds[t] = Unset /\ ~Known(t))
      BY <2>1 DEF StackInv, Known, TypeOK
    <2>3. CASE Known(t)
      BY <1>3, <2>2, <2>3 DEF Resolve
    <2>4. CASE ~Known(t)
      BY <1>3, <2>4 DEF Resolve, StackOf
    <2> QED
      BY <2>3, <2>4
  <1>4. b \in {NoBounds, StackOf(t)} /\ (t = main => b = StackOf(t))
    BY <1>2, <1>3
  <1>5. sp(t) \in Int
    BY MigrationAssumption DEF sp, TypeOK
  <1>6. ~SpValid(t, NoBounds)
    BY <1>5 DEF SpValid, NoBounds
  <1> QED
    BY <1>4, <1>6

(* There are two architectures, and other is the other one.                *)
LEMMA OtherArch ==
  ASSUME NEW A \in Arch
  PROVE  other(A) \in Arch /\ other(A) # A
  BY MigrationAssumption DEF other

(* No half begins at NULL.                                                 *)
LEMMA BasesAreInts ==
  ASSUME NEW t \in Threads, size \in [Threads -> Sizes]
  PROVE  /\ Bases(t) \subseteq Int /\ NULL \notin Bases(t)
         /\ StackOf(t).high \in Bases(t)
  BY Halves, MigrationAssumption DEF Bases

(* The data of a migration that is under way is not mistaken for data of a *)
(* frame that is gone.                                                     *)
LEMMA DeadIsNoRecord ==
  ASSUME NEW d \in ShimData
  PROVE  d # Dead
  BY MigrationAssumption

-----------------------------------------------------------------------------
(* What the invariant says of the properties.                              *)

(* The invariant implies what is claimed of the shim's data and of the     *)
(* callback, ...                                                           *)
LEMMA IInvImpliesShim == IInv => ShimDataValid /\ CallbackBeforeResuming
  <1> SUFFICES ASSUME IInv PROVE ShimDataValid /\ CallbackBeforeResuming
    OBVIOUS
  <1>1. ShimDataValid
    BY DEF IInv, ShimInv, ShimDataValid
  <1>2. ASSUME NEW t \in Threads, Sound(t), pc[t] = "callback"
        PROVE  /\ arch[t] # asked[t].from
               /\ mem[t][Last(posts[t])].callback = asked[t].callback
               /\ ~owed[t]
    <2>1. posts[t] = <<args[t]>> /\ Saved(t, args[t]) /\ ~owed[t]
      BY <1>2 DEF IInv, ShimInv
    <2>2. Last(posts[t]) = args[t]
      BY <2>1 DEF Last
    <2> QED
      BY <2>1, <2>2 DEF Saved
  <1>3. ASSUME NEW t \in Threads, Sound(t), pc[t] = "run"
        PROVE  ~owed[t] /\ args[t] = NULL /\ posts[t] = << >>
    BY <1>3 DEF IInv, ShimInv
  <1> QED
    BY <1>1, <1>2, <1>3 DEF CallbackBeforeResuming

(* ... that rewrites go to free memory, ...                                *)
LEMMA IInvImpliesFree == IInv => RewritesFreeMemory
  <1> SUFFICES ASSUME IInv, NEW t \in Threads, pc[t] = "migrate"
               PROVE  /\ ((target[t] - depth[t]) .. (target[t] - 1))
                            \cap (sp(t) .. (base[t] - 1)) = {}
                      /\ (target[t] - depth[t]) .. (target[t] - 1)
                            \subseteq (Top - size[t]) ..
                                (IF t = main THEN Top - Argv - 1 ELSE Top - 1)
    BY DEF RewritesFreeMemory
  <1> DEFINE b == StackOf(t)
             mid == stack_b(b)
  <1>1. /\ b.high \in Int /\ b.low \in Int /\ mid \in Int
        /\ mid + MaxDepth <= b.high
        /\ b.low + MaxDepth <= mid
        /\ Top - size[t] <= b.low
        /\ b.high = IF t = main THEN Top - Argv ELSE Top
    BY Halves DEF IInv, TypeOK
  <1>2. target[t] \in {b.high, mid} \ {base[t]} /\ base[t] \in {b.high, mid}
    BY DEF IInv, TypeOK, StackInv, Bases
  <1>3. depth[t] \in 1 .. MaxDepth /\ size[t] \in Int
    BY StackAssumption DEF IInv, TypeOK
  <1> HIDE DEF b, mid
  <1>4. CASE target[t] = mid /\ base[t] = b.high
    BY <1>1, <1>3, <1>4, StackAssumption, MigrationAssumption DEF sp
  <1>5. CASE target[t] = b.high /\ base[t] = mid
    BY <1>1, <1>3, <1>5, StackAssumption, MigrationAssumption DEF sp
  <1> QED
    BY <1>2, <1>4, <1>5

(* ... and that the bounds kept for a thread match its frames.             *)
LEMMA IInvImpliesBounds == IInv => BoundsMatchFrames
  <1> SUFFICES ASSUME IInv, NEW t \in Threads, bounds[t] \notin {Unset, NoBounds}
               PROVE  /\ get_stack_bounds(t).high = base[t]
                      /\ base[t] # stack_b(bounds[t]) =>
                           get_stack_bounds(t).low = new_stack(t, bounds[t])
    BY DEF BoundsMatchFrames
  <1> DEFINE b == StackOf(t)
             mid == stack_b(b)
  <1>1. bounds[t] = b
    BY DEF IInv, StackInv
  <1>2. /\ base[t] = b.high => sp(t) >= mid /\ new_stack(t, b) = mid
        /\ base[t] = mid => sp(t) < mid /\ new_stack(t, b) = b.high
        /\ base[t] \in {b.high, mid}
        /\ sp(t) \in Int /\ mid \in Int
    <2>1. /\ base[t] = b.high => sp(t) >= mid /\ new_stack(t, b) = mid
          /\ base[t] = mid => sp(t) < mid /\ new_stack(t, b) = b.high
      BY OtherHalf DEF IInv
    <2>2. base[t] \in {b.high, mid} /\ mid \in Int
      BY Halves DEF IInv, TypeOK, Bases
    <2>3. sp(t) \in Int
      BY MigrationAssumption DEF IInv, TypeOK, sp
    <2> QED
      BY <2>1, <2>2, <2>3
  <1>3. get_stack_bounds(t) = IF sp(t) >= mid THEN [low |-> mid, high |-> b.high]
                              ELSE [low |-> mid, high |-> mid]
    BY <1>1 DEF get_stack_bounds
  <1> HIDE DEF b
  <1>4. CASE base[t] = b.high
    BY <1>1, <1>2, <1>3, <1>4
  <1>5. CASE base[t] = mid
    BY <1>1, <1>2, <1>3, <1>5
  <1> QED
    BY <1>2, <1>4, <1>5

-----------------------------------------------------------------------------
(* IInv is inductive.  A thread's step leaves the other threads alone, so  *)
(* each action is shown to keep the invariant of its own thread.           *)

ThreadInv(t) == StackInv(t) /\ PointerInv(t) /\ (Sound(t) => ShimInv(t))

(* The step changes nothing the invariant of u is about.                   *)
Untouched(u) ==
  /\ pc'[u] = pc[u] /\ arch'[u] = arch[u] /\ leaving'[u] = leaving[u]
  /\ args'[u] = args[u] /\ mem'[u] = mem[u] /\ target'[u] = target[u]
  /\ posts'[u] = posts[u] /\ asked'[u] = asked[u] /\ owed'[u] = owed[u]
  /\ failed'[u] = failed[u] /\ reentered'[u] = reentered[u]
  /\ bounds'[u] = bounds[u] /\ base'[u] = base[u] /\ depth'[u] = depth[u]

(* A thread's stack and its halves depend on nothing but its size and      *)
(* kind.                                                                   *)
LEMMA StacksStay ==
  ASSUME UNCHANGED <<main, size>>, NEW t \in Threads
  PROVE  StackOf(t)' = StackOf(t) /\ Bases(t)' = Bases(t)
  BY DEF StackOf, Bases, prep_stack, get_thread_stack, stack_b

(* A thread that is not touched keeps its part of the invariant.           *)
LEMMA UntouchedKeeps ==
  ASSUME UNCHANGED <<main, tls, size, handles>>, NEW u \in Threads, Untouched(u),
         ThreadInv(u)
  PROVE  ThreadInv(u)'
  <1> USE DEF ThreadInv, Untouched
  <1>1. StackInv(u)'
    BY StacksStay DEF StackInv, NoBounds
  <1>2. PointerInv(u)'
    BY DEF PointerInv
  <1>3. (Sound(u) => ShimInv(u))'
    BY DEF Sound, ShimInv, Saved
  <1> QED
    BY <1>1, <1>2, <1>3

(* A step of one thread has to keep only that part of the invariant.       *)
LEMMA OneThread ==
  ASSUME IInv, TypeOK', NEW t \in Threads, UNCHANGED <<main, tls, size, handles>>,
         \A u \in Threads \ {t} : Untouched(u), ThreadInv(t)'
  PROVE  IInv'
  <1>1. ASSUME NEW u \in Threads PROVE ThreadInv(u)'
    <2>1. CASE u = t
      BY <2>1
    <2>2. CASE u # t
      <3>1. Untouched(u) /\ ThreadInv(u)
        BY <2>2 DEF IInv, ThreadInv
      <3> QED
        BY <3>1, UntouchedKeeps
    <2> QED
      BY <2>1, <2>2
  <1> QED
    BY <1>1 DEF IInv, ThreadInv

(* The constructor and the start of the threads establish the invariant.   *)
LEMMA InitIInv == Init => IInv
  <1> SUFFICES ASSUME Init PROVE IInv
    OBVIOUS
  <1> USE DEF Init, __st_userspace_ctor
  <1>1. \A t \in Threads : StackOf(t).high = IF t = main THEN Top - Argv ELSE Top
    BY Halves
  <1>2. TypeOK
    <2>1. base \in [Threads -> Int] /\ \A t \in Threads : base[t] \in Bases(t)
      BY <1>1, StackAssumption DEF Bases
    <2>2. depth \in [Threads -> 1 .. MaxDepth]
      BY MigrationAssumption
    <2>3. arch \in [Threads -> Arch]
      OBVIOUS
    <2>4. DOMAIN bounds = Threads
      OBVIOUS
    <2>5. pc \in [Threads -> PC]
      BY DEF PC
    <2>6. /\ callback \in [Threads -> Callbacks \cup {NULL}]
          /\ leaving \in [Threads -> BOOLEAN] /\ owed \in [Threads -> BOOLEAN]
          /\ failed \in [Threads -> BOOLEAN] /\ reentered \in [Threads -> BOOLEAN]
      OBVIOUS
    <2>7. \A t \in Threads : mem[t] \in [Bases(t) -> ShimData \cup {Dead}]
      OBVIOUS
    <2>8. /\ DOMAIN args = Threads /\ DOMAIN mem = Threads /\ DOMAIN target = Threads
          /\ DOMAIN posts = Threads /\ DOMAIN asked = Threads
          /\ \A t \in Threads : args[t] \in Bases(t) \cup {NULL}
      OBVIOUS
    <2>9. registered \in Callbacks \cup {NULL} /\ size \in [Threads -> Sizes]
          /\ tls \in {"compiler", "pthread"}
      OBVIOUS
    <2> QED
      BY <2>1, <2>2, <2>3, <2>4, <2>5, <2>6, <2>7, <2>8, <2>9 DEF TypeOK
  <1>3. ASSUME NEW t \in Threads PROVE StackInv(t)
    <2>1. Arch # {}
      OBVIOUS
    <2>2. CASE t = main
      <3>1. main # Unset /\ bounds[t] \in {NoBounds, prep_stack}
        BY <2>2, StackAssumption
      <3>2. bounds[t] # Unset
        BY <3>1, <2>2, Halves, StackAssumption DEF StackOf, NoBounds
      <3>3. handles = Arch => bounds[t] = StackOf(t)
        BY <2>1, <2>2, <3>1 DEF StackOf
      <3> QED
        BY <2>2, <3>1, <3>2, <3>3 DEF StackInv, StackOf
    <2>3. CASE t # main
      BY <2>3, StackAssumption DEF StackInv, NoBounds
    <2> QED
      BY <2>2, <2>3
  <1>4. ASSUME NEW t \in Threads PROVE PointerInv(t) /\ ShimInv(t)
    BY DEF PointerInv, ShimInv
  <1> QED
    BY <1>2, <1>3, <1>4 DEF IInv

(* A migration point of the program, of whatever kind: the shim is         *)
(* entered, or the program goes on.                                        *)
LEMMA PointKeeps ==
  ASSUME IInv, NEW t \in Threads, pc[t] = "run",
         NEW x \in {"run", "shim"}, pc' = [pc EXCEPT ![t] = x],
         NEW l \in BOOLEAN, leaving' = [leaving EXCEPT ![t] = l],
         NEW d \in 1 .. MaxDepth, depth' = [depth EXCEPT ![t] = d],
         x = "shim" /\ l => d > 1,
         callback' \in [Threads -> Callbacks \cup {NULL}],
         UNCHANGED <<main, tls, size, handles, bounds, base, arch, registered, mem,
                     target, posts, args, asked, owed, failed, reentered>>
  PROVE  IInv'
  <1>1. TypeOK'
    BY DEF IInv, TypeOK, PC, Bases, StackOf, stack_b, prep_stack, get_thread_stack
  <1>2. \A u \in Threads \ {t} : Untouched(u)
    BY DEF IInv, TypeOK, Untouched
  <1>3. /\ pc'[t] = x /\ leaving'[t] = l /\ depth'[t] = d
    BY DEF IInv, TypeOK
  <1>4. StackInv(t) /\ (Sound(t) => ShimInv(t))
    BY DEF IInv
  <1>5. StackInv(t)'
    BY <1>3, <1>4, StacksStay DEF StackInv, NoBounds
  <1>6. PointerInv(t)'
    BY <1>3 DEF PointerInv
  <1>7. (Sound(t) => ShimInv(t))'
    BY <1>3, <1>4 DEF Sound, ShimInv
  <1> QED
    BY <1>1, <1>2, <1>5, <1>6, <1>7, OneThread DEF ThreadInv

(* A migration point: the test whether to migrate, and the entry of the    *)
(* shim                                                                    *)
LEMMA PointIInv ==
  ASSUME IInv, NEW t \in Threads,
         \/ \E cb \in Callbacks \cup {NULL} : check_migrate(t, cb) \/ migrate(t, cb)
         \/ __cyg_profile_func_enter(t)
         \/ __cyg_profile_func_exit(t)
  PROVE  IInv'
  <1>1. /\ pc \in [Threads -> PC] /\ depth \in [Threads -> 1 .. MaxDepth]
        /\ callback \in [Threads -> Callbacks \cup {NULL}]
        /\ registered \in Callbacks \cup {NULL} /\ MaxDepth \in Nat
    BY MigrationAssumption DEF IInv, TypeOK
  <1>2. \A yes \in do_migrate(t) : yes \in BOOLEAN
    BY DEF do_migrate
  <1>3. ASSUME NEW cb \in Callbacks \cup {NULL}, check_migrate(t, cb) PROVE IInv'
    <2>1. PICK yes \in BOOLEAN :
            /\ pc' = [pc EXCEPT ![t] = IF yes THEN "shim" ELSE @]
            /\ callback' = [callback EXCEPT ![t] = IF yes THEN cb ELSE @]
            /\ leaving' = [leaving EXCEPT ![t] = yes /\ FALSE]
      BY <1>2, <1>3 DEF check_migrate, Point
    <2>2. /\ pc[t] = "run"
          /\ UNCHANGED <<main, tls, size, handles, bounds, base, depth, arch, registered,
                         mem, target, posts, args, asked, owed, failed, reentered>>
      BY <1>3 DEF check_migrate, userVars
    <2>3. pc' = [pc EXCEPT ![t] = IF yes THEN "shim" ELSE "run"]
          /\ leaving' = [leaving EXCEPT ![t] = FALSE]
          /\ depth' = [depth EXCEPT ![t] = depth[t]] /\ depth[t] \in 1 .. MaxDepth
          /\ callback' \in [Threads -> Callbacks \cup {NULL}]
          /\ (IF yes THEN "shim" ELSE "run") \in {"run", "shim"}
      BY <1>1, <2>1, <2>2
    <2> QED
      BY <2>2, <2>3, PointKeeps
  <1>4. ASSUME NEW cb \in Callbacks \cup {NULL}, migrate(t, cb) PROVE IInv'
    <2>1. /\ pc[t] = "run" /\ pc' = [pc EXCEPT ![t] = "shim"]
          /\ leaving' = [leaving EXCEPT ![t] = FALSE]
          /\ callback' \in [Threads -> Callbacks \cup {NULL}]
          /\ UNCHANGED <<main, tls, size, handles, bounds, base, depth, arch, registered,
                         mem, target, posts, args, asked, owed, failed, reentered>>
      BY <1>1, <1>4 DEF migrate, userVars
    <2>2. depth' = [depth EXCEPT ![t] = depth[t]] /\ depth[t] \in 1 .. MaxDepth
      BY <1>1, <2>1
    <2> QED
      BY <2>1, <2>2, PointKeeps
  <1>5. ASSUME __cyg_profile_func_enter(t) PROVE IInv'
    <2>1. PICK yes \in BOOLEAN :
            /\ pc' = [pc EXCEPT ![t] = IF yes THEN "shim" ELSE @]
            /\ callback' = [callback EXCEPT ![t] = IF yes THEN registered ELSE @]
            /\ leaving' = [leaving EXCEPT ![t] = yes /\ FALSE]
      BY <1>2, <1>5 DEF __cyg_profile_func_enter, Point
    <2>2. /\ pc[t] = "run" /\ depth[t] < MaxDepth
          /\ depth' = [depth EXCEPT ![t] = depth[t] + 1]
          /\ UNCHANGED <<main, tls, size, handles, bounds, base, arch, registered,
                         mem, target, posts, args, asked, owed, failed, reentered>>
      BY <1>5 DEF __cyg_profile_func_enter
    <2>3. pc' = [pc EXCEPT ![t] = IF yes THEN "shim" ELSE "run"]
          /\ leaving' = [leaving EXCEPT ![t] = FALSE]
          /\ callback' \in [Threads -> Callbacks \cup {NULL}]
          /\ (IF yes THEN "shim" ELSE "run") \in {"run", "shim"}
      BY <1>1, <2>1, <2>2
    <2>4. depth[t] + 1 \in 1 .. MaxDepth
      BY <1>1, <2>2
    <2> QED
      BY <2>2, <2>3, <2>4, PointKeeps
  <1>6. ASSUME __cyg_profile_func_exit(t) PROVE IInv'
    <2>1. PICK yes \in BOOLEAN :
            /\ pc' = [pc EXCEPT ![t] = IF yes THEN "shim" ELSE @]
            /\ callback' = [callback EXCEPT ![t] = IF yes THEN registered ELSE @]
            /\ leaving' = [leaving EXCEPT ![t] = yes /\ TRUE]
      BY <1>2, <1>6 DEF __cyg_profile_func_exit, Point
    <2>2. /\ pc[t] = "run" /\ depth[t] > 1
          /\ depth' = [depth EXCEPT ![t] = IF pc'[t] = "run" THEN @ - 1 ELSE @]
          /\ UNCHANGED <<main, tls, size, handles, bounds, base, arch, registered,
                         mem, target, posts, args, asked, owed, failed, reentered>>
      BY <1>6 DEF __cyg_profile_func_exit
    <2>3. pc' = [pc EXCEPT ![t] = IF yes THEN "shim" ELSE "run"]
          /\ pc'[t] = (IF yes THEN "shim" ELSE "run")
          /\ leaving' = [leaving EXCEPT ![t] = yes]
          /\ callback' \in [Threads -> Callbacks \cup {NULL}]
          /\ (IF yes THEN "shim" ELSE "run") \in {"run", "shim"}
      BY <1>1, <2>1, <2>2
    <2>4. CASE yes
      <3>1. /\ pc' = [pc EXCEPT ![t] = "shim"]
            /\ depth' = [depth EXCEPT ![t] = depth[t]] /\ depth[t] \in 1 .. MaxDepth
            /\ leaving' = [leaving EXCEPT ![t] = TRUE]
        BY <1>1, <2>2, <2>3, <2>4
      <3> QED
        BY <3>1, <2>2, <2>3, PointKeeps
    <2>5. CASE ~yes
      <3>1. /\ pc' = [pc EXCEPT ![t] = "run"]
            /\ depth' = [depth EXCEPT ![t] = depth[t] - 1]
            /\ depth[t] - 1 \in 1 .. MaxDepth
            /\ leaving' = [leaving EXCEPT ![t] = FALSE]
        <4>1. yes = FALSE /\ pc'[t] = "run"
          BY <2>3, <2>5
        <4>2. depth[t] - 1 \in 1 .. MaxDepth
          BY <1>1, <2>2
        <4> QED
          BY <2>2, <2>3, <4>1, <4>2
      <3> QED
        BY <3>1, <2>2, <2>3, PointKeeps
    <2> QED
      BY <2>4, <2>5
  <1> QED
    BY <1>3, <1>4, <1>5, <1>6

(* The steps of the world around the threads.                              *)
LEMMA WorldIInv ==
  ASSUME IInv, UNCHANGED vars \/ Schedule
               \/ \E cb \in Callbacks : register_migrate_callback(cb)
  PROVE  IInv'
  <1>1. /\ UNCHANGED <<main, tls, size, handles, bounds, base, depth, arch, pc, leaving,
                       callback, mem, target, posts, args, asked, owed, failed, reentered>>
        /\ registered' \in Callbacks \cup {NULL}
    BY DEF IInv, TypeOK, vars, userVars, shimVars, Schedule, register_migrate_callback
  <1>2. TypeOK'
    BY <1>1 DEF IInv, TypeOK, Bases, StackOf, stack_b, prep_stack, get_thread_stack
  <1>3. ASSUME NEW u \in Threads PROVE ThreadInv(u)'
    <2>1. Untouched(u) /\ ThreadInv(u)
      BY <1>1 DEF Untouched, IInv, ThreadInv
    <2> QED
      BY <1>1, <2>1, UntouchedKeeps
  <1> QED
    BY <1>2, <1>3 DEF IInv, ThreadInv

(* What the type invariant of the next state needs: the variables the      *)
(* thread's step may change, and that the stacks stay.                     *)
LEMMA NextTypeOK ==
  ASSUME TypeOK, UNCHANGED <<main, tls, size, handles, registered>>,
         pc' \in [Threads -> PC], arch' \in [Threads -> Arch],
         callback' \in [Threads -> Callbacks \cup {NULL}],
         leaving' \in [Threads -> BOOLEAN],
         depth' \in [Threads -> 1 .. MaxDepth],
         base' \in [Threads -> Int], \A u \in Threads : base'[u] \in Bases(u),
         DOMAIN args' = Threads, \A u \in Threads : args'[u] \in Bases(u) \cup {NULL},
         DOMAIN mem' = Threads,
         \A u \in Threads : mem'[u] \in [Bases(u) -> ShimData \cup {Dead}],
         DOMAIN bounds' = Threads, DOMAIN target' = Threads,
         DOMAIN posts' = Threads, DOMAIN asked' = Threads,
         owed' \in [Threads -> BOOLEAN], failed' \in [Threads -> BOOLEAN],
         reentered' \in [Threads -> BOOLEAN]
  PROVE  TypeOK'
  BY DEF TypeOK, Bases, StackOf, stack_b, prep_stack, get_thread_stack

(* The shim is entered: it finds that it has arrived, or leaves the        *)
(* pointer to its data.                                                    *)
LEMMA InvokeIInv ==
  ASSUME IInv, NEW t \in Threads, Invoke(t)
  PROVE  IInv'
  <1>1. TypeOK /\ ThreadInv(t)
    BY DEF IInv, ThreadInv
  <1> DEFINE data == [callback |-> callback[t], regset |-> FALSE]
  <1>2. data \in ShimData
    BY <1>1 DEF TypeOK, ShimData
  <1>3. /\ UNCHANGED <<main, tls, size, handles, bounds, base, depth, arch, registered,
                       leaving, callback, target, posts, owed, failed, reentered>>
        /\ pc[t] = "shim" /\ args[t] = NULL
        /\ pc' = [pc EXCEPT ![t] = "rewrite"]
        /\ args' = [args EXCEPT ![t] = base[t]]
        /\ mem' = [mem EXCEPT ![t][base[t]] = data]
        /\ asked' = [asked EXCEPT ![t] = [callback |-> callback[t], from |-> arch[t]]]
    BY DEF Invoke, userVars
  <1>4. /\ pc'[t] = "rewrite" /\ args'[t] = base[t]
        /\ base[t] \in Bases(t)
        /\ mem'[t] = [mem[t] EXCEPT ![base[t]] = data]
        /\ asked'[t] = [callback |-> callback[t], from |-> arch[t]]
    BY <1>1, <1>3 DEF TypeOK
  <1>5. mem'[t] \in [Bases(t) -> ShimData \cup {Dead}] /\ mem'[t][base[t]] = data
    BY <1>1, <1>2, <1>4 DEF TypeOK
  <1> HIDE DEF data
  <1>6. \A u \in Threads \ {t} : Untouched(u)
    BY <1>1, <1>3 DEF TypeOK, Untouched
  <1>7. TypeOK'
    <2>1. \A u \in Threads : mem'[u] \in [Bases(u) -> ShimData \cup {Dead}]
      BY <1>1, <1>5, <1>6 DEF TypeOK, Untouched
    <2>2. \A u \in Threads : args'[u] \in Bases(u) \cup {NULL}
      BY <1>1, <1>4, <1>6 DEF TypeOK, Untouched
    <2> QED
      BY <1>1, <1>3, <2>1, <2>2, NextTypeOK DEF TypeOK, PC
  <1>8. StackInv(t)'
    BY <1>1, <1>3, <1>4, StacksStay DEF ThreadInv, StackInv, NoBounds
  <1>9. PointerInv(t)'
    BY <1>2, <1>3, <1>4, <1>5 DEF PointerInv
  <1>10. (Sound(t) => ShimInv(t))'
    <2> SUFFICES ASSUME Sound(t)' PROVE ShimInv(t)'
      OBVIOUS
    <2>1. posts[t] = << >> /\ ~owed[t]
      BY <1>1, <1>3 DEF ThreadInv, Sound, ShimInv
    <2>2. asked'[t].callback = callback[t] /\ asked'[t].from = arch[t]
      BY <1>4
    <2>3. mem'[t][base[t]] = [callback |-> asked'[t].callback, regset |-> FALSE]
      BY <1>5, <2>2 DEF data
    <2> QED
      BY <1>3, <1>4, <2>1, <2>2, <2>3 DEF ShimInv
  <1> QED
    BY <1>3, <1>6, <1>7, <1>8, <1>9, <1>10, OneThread DEF ThreadInv

(* Where the shim returns to, and the frames that are left then.           *)
LEMMA ReturnTypes ==
  ASSUME TypeOK, NEW t \in Threads, StackInv(t), pc[t] # "run", NEW left, Return(t, left)
  PROVE  /\ pc' \in [Threads -> PC] /\ depth' \in [Threads -> 1 .. MaxDepth]
         /\ pc'[t] = (IF left = << >> THEN "run" ELSE "callback")
         /\ left # << >> => depth' = depth
         /\ \A u \in Threads \ {t} : pc'[u] = pc[u] /\ depth'[u] = depth[u]
  <1>1. depth[t] \in 1 .. MaxDepth /\ (leaving[t] => depth[t] - 1 \in 1 .. MaxDepth)
    BY MigrationAssumption DEF TypeOK, StackInv
  <1>2. CASE left = << >>
    <2>1. /\ pc' = [pc EXCEPT ![t] = "run"]
          /\ depth' = [depth EXCEPT ![t] = IF leaving[t] THEN @ - 1 ELSE @]
      BY <1>2 DEF Return
    <2>2. pc' \in [Threads -> PC] /\ pc'[t] = "run"
          /\ \A u \in Threads \ {t} : pc'[u] = pc[u]
      BY <2>1 DEF TypeOK, PC
    <2>3. depth' \in [Threads -> 1 .. MaxDepth]
          /\ \A u \in Threads \ {t} : depth'[u] = depth[u]
      BY <1>1, <2>1 DEF TypeOK
    <2> QED
      BY <1>2, <2>2, <2>3
  <1>3. CASE left # << >>
    BY <1>3 DEF Return, TypeOK, PC
  <1> QED
    BY <1>2, <1>3

(* A failed rewrite leaves the pointer behind: from here on only what does *)
(* not depend on it is claimed of the thread.                              *)
LEMMA RewriteFailsIInv ==
  ASSUME IInv, NEW t \in Threads, pc[t] = "rewrite", RewriteFails(t),
         DOMAIN bounds' = Threads,
         \A u \in Threads \ {t} : bounds'[u] = bounds[u],
         bounds'[t] \in {bounds[t], NoBounds, StackOf(t)},
         t = main => bounds'[t] = bounds[t],
         UNCHANGED <<main, tls, size, handles, base, arch, registered,
                     leaving, callback, posts, args, asked, owed, reentered>>
  PROVE  IInv'
  <1>1. TypeOK /\ ThreadInv(t)
    BY DEF IInv, ThreadInv
  <1>2. /\ failed' = [failed EXCEPT ![t] = TRUE]
        /\ mem' = [mem EXCEPT ![t][base[t]] = Dead]
        /\ target' = target
        /\ Return(t, posts[t])
    BY DEF RewriteFails
  <1>3. /\ pc' \in [Threads -> PC] /\ depth' \in [Threads -> 1 .. MaxDepth]
        /\ pc'[t] \in {"run", "callback"}
        /\ pc'[t] = "callback" => depth' = depth
        /\ \A u \in Threads \ {t} : pc'[u] = pc[u] /\ depth'[u] = depth[u]
    BY <1>1, <1>2, ReturnTypes DEF ThreadInv
  <1>4. mem'[t] \in [Bases(t) -> ShimData \cup {Dead}]
    BY <1>1, <1>2 DEF TypeOK
  <1>5. \A u \in Threads \ {t} : Untouched(u)
    BY <1>1, <1>2, <1>3 DEF TypeOK, Untouched
  <1>6. TypeOK'
    <2>1. \A u \in Threads : mem'[u] \in [Bases(u) -> ShimData \cup {Dead}]
      BY <1>1, <1>4, <1>5 DEF TypeOK, Untouched
    <2>2. DOMAIN mem' = Threads /\ failed' \in [Threads -> BOOLEAN]
      BY <1>1, <1>2 DEF TypeOK
    <2> QED
      BY <1>1, <1>2, <1>3, <2>1, <2>2, NextTypeOK DEF TypeOK
  <1>7. StackInv(t)'
    <2>1. NoBounds # Unset /\ StackOf(t) # Unset
      BY <1>1, Halves, StackAssumption DEF NoBounds, TypeOK
    <2> QED
      BY <1>1, <1>3, <2>1, StacksStay DEF ThreadInv, StackInv, NoBounds
  <1>8. PointerInv(t)'
    BY <1>3 DEF PointerInv
  <1>9. ~Sound(t)'
    BY <1>1, <1>2 DEF Sound, TypeOK
  <1> QED
    BY <1>5, <1>6, <1>7, <1>8, <1>9, OneThread DEF ThreadInv

(* A rewrite that succeeds fills the other half and leaves the registers   *)
(* with the shim's data in this one.                                       *)
LEMMA RewriteSucceedsIInv ==
  ASSUME IInv, NEW t \in Threads, pc[t] = "rewrite", RewriteSucceeds(t, StackOf(t)),
         bounds' = [bounds EXCEPT ![t] = StackOf(t)],
         UNCHANGED <<main, tls, size, handles, base, arch, registered,
                     leaving, callback, posts, args, asked, owed, reentered>>
  PROVE  IInv'
  <1>1. TypeOK /\ ThreadInv(t)
    BY DEF IInv, ThreadInv
  <1> DEFINE new == new_stack(t, StackOf(t))
             data == mem[t][base[t]]
  <1>2. new \in Bases(t) \ {base[t]} /\ base[t] \in Bases(t)
    BY <1>1, OtherHalf DEF TypeOK
  <1>3. data \in ShimData /\ args[t] = base[t]
    BY <1>1 DEF ThreadInv, PointerInv
  <1>4. /\ target' = [target EXCEPT ![t] = new]
        /\ mem' = [mem EXCEPT ![t] = [h \in DOMAIN @ |->
                      CASE h = new -> Dead
                        [] h = base[t] -> SAVE_REGSET(@[h])
                        [] OTHER -> @[h]]]
        /\ pc' = [pc EXCEPT ![t] = "migrate"]
        /\ failed' = failed /\ depth' = depth
    BY DEF RewriteSucceeds
  <1> HIDE DEF new
  <1>5. /\ pc'[t] = "migrate" /\ target'[t] = new /\ bounds'[t] = StackOf(t)
        /\ mem'[t] = [h \in DOMAIN mem[t] |->
                      CASE h = new -> Dead
                        [] h = base[t] -> SAVE_REGSET(mem[t][h])
                        [] OTHER -> mem[t][h]]
    BY <1>1, <1>4 DEF TypeOK
  <1>6. DOMAIN mem[t] = Bases(t) /\ mem[t] \in [Bases(t) -> ShimData \cup {Dead}]
    BY <1>1 DEF TypeOK
  <1>7. SAVE_REGSET(data) = [callback |-> data.callback, regset |-> TRUE]
        /\ SAVE_REGSET(data) \in ShimData
    BY <1>3 DEF SAVE_REGSET, ShimData
  <1>8. mem'[t][base[t]] = [callback |-> data.callback, regset |-> TRUE]
    BY <1>2, <1>5, <1>6, <1>7
  <1>9. mem'[t] \in [Bases(t) -> ShimData \cup {Dead}]
    BY <1>2, <1>5, <1>6, <1>7
  <1>10. \A u \in Threads \ {t} : Untouched(u)
    BY <1>1, <1>4 DEF TypeOK, Untouched
  <1>11. TypeOK'
    <2>1. \A u \in Threads : mem'[u] \in [Bases(u) -> ShimData \cup {Dead}]
      BY <1>1, <1>9, <1>10 DEF TypeOK, Untouched
    <2>2. /\ DOMAIN mem' = Threads /\ DOMAIN target' = Threads
          /\ DOMAIN bounds' = Threads /\ pc' \in [Threads -> PC]
      BY <1>1, <1>4 DEF TypeOK, PC
    <2> QED
      BY <1>1, <1>4, <2>1, <2>2, NextTypeOK DEF TypeOK
  <1>12. StackInv(t)'
    <2>1. StackOf(t) # Unset
      BY <1>1, Halves DEF TypeOK
    <2> QED
      BY <1>1, <1>2, <1>4, <1>5, <2>1, StacksStay DEF ThreadInv, StackInv
  <1>13. PointerInv(t)'
    BY <1>3, <1>7, <1>8 DEF PointerInv
  <1>14. (Sound(t) => ShimInv(t))'
    <2> SUFFICES ASSUME Sound(t)' PROVE ShimInv(t)'
      OBVIOUS
    <2>1. /\ posts[t] = << >> /\ ~owed[t] /\ arch[t] = asked[t].from
          /\ data = [callback |-> asked[t].callback, regset |-> FALSE]
      BY <1>1, <1>4 DEF ThreadInv, Sound, ShimInv
    <2>2. mem'[t][base[t]] = [callback |-> asked[t].callback, regset |-> TRUE]
      BY <1>8, <2>1
    <2> QED
      BY <1>4, <1>5, <2>1, <2>2 DEF ShimInv
  <1> QED
    BY <1>10, <1>11, <1>12, <1>13, <1>14, OneThread DEF ThreadInv

(* REWRITE_STACK: the stack is rewritten to the other half, or that fails. *)
LEMMA RewriteIInv ==
  ASSUME IInv, NEW t \in Threads, REWRITE_STACK(t)
  PROVE  IInv'
  <1>1. /\ pc[t] = "rewrite"
        /\ UNCHANGED <<main, tls, size, handles, base, arch, registered,
                       leaving, callback, posts, args, asked, owed, reentered>>
    BY DEF REWRITE_STACK
  <1>2. TypeOK /\ StackInv(t) /\ DOMAIN bounds = Threads
    BY DEF IInv, TypeOK
  <1>3. CASE handles # Arch
    <2>1. RewriteFails(t) /\ bounds' = bounds
      BY <1>3 DEF REWRITE_STACK
    <2> QED
      BY <1>1, <1>2, <2>1, RewriteFailsIInv
  <1>4. CASE handles = Arch
    <2>1. PICK b \in Resolve(t) :
            /\ bounds' = [bounds EXCEPT ![t] = b]
            /\ RewriteFails(t) \/ (SpValid(t, b) /\ RewriteSucceeds(t, b))
      BY <1>4 DEF REWRITE_STACK
    <2>2. /\ b \in {NoBounds, StackOf(t)}
          /\ t = main => b = StackOf(t)
          /\ SpValid(t, b) => b = StackOf(t)
      BY <1>2, <1>4, ResolvedBounds
    <2>3. CASE RewriteFails(t)
      <3>1. /\ DOMAIN bounds' = Threads /\ bounds'[t] = b
            /\ \A u \in Threads \ {t} : bounds'[u] = bounds[u]
        BY <1>2, <2>1
      <3>2. t = main => b = bounds[t]
        BY <1>2, <1>4, <2>2 DEF StackInv
      <3> QED
        BY <1>1, <2>2, <2>3, <3>1, <3>2, RewriteFailsIInv
    <2>4. CASE SpValid(t, b) /\ RewriteSucceeds(t, b)
      BY <1>1, <2>1, <2>2, <2>4, RewriteSucceedsIInv
    <2> QED
      BY <2>1, <2>3, <2>4
  <1> QED
    BY <1>3, <1>4

(* MIGRATE: the thread goes on on the other architecture, or stays.        *)
LEMMA MigrateIInv ==
  ASSUME IInv, NEW t \in Threads, MIGRATE(t)
  PROVE  IInv'
  <1>1. TypeOK /\ ThreadInv(t)
    BY DEF IInv, ThreadInv
  <1>2. /\ pc[t] = "migrate"
        /\ target' = [target EXCEPT ![t] = NULL]
        /\ UNCHANGED <<main, tls, size, handles, bounds, depth, registered, leaving,
                       callback, mem, posts, args, asked, failed, reentered>>
    BY DEF MIGRATE
  <1>3. /\ args[t] = base[t] /\ mem[t][base[t]] \in ShimData
        /\ target[t] \in Bases(t) \ {base[t]} /\ base[t] \in Bases(t)
        /\ Bases(t) \subseteq Int /\ NULL \notin Bases(t)
    BY <1>1, <1>2, BasesAreInts DEF ThreadInv, PointerInv, StackInv, TypeOK
  <1>4. CASE pc' = [pc EXCEPT ![t] = "aborted"] /\ UNCHANGED <<arch, base, owed>>
    <2>1. pc'[t] = "aborted"
      BY <1>1, <1>4 DEF TypeOK
    <2>2. \A u \in Threads \ {t} : Untouched(u)
      BY <1>1, <1>2, <1>4 DEF TypeOK, Untouched
    <2>3. TypeOK'
      <3>1. pc' \in [Threads -> PC] /\ DOMAIN target' = Threads
        BY <1>1, <1>2, <1>4 DEF TypeOK, PC
      <3> QED
        BY <1>1, <1>2, <1>4, <3>1, NextTypeOK DEF TypeOK
    <2>4. StackInv(t)'
      BY <1>1, <1>2, <1>4, <2>1, StacksStay DEF ThreadInv, StackInv, NoBounds
    <2>5. PointerInv(t)' /\ (Sound(t) => ShimInv(t))'
      BY <2>1 DEF PointerInv, ShimInv
    <2> QED
      BY <1>2, <2>2, <2>3, <2>4, <2>5, OneThread DEF ThreadInv
  <1>5. CASE /\ pc' = [pc EXCEPT ![t] = "shim"]
             /\ arch' = [arch EXCEPT ![t] = other(@)]
             /\ base' = [base EXCEPT ![t] = target[t]]
             /\ owed' = [owed EXCEPT ![t] = mem[t][args[t]].callback # NULL]
    <2>1. /\ pc'[t] = "shim" /\ base'[t] = target[t] /\ arch'[t] = other(arch[t])
          /\ owed'[t] = (mem[t][base[t]].callback # NULL)
          /\ arch[t] \in Arch
      BY <1>1, <1>3, <1>5 DEF TypeOK
    <2>2. \A u \in Threads \ {t} : Untouched(u)
      BY <1>1, <1>2, <1>5 DEF TypeOK, Untouched
    <2>3. TypeOK'
      <3>1. pc' \in [Threads -> PC] /\ DOMAIN target' = Threads
        BY <1>1, <1>2, <1>5 DEF TypeOK, PC
      <3>2. arch' \in [Threads -> Arch]
        BY <1>1, <1>5, <2>1, OtherArch DEF TypeOK
      <3>3. base' \in [Threads -> Int] /\ \A u \in Threads : base'[u] \in Bases(u)
        BY <1>1, <1>3, <1>5 DEF TypeOK
      <3>4. owed' \in [Threads -> BOOLEAN]
        BY <1>1, <1>5 DEF TypeOK
      <3> QED
        BY <1>1, <1>2, <3>1, <3>2, <3>3, <3>4, NextTypeOK DEF TypeOK
    <2>4. StackInv(t)'
      BY <1>1, <1>2, <2>1, StacksStay DEF ThreadInv, StackInv, NoBounds
    <2>5. PointerInv(t)'
      BY <2>1 DEF PointerInv
    <2>6. (Sound(t) => ShimInv(t))'
      <3> SUFFICES ASSUME Sound(t)' PROVE ShimInv(t)'
        OBVIOUS
      <3>1. /\ posts[t] = << >> /\ arch[t] = asked[t].from
            /\ mem[t][base[t]] = [callback |-> asked[t].callback, regset |-> TRUE]
        BY <1>1, <1>2 DEF ThreadInv, Sound, ShimInv
      <3>2. arch'[t] # asked[t].from
        BY <2>1, <3>1, OtherArch
      <3>3. Saved(t, args[t])'
        BY <1>2, <1>3, <3>1, <3>2 DEF Saved
      <3>4. owed'[t] <=> asked[t].callback # NULL
        <4>1. mem[t][base[t]].callback = asked[t].callback
          BY <3>1
        <4> QED
          BY <2>1, <4>1, Zenon
      <3>5. args'[t] # NULL /\ args'[t] = args[t]
        BY <1>2, <1>3
      <3> QED
        BY <1>2, <2>1, <3>1, <3>3, <3>4, <3>5 DEF ShimInv
    <2> QED
      BY <1>2, <2>2, <2>3, <2>4, <2>5, <2>6, OneThread DEF ThreadInv
  <1> QED
    BY <1>4, <1>5 DEF MIGRATE

(* The second run of the shim: the pointer leads to data that is there.    *)
LEMMA PostMigrationIInv ==
  ASSUME IInv, NEW t \in Threads, PostMigration(t)
  PROVE  IInv'
  <1>1. TypeOK /\ ThreadInv(t)
    BY DEF IInv, ThreadInv
  <1>2. /\ pc[t] = "shim" /\ args[t] # NULL
        /\ UNCHANGED <<main, tls, size, handles, bounds, base, depth, arch, registered,
                       leaving, callback, mem, target, args, asked, failed, reentered>>
    BY DEF PostMigration, userVars
  <1>3. CASE mem[t][args[t]] = Dead
    <2>1. pc' = [pc EXCEPT ![t] = "wild"] /\ posts' = posts /\ owed' = owed
      BY <1>3 DEF PostMigration
    <2>2. pc'[t] = "wild" /\ pc' \in [Threads -> PC]
      BY <1>1, <2>1 DEF TypeOK, PC
    <2>3. \A u \in Threads \ {t} : Untouched(u)
      BY <1>1, <1>2, <2>1 DEF TypeOK, Untouched
    <2>4. TypeOK'
      BY <1>1, <1>2, <2>1, <2>2, NextTypeOK DEF TypeOK
    <2>5. StackInv(t)'
      BY <1>1, <1>2, <2>2, StacksStay DEF ThreadInv, StackInv, NoBounds
    <2>6. PointerInv(t)'
      BY <2>2 DEF PointerInv
    <2>7. ~Sound(t)
      <3>1. Sound(t) => mem[t][args[t]] \in ShimData
        BY <1>1, <1>2 DEF ThreadInv, ShimInv, Saved
      <3> QED
        BY <1>3, <3>1, DeadIsNoRecord
    <2>8. ~Sound(t)'
      BY <1>2, <2>7 DEF Sound
    <2> QED
      BY <1>2, <2>3, <2>4, <2>5, <2>6, <2>8, OneThread DEF ThreadInv
  <1>4. CASE mem[t][args[t]] # Dead
    <2>1. /\ posts' = [posts EXCEPT ![t] = Append(@, args[t])]
          /\ IF mem[t][args[t]].callback # NULL
             THEN /\ pc' = [pc EXCEPT ![t] = "callback"]
                  /\ owed' = [owed EXCEPT ![t] = FALSE]
             ELSE pc' = [pc EXCEPT ![t] = "finish"] /\ owed' = owed
      BY <1>4 DEF PostMigration
    <2>2. /\ pc' \in [Threads -> PC] /\ pc'[t] \in {"callback", "finish"}
          /\ owed' \in [Threads -> BOOLEAN]
          /\ DOMAIN posts' = Threads /\ posts'[t] = Append(posts[t], args[t])
      BY <1>1, <2>1 DEF TypeOK, PC
    <2>3. \A u \in Threads \ {t} : Untouched(u)
      BY <1>1, <1>2, <2>1 DEF TypeOK, Untouched
    <2>4. TypeOK'
      BY <1>1, <1>2, <2>2, NextTypeOK DEF TypeOK
    <2>5. StackInv(t)'
      BY <1>1, <1>2, <2>2, StacksStay DEF ThreadInv, StackInv, NoBounds
    <2>6. PointerInv(t)'
      BY <2>2 DEF PointerInv
    <2>7. (Sound(t) => ShimInv(t))'
      <3> SUFFICES ASSUME Sound(t)' PROVE ShimInv(t)'
        OBVIOUS
      <3>1. ShimInv(t)
        BY <1>1, <1>2 DEF ThreadInv, Sound
      <3>2. posts[t] = << >> /\ Saved(t, args[t]) /\ mem[t][args[t]].callback = asked[t].callback
        BY <1>2, <3>1 DEF ShimInv, Saved
      <3>3. posts'[t] = <<args[t]>>
        BY <2>2, <3>2
      <3>4. Saved(t, args[t])'
        BY <1>2, <3>2 DEF Saved
      <3>5. ~owed'[t]
        <4>1. CASE asked[t].callback # NULL
          BY <1>1, <2>1, <3>2, <4>1 DEF TypeOK
        <4>2. CASE asked[t].callback = NULL
          BY <1>2, <2>1, <3>1, <3>2, <4>2 DEF ShimInv
        <4> QED
          BY <4>1, <4>2
      <3> QED
        BY <1>2, <2>2, <3>3, <3>4, <3>5 DEF ShimInv
    <2> QED
      BY <1>2, <2>3, <2>4, <2>5, <2>6, <2>7, OneThread DEF ThreadInv
  <1> QED
    BY <1>3, <1>4

(* The callback returns, or reaches a migration point itself.              *)
LEMMA CallbackIInv ==
  ASSUME IInv, NEW t \in Threads, CallbackReturns(t) \/ CallbackPoint(t)
  PROVE  IInv'
  <1>1. TypeOK /\ ThreadInv(t)
    BY DEF IInv, ThreadInv
  <1>2. /\ pc[t] = "callback"
        /\ UNCHANGED <<main, tls, size, handles, bounds, base, depth, arch, registered,
                       leaving, mem, target, posts, args, asked, owed, failed>>
        /\ callback' \in [Threads -> Callbacks \cup {NULL}]
        /\ reentered' \in [Threads -> BOOLEAN]
        /\ pc' \in [Threads -> PC] /\ pc'[t] \in {"finish", "shim", "wild"}
        /\ pc'[t] # "finish" => reentered'[t]
        /\ pc'[t] = "finish" => reentered'[t] = reentered[t]
        /\ \A u \in Threads \ {t} : pc'[u] = pc[u] /\ reentered'[u] = reentered[u]
    <2>1. CASE CallbackReturns(t)
      BY <1>1, <2>1 DEF CallbackReturns, userVars, shimVars, TypeOK, PC
    <2>2. CASE CallbackPoint(t)
      BY <1>1, <2>2 DEF CallbackPoint, userVars, TypeOK, PC
    <2> QED
      BY <2>1, <2>2
  <1>3. \A u \in Threads \ {t} : Untouched(u)
    BY <1>2 DEF Untouched
  <1>4. TypeOK'
    BY <1>1, <1>2, NextTypeOK DEF TypeOK
  <1>5. StackInv(t)'
    BY <1>1, <1>2, StacksStay DEF ThreadInv, StackInv, NoBounds
  <1>6. PointerInv(t)'
    BY <1>2 DEF PointerInv
  <1>7. (Sound(t) => ShimInv(t))'
    BY <1>1, <1>2 DEF ThreadInv, Sound, ShimInv, Saved
  <1> QED
    BY <1>2, <1>3, <1>4, <1>5, <1>6, <1>7, OneThread DEF ThreadInv

(* The end of the second run: the registers are there, and the pointer is  *)
(* cleared.                                                                *)
LEMMA FinishIInv ==
  ASSUME IInv, NEW t \in Threads, Finish(t)
  PROVE  IInv'
  <1>1. TypeOK /\ ThreadInv(t)
    BY DEF IInv, ThreadInv
  <1> DEFINE data == mem[t][Last(posts[t])]
  <1>2. /\ pc[t] = "finish" /\ args' = [args EXCEPT ![t] = NULL]
        /\ UNCHANGED <<main, tls, size, handles, bounds, base, arch, registered, leaving,
                       callback, mem, target, asked, owed, failed, reentered>>
    BY DEF Finish, ClearArgs
  <1>3. CASE data = Dead \/ (data # Dead /\ ~data.regset)
    <2>1. pc' = [pc EXCEPT ![t] = "wild"] /\ posts' = posts /\ depth' = depth
      BY <1>3 DEF Finish
    <2>2. /\ pc'[t] = "wild" /\ pc' \in [Threads -> PC]
          /\ DOMAIN args' = Threads /\ \A u \in Threads : args'[u] \in Bases(u) \cup {NULL}
      BY <1>1, <1>2, <2>1 DEF TypeOK, PC
    <2>3. \A u \in Threads \ {t} : Untouched(u)
      BY <1>1, <1>2, <2>1 DEF TypeOK, Untouched
    <2>4. TypeOK'
      BY <1>1, <1>2, <2>1, <2>2, NextTypeOK DEF TypeOK
    <2>5. StackInv(t)'
      BY <1>1, <1>2, <2>1, <2>2, StacksStay DEF ThreadInv, StackInv, NoBounds
    <2>6. PointerInv(t)'
      BY <2>2 DEF PointerInv
    <2>7. ~Sound(t)
      <3> SUFFICES ASSUME Sound(t) PROVE FALSE
        OBVIOUS
      <3>1. posts[t] = <<args[t]>> /\ args[t] # NULL /\ Saved(t, args[t])
        BY <1>1, <1>2 DEF ThreadInv, ShimInv
      <3>2. data \in ShimData
            /\ data = [callback |-> asked[t].callback, regset |-> TRUE]
        BY <3>1 DEF Saved, Last
      <3>3. data.regset
        BY <3>2
      <3> QED
        BY <1>3, <3>2, <3>3, DeadIsNoRecord
    <2>8. ~Sound(t)'
      BY <1>2, <2>7 DEF Sound
    <2> QED
      BY <1>2, <2>3, <2>4, <2>5, <2>6, <2>8, OneThread DEF ThreadInv
  <1>4. CASE ~(data = Dead \/ (data # Dead /\ ~data.regset))
    <2>1. posts' = [posts EXCEPT ![t] = Front(@)] /\ Return(t, Front(posts[t]))
      BY <1>4 DEF Finish
    <2>2. /\ pc' \in [Threads -> PC] /\ depth' \in [Threads -> 1 .. MaxDepth]
          /\ pc'[t] = (IF Front(posts[t]) = << >> THEN "run" ELSE "callback")
          /\ Front(posts[t]) # << >> => depth' = depth
          /\ \A u \in Threads \ {t} : pc'[u] = pc[u] /\ depth'[u] = depth[u]
      BY <1>1, <1>2, <2>1, ReturnTypes DEF ThreadInv
    <2>3. /\ DOMAIN args' = Threads /\ \A u \in Threads : args'[u] \in Bases(u) \cup {NULL}
          /\ args'[t] = NULL
          /\ DOMAIN posts' = Threads /\ posts'[t] = Front(posts[t])
      BY <1>1, <1>2, <2>1 DEF TypeOK
    <2>4. \A u \in Threads \ {t} : Untouched(u)
      BY <1>1, <1>2, <2>1, <2>2 DEF TypeOK, Untouched
    <2>5. TypeOK'
      BY <1>1, <1>2, <2>2, <2>3, NextTypeOK DEF TypeOK
    <2>6. StackInv(t)'
      BY <1>1, <1>2, <2>2, StacksStay DEF ThreadInv, StackInv, NoBounds
    <2>7. PointerInv(t)'
      BY <2>2 DEF PointerInv
    <2>8. (Sound(t) => ShimInv(t))'
      <3> SUFFICES ASSUME Sound(t)' PROVE ShimInv(t)'
        OBVIOUS
      <3>1. posts[t] = <<args[t]>> /\ ~owed[t]
        BY <1>1, <1>2 DEF ThreadInv, Sound, ShimInv
      <3>2. Front(posts[t]) = << >>
        BY <3>1 DEF Front
      <3>3. pc'[t] = "run" /\ posts'[t] = << >>
        BY <2>2, <2>3, <3>2
      <3> QED
        BY <1>2, <2>3, <3>1, <3>3 DEF ShimInv
    <2> QED
      BY <1>2, <2>4, <2>5, <2>6, <2>7, <2>8, OneThread DEF ThreadInv
  <1> QED
    BY <1>3, <1>4

(* Every step keeps the invariant.                                         *)
LEMMA NextIInv == IInv /\ [Next]_vars => IInv'
  <1> SUFFICES ASSUME IInv, [Next]_vars PROVE IInv'
    OBVIOUS
  <1>1. ASSUME NEW t \in Threads, ThreadStep(t) PROVE IInv'
    BY <1>1, PointIInv, InvokeIInv, RewriteIInv, MigrateIInv, PostMigrationIInv,
       CallbackIInv, FinishIInv DEF ThreadStep
  <1> QED
    BY <1>1, WorldIInv DEF Next

-----------------------------------------------------------------------------
(* For any number of threads, stack sizes, callbacks and migrations: where *)
(* a thread is in the shim, the pointer it left, what that leads to and    *)
(* the half of the stack it runs on agree.                                 *)
THEOREM MigrationInvariant == Spec => []IInv
  BY InitIInv, NextIInv, PTL DEF Spec

(* The shim follows only pointers to data that is there and restores only  *)
(* registers that were saved, unless a rewrite failed or a callback        *)
(* migrated.                                                               *)
THEOREM ShimDataIsValid == Spec => []ShimDataValid
  BY MigrationInvariant, IInvImpliesShim, PTL

(* The callback given to migrate runs on the destination before the        *)
(* program does.                                                           *)
THEOREM CallbackRunsFirst == Spec => []CallbackBeforeResuming
  BY MigrationInvariant, IInvImpliesShim, PTL

(* userspace_rewrite_internal fills memory of the thread's own stack that  *)
(* nothing is in.                                                          *)
THEOREM RewriteIsInFreeMemory == Spec => []RewritesFreeMemory
  BY MigrationInvariant, IInvImpliesFree, PTL

(* get_stack_bounds finds where the thread's frames begin after any number *)
(* of migrations.                                                          *)
THEOREM BoundsAreOfFrames == Spec => []BoundsMatchFrames
  BY MigrationInvariant, IInvImpliesBounds, PTL
=============================================================================
