------------------------------ MODULE Migration ------------------------------
(***************************************************************************)
(* The migration library (lib/migration): threads that reach migration     *)
(* points, the shim around the rewrite of the stack, and the scheduler     *)
(* that asks for migrations through a page it shares with the process.     *)
(*                                                                         *)
(* __migrate_shim_internal runs twice per migration: before it, when it    *)
(* leaves a pointer to data in its own frame with the thread, and, entered *)
(* anew on the other architecture and the other half of the stack, after   *)
(* it, when it finds that pointer.  The pointer is how the two are told    *)
(* apart.                                                                  *)
(***************************************************************************)
EXTENDS Userspace, Sequences, SequencesExt

CONSTANTS
  Callbacks,    \* the callbacks of the program
  NULL,
  Dead,         \* a shim's data after its frame is gone
  MaxDepth,     \* bound on the frames of a thread
  MaxNest       \* bound on callbacks within callbacks

(* What the shim keeps in its frame: the callback to run, and whether the  *)
(* registers of the destination have been saved for it.                    *)
ShimData == [callback : Callbacks \cup {NULL}, regset : BOOLEAN]

ASSUME MigrationAssumption ==
  /\ MaxDepth \in Nat \ {0} /\ MaxDepth <= B_STACK_OFFSET - Argv
  /\ \A A \in Arch : \E B \in Arch \ {A} : Arch = {A, B}
  /\ NULL \notin Int /\ Dead \notin ShimData

VARIABLES
  select,       \* "vdso", or "env" for builds with _ENV_SELECT_MIGRATE
  vdso,         \* the architecture the scheduler wants, NULL without the page
  migrated,     \* thread -> architectures it left because of the environment
  registered,   \* migrate_callback
  arch,         \* thread -> architecture
  pc,
  leaving,      \* thread -> is the migration point at the end of a function?
  callback,     \* thread -> argument of the shim
  args,         \* thread -> *pthread_migrate_args(): where the data is
  mem,          \* thread -> base of a half -> the shim's data in that half
  target,       \* thread -> the half just rewritten
  posts,        \* thread -> data_ptr of each shim that is after its migration
  asked,        \* history: the last migration asked for
  owed,         \* history: has its callback yet to run?
  failed,       \* history: has a rewrite failed?
  reentered     \* history: did a callback reach the shim?

shimVars == <<migrated, registered, leaving, callback, mem, target, posts, args,
              asked, owed, failed, reentered>>
vars == <<userVars, shimVars, select, vdso, arch, pc>>

other(A) == CHOOSE B \in Arch : B # A

(* The bounds of t's stack, and where frames begin in its two halves.      *)
StackOf(t) == IF t = main THEN prep_stack ELSE get_thread_stack(t)
Bases(t) == {StackOf(t).high, stack_b(StackOf(t))}

Init ==
  /\ __st_userspace_ctor
  /\ select \in {"vdso", "env"}
  /\ vdso \in IF select = "vdso" THEN Arch \cup {NULL} ELSE {NULL}
  /\ migrated = [t \in Threads |-> {}]
  /\ registered = NULL
  /\ arch \in {[t \in Threads |-> A] : A \in Arch}
  /\ pc = [t \in Threads |-> "run"]
  /\ leaving = [t \in Threads |-> FALSE]
  /\ callback = [t \in Threads |-> NULL]
  /\ args = [t \in Threads |-> NULL]
  /\ mem = [t \in Threads |-> [b \in Bases(t) |-> Dead]]
  /\ target = [t \in Threads |-> NULL]
  /\ posts = [t \in Threads |-> << >>]
  /\ asked = [t \in Threads |-> [callback |-> NULL, from |-> NULL]]
  /\ owed = [t \in Threads |-> FALSE]
  /\ failed = [t \in Threads |-> FALSE]
  /\ reentered = [t \in Threads |-> FALSE]

-----------------------------------------------------------------------------
(* The world around the thread.                                            *)

(* The scheduler asks for the other architecture.                          *)
Schedule ==
  /\ vdso # NULL
  /\ vdso' = other(vdso)
  /\ UNCHANGED <<userVars, shimVars, select, arch, pc>>

register_migrate_callback(cb) ==
  /\ registered # cb
  /\ registered' = cb
  /\ UNCHANGED <<userVars, select, vdso, arch, pc, migrated, leaving, callback, mem,
                 target, posts, args, asked, owed, failed, reentered>>

-----------------------------------------------------------------------------
(* Migration points.                                                       *)

(* Mutant: the page is read as on the other architecture.                  *)
DoMigrateInverted(t) ==
  IF select = "vdso" THEN {vdso # NULL /\ vdso = arch[t]}
  ELSE IF arch[t] \in migrated[t] THEN {FALSE} ELSE BOOLEAN

(* do_migrate(addr): what it may answer.  By environment a thread migrates *)
(* once from each architecture, at an address in the given range.          *)
do_migrate(t) ==
  IF select = "vdso" THEN {vdso # NULL /\ vdso # arch[t]}
  ELSE IF arch[t] \in migrated[t] THEN {FALSE} ELSE BOOLEAN

Noted(t, yes) ==
  IF select = "env" /\ yes THEN [migrated EXCEPT ![t] = @ \cup {arch[t]}] ELSE migrated

(* A call of check_migrate, or of the hooks at the beginning and the end   *)
(* of a function: the shim is entered, or the function goes on or returns. *)
Point(t, cb, leave) ==
  \E yes \in do_migrate(t) :
    /\ migrated' = Noted(t, yes)
    /\ pc' = [pc EXCEPT ![t] = IF yes THEN "shim" ELSE @]
    /\ callback' = [callback EXCEPT ![t] = IF yes THEN cb ELSE @]
    /\ leaving' = [leaving EXCEPT ![t] = yes /\ leave]

check_migrate(t, cb) ==
  /\ pc[t] = "run"
  /\ Point(t, cb, FALSE)
  /\ UNCHANGED <<userVars, select, vdso, arch, registered, mem, target, posts, args,
                 asked, owed, failed, reentered>>

migrate(t, cb) ==
  /\ pc[t] = "run"
  /\ pc' = [pc EXCEPT ![t] = "shim"]
  /\ callback' = [callback EXCEPT ![t] = cb]
  /\ leaving' = [leaving EXCEPT ![t] = FALSE]
  /\ UNCHANGED <<userVars, select, vdso, arch, migrated, registered, mem, target,
                 posts, args, asked, owed, failed, reentered>>

__cyg_profile_func_enter(t) ==
  /\ pc[t] = "run"
  /\ depth[t] < MaxDepth
  /\ depth' = [depth EXCEPT ![t] = @ + 1]
  /\ Point(t, registered, FALSE)
  /\ UNCHANGED <<main, tls, size, handles, bounds, base, select, vdso, arch, registered, mem,
                 target, posts, args, asked, owed, failed, reentered>>

__cyg_profile_func_exit(t) ==
  /\ pc[t] = "run"
  /\ depth[t] > 1
  /\ Point(t, registered, TRUE)
  /\ depth' = [depth EXCEPT ![t] = IF pc'[t] = "run" THEN @ - 1 ELSE @]
  /\ UNCHANGED <<main, tls, size, handles, bounds, base, select, vdso, arch, registered, mem,
                 target, posts, args, asked, owed, failed, reentered>>

(* The shim returns to the program, or to the callback it was called from. *)
Return(t, left) ==
  IF left = << >>
  THEN /\ pc' = [pc EXCEPT ![t] = "run"]
       /\ depth' = [depth EXCEPT ![t] = IF leaving[t] THEN @ - 1 ELSE @]
  ELSE /\ pc' = [pc EXCEPT ![t] = "callback"]
       /\ UNCHANGED depth

-----------------------------------------------------------------------------
(* The shim.                                                               *)

(* The shim finds no pointer and asks for a migration.                     *)
Invoke(t) ==
  /\ pc[t] = "shim"
  /\ args[t] = NULL
  /\ args' = [args EXCEPT ![t] = base[t]]
  /\ mem' = [mem EXCEPT ![t][base[t]] = [callback |-> callback[t], regset |-> FALSE]]
  /\ asked' = [asked EXCEPT ![t] = [callback |-> callback[t], from |-> arch[t]]]
  /\ pc' = [pc EXCEPT ![t] = "rewrite"]
  /\ UNCHANGED <<userVars, select, vdso, arch, migrated, registered, leaving, callback,
                 target, posts, owed, failed, reentered>>

RewriteFails(t) ==
  /\ failed' = [failed EXCEPT ![t] = TRUE]
  /\ mem' = [mem EXCEPT ![t][base[t]] = Dead]
  /\ Return(t, posts[t])
  /\ UNCHANGED target

(* Mutant: the destination's registers are not left for SET_FP_REGS.       *)
SAVE_REGSET_Missing(data) == data

SAVE_REGSET(data) == [callback |-> data.callback, regset |-> TRUE]

RewriteSucceeds(t, b) ==
  /\ target' = [target EXCEPT ![t] = new_stack(t, b)]
  /\ mem' = [mem EXCEPT ![t] = [h \in DOMAIN @ |-> CASE h = new_stack(t, b) -> Dead
                                                    [] h = base[t] -> SAVE_REGSET(@[h])
                                                    [] OTHER -> @[h]]]
  /\ pc' = [pc EXCEPT ![t] = "migrate"]
  /\ UNCHANGED <<failed, depth>>

(* REWRITE_STACK: st_userspace_rewrite and userspace_rewrite_internal.  The *)
(* transformation itself may fail.                                          *)
REWRITE_STACK(t) ==
  /\ pc[t] = "rewrite"
  /\ IF handles # Arch
     THEN RewriteFails(t) /\ UNCHANGED bounds
     ELSE \E b \in Resolve(t) :
            /\ bounds' = [bounds EXCEPT ![t] = b]
            /\ \/ RewriteFails(t)
               \/ SpValid(t, b) /\ RewriteSucceeds(t, b)
  /\ UNCHANGED <<main, tls, size, handles, base, select, vdso, arch, migrated, registered,
                 leaving, callback, posts, args, asked, owed, reentered>>

(* The kernel moves the thread, or refuses and the assertion ends it.      *)
MIGRATE(t) ==
  /\ pc[t] = "migrate"
  /\ \/ /\ pc' = [pc EXCEPT ![t] = "shim"]
        /\ arch' = [arch EXCEPT ![t] = other(@)]
        /\ base' = [base EXCEPT ![t] = target[t]]
        /\ owed' = [owed EXCEPT ![t] = mem[t][args[t]].callback # NULL]
     \/ pc' = [pc EXCEPT ![t] = "aborted"] /\ UNCHANGED <<arch, base, owed>>
  /\ target' = [target EXCEPT ![t] = NULL]
  /\ UNCHANGED <<main, tls, size, handles, bounds, depth, select, vdso, migrated, registered,
                 leaving, callback, mem, posts, args, asked, failed, reentered>>

(* The shim finds a pointer and takes itself to be after a migration.  If  *)
(* what it points to is gone, anything can happen.                         *)
PostMigration(t) ==
  /\ pc[t] = "shim"
  /\ args[t] # NULL
  /\ IF mem[t][args[t]] = Dead
     THEN pc' = [pc EXCEPT ![t] = "wild"] /\ UNCHANGED <<posts, owed>>
     ELSE /\ posts' = [posts EXCEPT ![t] = Append(@, args[t])]
          /\ IF mem[t][args[t]].callback # NULL
             THEN /\ pc' = [pc EXCEPT ![t] = "callback"]
                  /\ owed' = [owed EXCEPT ![t] = FALSE]
             ELSE pc' = [pc EXCEPT ![t] = "finish"] /\ UNCHANGED owed
  /\ UNCHANGED <<userVars, select, vdso, arch, migrated, registered, leaving, callback,
                 mem, target, args, asked, failed, reentered>>

CallbackReturns(t) ==
  /\ pc[t] = "callback"
  /\ pc' = [pc EXCEPT ![t] = "finish"]
  /\ UNCHANGED <<userVars, shimVars, select, vdso, arch>>

(* A callback is a function of the program: it has hooks of its own.       *)
CallbackPoint(t) ==
  /\ pc[t] = "callback"
  /\ TRUE \in do_migrate(t)
  /\ migrated' = Noted(t, TRUE)
  /\ reentered' = [reentered EXCEPT ![t] = TRUE]
  /\ callback' = [callback EXCEPT ![t] = registered]
  /\ pc' = [pc EXCEPT ![t] = IF Len(posts[t]) < MaxNest THEN "shim" ELSE "wild"]
  /\ UNCHANGED <<userVars, select, vdso, arch, registered, leaving, mem, target, posts,
                 args, asked, owed, failed>>

(* Mutant: the pointer stays.                                              *)
KeepArgs(t) == args

ClearArgs(t) == [args EXCEPT ![t] = NULL]

(* The pointer is cleared, and SET_FP_REGS reads the registers through     *)
(* data_ptr.                                                               *)
Finish(t) ==
  LET data == mem[t][Last(posts[t])]
  IN  /\ pc[t] = "finish"
      /\ args' = ClearArgs(t)
      /\ IF data = Dead \/ (data # Dead /\ ~data.regset)
         THEN pc' = [pc EXCEPT ![t] = "wild"] /\ UNCHANGED <<posts, depth>>
         ELSE /\ posts' = [posts EXCEPT ![t] = Front(@)]
              /\ Return(t, Front(posts[t]))
      /\ UNCHANGED <<main, tls, size, handles, bounds, base, select, vdso, arch, migrated,
                     registered, leaving, callback, mem, target, asked, owed, failed,
                     reentered>>

-----------------------------------------------------------------------------
ThreadStep(t) ==
  \/ \E cb \in Callbacks \cup {NULL} : check_migrate(t, cb) \/ migrate(t, cb)
  \/ __cyg_profile_func_enter(t)
  \/ __cyg_profile_func_exit(t)
  \/ Invoke(t)
  \/ REWRITE_STACK(t)
  \/ MIGRATE(t)
  \/ PostMigration(t)
  \/ CallbackReturns(t)
  \/ CallbackPoint(t)
  \/ Finish(t)

Next ==
  \/ \E t \in Threads : ThreadStep(t)
  \/ Schedule
  \/ \E cb \in Callbacks : register_migrate_callback(cb)

Spec == Init /\ [][Next]_vars

(* Threads are run by the operating system.                                *)
FairSpec == Spec /\ \A t \in Threads : WF_vars(ThreadStep(t))

-----------------------------------------------------------------------------
PC == {"run", "shim", "rewrite", "migrate", "callback", "finish", "aborted", "wild"}

TypeOK ==
  /\ pc \in [Threads -> PC]
  /\ arch \in [Threads -> Arch]
  /\ registered \in Callbacks \cup {NULL}
  /\ callback \in [Threads -> Callbacks \cup {NULL}]
  /\ leaving \in [Threads -> BOOLEAN]
  /\ size \in [Threads -> Sizes] /\ tls \in {"compiler", "pthread"}
  /\ depth \in [Threads -> 1 .. MaxDepth]
  /\ base \in [Threads -> Int] /\ \A t \in Threads : base[t] \in Bases(t)
  /\ DOMAIN args = Threads /\ \A t \in Threads : args[t] \in Bases(t) \cup {NULL}
  /\ DOMAIN mem = Threads /\ \A t \in Threads : mem[t] \in [Bases(t) -> ShimData \cup {Dead}]
  /\ DOMAIN bounds = Threads /\ DOMAIN target = Threads
  /\ DOMAIN posts = Threads /\ DOMAIN asked = Threads
  /\ owed \in [Threads -> BOOLEAN]
  /\ failed \in [Threads -> BOOLEAN] /\ reentered \in [Threads -> BOOLEAN]

Sound(t) == ~failed[t] /\ ~reentered[t]

(* The shim never follows a pointer to data that is gone, and never        *)
(* restores registers nobody saved, over any sequence of migrations; only  *)
(* a failed rewrite, which leaves the pointer behind, or a migration point *)
(* inside a callback lets it.                                              *)
ShimDataValid == \A t \in Threads : pc[t] = "wild" => ~Sound(t)

(* "The optional callback function will be invoked before execution        *)
(* resumes on destination architecture": it runs on the architecture that  *)
(* was not the one of the call, it is the one given at the call, whatever  *)
(* has been registered since, and the program does not run before it.      *)
CallbackBeforeResuming ==
  \A t \in Threads : Sound(t) =>
    /\ pc[t] = "callback" => /\ arch[t] # asked[t].from
                             /\ mem[t][Last(posts[t])].callback = asked[t].callback
                             /\ ~owed[t]
    /\ pc[t] = "run" => ~owed[t] /\ args[t] = NULL /\ posts[t] = << >>

(* A rewrite fills memory of the thread's own stack that neither the       *)
(* frames it reads nor argv are in, from whatever half it starts and       *)
(* however large the stack is.                                             *)
RewritesFreeMemory ==
  \A t \in Threads :
    pc[t] = "migrate" =>
      LET filled == (target[t] - depth[t]) .. (target[t] - 1)
          inUse  == sp(t) .. (base[t] - 1)
      IN  /\ filled \cap inUse = {}
          /\ filled \subseteq (Top - size[t]) ..
                               (IF t = main THEN Top - Argv - 1 ELSE Top - 1)

(* get_stack_bounds finds where the thread's frames begin, on either half  *)
(* and after any number of migrations, and on the upper half also where    *)
(* those of the other half would; the macros that time rewrites pass both. *)
BoundsMatchFrames ==
  \A t \in Threads :
    bounds[t] \notin {Unset, NoBounds} =>
      /\ get_stack_bounds(t).high = base[t]
      /\ base[t] # stack_b(bounds[t]) => get_stack_bounds(t).low = new_stack(t, bounds[t])

(* When the scheduler keeps asking for an architecture, each thread gets   *)
(* there, and again after the program moved it away, unless a rewrite      *)
(* failed, the kernel refused, or a callback reached the shim.             *)
RequestsHonoured ==
  \A t \in Threads, A \in Arch :
    <>[](select = "vdso" /\ vdso = A) =>
      []<>(arch[t] = A \/ pc[t] = "aborted" \/ ~Sound(t))
-----------------------------------------------------------------------------
(* The inductive invariant.                                                *)

(* The bounds kept for a thread are those of its stack once a rewrite can  *)
(* succeed; a rewrite fills the half the thread is not on.                 *)
StackInv(t) ==
  /\ bounds[t] \in {Unset, NoBounds, StackOf(t)}
  /\ bounds[t] = Unset => tls = "pthread"
  /\ t = main /\ handles = Arch => bounds[t] = StackOf(t)
  /\ pc[t] = "migrate" => target[t] \in Bases(t) \ {base[t]}
  /\ pc[t] # "run" /\ leaving[t] => depth[t] > 1

(* Between the two runs of the shim the pointer leads to its data, in the  *)
(* half that was left.                                                     *)
PointerInv(t) ==
  pc[t] \in {"rewrite", "migrate"} => args[t] = base[t] /\ mem[t][base[t]] \in ShimData

(* What the migration under way has left for the shim's second run.        *)
Saved(t, where) ==
  /\ mem[t][where] \in ShimData
  /\ mem[t][where] = [callback |-> asked[t].callback, regset |-> TRUE]
  /\ arch[t] # asked[t].from

(* A thread none of whose rewrites failed, and whose callbacks did not     *)
(* reach the shim.                                                         *)
ShimInv(t) ==
  /\ pc[t] # "wild"
  /\ pc[t] = "run" => args[t] = NULL
  /\ pc[t] \in {"run", "shim", "rewrite", "migrate"} => posts[t] = << >>
  /\ pc[t] \in {"callback", "finish"} => args[t] # NULL /\ posts[t] = <<args[t]>>
  /\ pc[t] \in {"shim", "callback", "finish"} /\ args[t] # NULL => Saved(t, args[t])
  /\ pc[t] = "rewrite" =>
       mem[t][base[t]] = [callback |-> asked[t].callback, regset |-> FALSE]
  /\ pc[t] = "migrate" =>
       mem[t][base[t]] = [callback |-> asked[t].callback, regset |-> TRUE]
  /\ pc[t] \in {"rewrite", "migrate"} => arch[t] = asked[t].from
  /\ pc[t] # "aborted" =>
       (owed[t] <=> pc[t] = "shim" /\ args[t] # NULL /\ asked[t].callback # NULL)

(* All of it together: where a thread is in the shim, the pointer it left, *)
(* what the pointer leads to, and the half of the stack it runs on agree.  *)
IInv ==
  /\ TypeOK
  /\ \A t \in Threads : StackInv(t) /\ PointerInv(t) /\ (Sound(t) => ShimInv(t))
=============================================================================
