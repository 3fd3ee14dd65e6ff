------------------------------ MODULE Userspace ------------------------------
(***************************************************************************)
(* The entry of the stack transformation from user space (userspace.c):    *)
(* the handles of the binaries, the bounds of each thread's stack, which   *)
(* are looked up once and kept, and the choice of the half of the stack    *)
(* that a rewrite fills.                                                   *)
(*                                                                         *)
(* Addresses are in units of which a half has B_STACK_OFFSET; every stack  *)
(* is given its own addresses, with its upper end at Top.                  *)
(***************************************************************************)
EXTENDS Integers

CONSTANTS
  Threads,
  Arch,                 \* the architectures
  MAX_STACK_SIZE, B_STACK_OFFSET,
  Argv,                 \* argv and the environment, above the first thread's frames
  Top,
  Sizes,                \* sizes of stacks; the first thread's is its rlimit
  Unset                 \* a thread-local pointer nobody has set

ASSUME StackAssumption ==
  /\ B_STACK_OFFSET \in Nat /\ Argv \in Nat /\ Top \in Nat /\ Sizes \subseteq Nat
  /\ MAX_STACK_SIZE = 2 * B_STACK_OFFSET
  /\ 0 < Argv /\ Argv < B_STACK_OFFSET
  /\ \A s \in Sizes : MAX_STACK_SIZE <= s /\ s < Top
  /\ Unset \notin Threads /\ Unset \notin [low : Int, high : Int]

VARIABLES
  main,         \* the thread the program starts with, if it is one of Threads
  tls,          \* how thread-local data is kept: COMPILER_TLS or PTHREAD_TLS
  size,         \* thread -> size of its stack
  handles,      \* architectures whose binary could be opened
  bounds,       \* thread -> bounds kept in its thread-local data
  base,         \* thread -> where the frames it now runs on begin
  depth         \* thread -> size of its frames

userVars == <<main, tls, size, handles, bounds, base, depth>>

NoBounds == [low |-> 0, high |-> 0]

(* prep_stack: all of the first thread's stack up to the limit, but argv.  *)
prep_stack == [low |-> Top - size[main], high |-> Top - Argv]

(* get_thread_stack: a stack of another size is taken to have that size.   *)
get_thread_stack(t) ==
  [low |-> IF size[t] # MAX_STACK_SIZE THEN Top - MAX_STACK_SIZE ELSE Top - size[t],
   high |-> Top]

(* __st_userspace_ctor: if prep_stack fails no binary is opened; if one    *)
(* cannot be opened the program goes on without it.                        *)
__st_userspace_ctor ==
  /\ main \in Threads \cup {Unset}
  /\ tls \in {"compiler", "pthread"}
  /\ size \in [Threads -> Sizes]
  /\ bounds \in
       {[t \in Threads |-> IF t = main THEN b
                           ELSE IF tls = "compiler" THEN NoBounds ELSE Unset]
        : b \in {NoBounds} \cup (IF main = Unset THEN {} ELSE {prep_stack})}
  /\ handles \in SUBSET Arch
  /\ (main # Unset /\ bounds[main] = NoBounds) => handles = {}
  /\ base = [t \in Threads |-> IF t = main THEN Top - Argv ELSE Top]
  /\ depth = [t \in Threads |-> 1]

sp(t) == base[t] - depth[t]

(* The bounds a call works with: those kept, or those now looked up, which *)
(* may fail and leaves none.                                               *)
Known(t) == IF tls = "compiler" THEN bounds[t] # NoBounds ELSE bounds[t] # Unset
Resolve(t) == IF Known(t) THEN {bounds[t]} ELSE {get_thread_stack(t), NoBounds}

(* userspace_rewrite_internal refuses a stack pointer outside the bounds.  *)
SpValid(t, b) == b.low <= sp(t) /\ sp(t) < b.high

stack_b(b) == b.low + B_STACK_OFFSET

(* Mutant: a thread whose frames end where the upper half begins is taken  *)
(* to be on the lower one.                                                 *)
NewStackOffByOne(t, b) == IF sp(t) > stack_b(b) THEN stack_b(b) ELSE b.high

(* Mutant: the lower half is filled from its lower end.                    *)
NewStackAtLow(t, b) == IF sp(t) >= stack_b(b) THEN b.low ELSE b.high

new_stack(t, b) == IF sp(t) >= stack_b(b) THEN stack_b(b) ELSE b.high

(* Mutant: the upper end of the lower half is taken for its lower end.     *)
BoundsOfLowerEnd(t) ==
  LET b == bounds[t]
  IN  IF sp(t) >= stack_b(b) THEN [low |-> stack_b(b), high |-> b.high]
      ELSE [low |-> b.low, high |-> b.low]

(* What get_stack_bounds answers once the bounds are known (they are       *)
(* looked up as in Resolve): on the lower half both ends are set to its    *)
(* upper end.                                                              *)
get_stack_bounds(t) ==
  LET b == bounds[t]
  IN  IF sp(t) >= stack_b(b)
      THEN [low |-> stack_b(b), high |-> b.high]
      ELSE [low |-> stack_b(b), high |-> stack_b(b)]
=============================================================================
