------------------------------- MODULE TaskQueue -------------------------------
(***************************************************************************)
(* What the thread pool's queue promises: a bounded first-in first-out     *)
(* queue that, once closed, takes nothing new but still hands out what it  *)
(* holds.  popcorn_threadpool.c's ring implements it (module Threadpool).  *)
(***************************************************************************)
EXTENDS Naturals, Sequences

CONSTANTS
  Tasks,
  Capacity

VARIABLES
  pending,   \* the tasks waiting, oldest first
  handed,    \* the tasks handed out
  closed     \* TRUE once the pool is shutting down

qvars == <<pending, handed, closed>>

QInit ==
  /\ pending = << >>
  /\ handed = {}
  /\ closed = FALSE

Put(t) ==
  /\ ~closed
  /\ Len(pending) < Capacity
  /\ pending' = Append(pending, t)
  /\ UNCHANGED <<handed, closed>>

Take ==
  /\ pending # << >>
  /\ Head(pending) \notin handed
  /\ handed' = handed \cup {Head(pending)}
  /\ pending' = Tail(pending)
  /\ UNCHANGED closed

Close ==
  /\ closed' = TRUE
  /\ UNCHANGED <<pending, handed>>

QNext == (\E t \in Tasks : Put(t)) \/ Take \/ Close

QSpec == QInit /\ [][QNext]_qvars
=============================================================================
