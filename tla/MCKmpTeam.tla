------------------------------- MODULE MCKmpTeam -------------------------------
(***************************************************************************)
(* Loops for KmpTeam: both schedules, fewer trips than threads, as many    *)
(* and more, chunks that do and do not divide the trips, increments of     *)
(* either sign, and no chunk size.                                         *)
(***************************************************************************)
EXTENDS KmpTeam

Loop(s, l, u, i, c) == [sched |-> s, lower |-> l, upper |-> u, incr |-> i, chunk |-> c]

MCLoops ==
  {Loop(Static, 0, u, 1, 1) : u \in {0, 1, 2, 4, 6}}
    \cup {Loop(StaticChunked, 0, u, 1, c) : u \in {1, 4, 7}, c \in {0, 2}}
    \cup {Loop(s, 2, 9, 2, 2) : s \in {Static, StaticChunked}}
    \cup {Loop(s, 5, u, -2, 2) : s \in {Static, StaticChunked}, u \in {2, -4}}
=============================================================================
