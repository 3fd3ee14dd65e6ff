---------------------------- MODULE MCBompParallel ----------------------------
(***************************************************************************)
(* Programs for BompParallel: what the master does, and what each thread   *)
(* of a region does.                                                       *)
(***************************************************************************)
EXTENDS RegionInvariant

CONSTANT MaxTeam    \* bound on the teams of the programs below

(* Work items: one per region and per member of the team but the master.   *)
MCTasks == (1 .. MaxRegions) \X (1 .. MaxTeam - 1)

TwoCores == {2}
ThreeCores == {3}
AnyCores == {1, 2, 3}

(* The pool grows before the first region, and again between regions.      *)
GrowingPrograms ==
  { <<Set(3), Fork, Set(3), Fork>>,
    <<Set(3), Fork, Set(4), Fork>> }

(* Everything the library accepts, whether or not it can cope with it.     *)
WildPrograms ==
  { <<Fork>>, <<Set(3), Fork>>, <<Set(2), Fork, Fork>>, <<Set(1), Fork>>, <<Set(1), Set(3)>> }

(* The growing programs are of the kind whose regions RegionInvariant      *)
(* explains.                                                               *)
ASSUME GrowingIsCooperative == Programs = GrowingPrograms => Cooperative

OneRegion == { <<Fork>> }

EmptyBody == << >>
MasterBody == <<"master", "barrier">>
NestedBody == <<"nested">>
=============================================================================
