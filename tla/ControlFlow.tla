----------------------------- MODULE ControlFlow -----------------------------
(***************************************************************************)
(* What the Popcorn passes take from LLVM about a function's control-flow  *)
(* graph: back edges, dominance and natural loops (FindFunctionBackedges,  *)
(* DominatorTree, LoopInfo).  A graph is a set of edges between blocks     *)
(* numbered from 1, the entry, in a topological order of its forward       *)
(* edges.  LLVM is not part of the repository; the graphs here are         *)
(* reducible, for which these notions do not depend on the order of the    *)
(* successors.                                                             *)
(***************************************************************************)
EXTENDS Naturals, FiniteSets

CONSTANT Graph      \* name -> set of edges <<from, to>>

Names == DOMAIN Graph
Entry == 1

(* The blocks reached from the blocks of S along the edges E: those of     *)
(* every set that holds S and that no edge leaves.                         *)
Reached(S, E) ==
  LET nodes == S \cup {e[2] : e \in E}
  IN  {x \in nodes : \A T \in SUBSET nodes :
         S \subseteq T /\ (\A e \in E : e[1] \in T => e[2] \in T) => x \in T}

Blocks == [g \in Names |-> UNION {{e[1], e[2]} : e \in Graph[g]}]

succ == [g \in Names |->
          [b \in Blocks[g] |-> {c \in Blocks[g] : <<b, c>> \in Graph[g]}]]

(* dominators[g][b]: the blocks on every path from the entry to b.         *)
dominators ==
  [g \in Names |->
    [b \in Blocks[g] |->
      {a \in Blocks[g] :
         a = b \/ b \notin Reached({Entry} \ {a},
                                   {e \in Graph[g] : a \notin {e[1], e[2]}})}]]

FindFunctionBackedges ==
  [g \in Names |-> {e \in Graph[g] : e[2] \in dominators[g][e[1]]}]

(* loops[g][h]: the blocks of the natural loop with header h.              *)
loops ==
  [g \in Names |->
    [h \in {e[2] : e \in FindFunctionBackedges[g]} |->
      LET latches == {e[1] : e \in {e \in FindFunctionBackedges[g] : e[2] = h}}
          into    == {<<e[2], e[1]>> : e \in {e \in Graph[g] : h \notin {e[1], e[2]}}}
      IN  {h} \cup Reached(latches \ {h}, into)]]

Headers(g) == DOMAIN loops[g]

getLoopDepth ==
  [g \in Names |->
    [b \in Blocks[g] |-> Cardinality({h \in Headers(g) : b \in loops[g][h]})]]

(* Every cycle has a back edge, and forward edges lead to larger numbers.  *)
ASSUME GraphAssumption ==
  \A g \in Names :
    /\ Graph[g] \subseteq Blocks[g] \X Blocks[g]
    /\ IsFiniteSet(Blocks[g]) /\ Blocks[g] = 1 .. Cardinality(Blocks[g])
    /\ Blocks[g] = Reached({Entry}, Graph[g])
    /\ \A e \in Graph[g] \ FindFunctionBackedges[g] : e[1] < e[2]
=============================================================================
