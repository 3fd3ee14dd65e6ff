--------------------------- MODULE LiveValuesProofs ---------------------------
(***************************************************************************)
(* The liveness passes call no dead value live and miss no live one, and a *)
(* stack map describes only values that are defined at its call: for every *)
(* function in static single assignment form, whatever its loops.          *)
(*                                                                         *)
(* No dead value: the first pass only follows edges, so what it finds is   *)
(* live.  The second hands a value that is live at a loop's header to      *)
(* blocks of the loop.  That is sound because the value's definition       *)
(* dominates the header, and the header dominates the loop: the definition *)
(* is not in the loop, and from each of its blocks the header can be       *)
(* reached without passing it.                                             *)
(*                                                                         *)
(* No live value missed: a path to a use that takes back edges comes to    *)
(* the header of a loop around its beginning, into which the first pass    *)
(* finds the value live.  Loops nest properly, so handing values down      *)
(* level by level brings it to every block of that loop.                   *)
(***************************************************************************)
EXTENDS LiveValues, TLAPS, FiniteSetTheorems, WellFoundedInduction, NaturalsInduction

-----------------------------------------------------------------------------
(* Reachability                                                            *)

(* The blocks one starts from are reached.                                 *)
LEMMA ReachedStart ==
  ASSUME NEW S, NEW E, NEW x \in S
  PROVE  x \in Reached(S, E)
  BY DEF Reached

(* An edge leads from a reached block to a reached block.                  *)
LEMMA ReachedStep ==
  ASSUME NEW S, NEW E, NEW e \in E, e[1] \in Reached(S, E)
  PROVE  e[2] \in Reached(S, E)
  <1> DEFINE nodes == S \cup {d[2] : d \in E}
             Closed(T) == S \subseteq T /\ \A d \in E : d[1] \in T => d[2] \in T
  <1>1. e[2] \in nodes
    OBVIOUS
  <1>2. ASSUME NEW T \in SUBSET nodes, Closed(T) PROVE e[2] \in T
    <2>1. e[1] \in T
      BY <1>2 DEF Reached
    <2> QED
      BY <1>2, <2>1
  <1> QED
    BY <1>1, <1>2 DEF Reached

(* What is reached is in every set that no edge leaves.                    *)
LEMMA ReachedLeast ==
  ASSUME NEW S, NEW E, NEW T, S \subseteq T,
         \A e \in E : e[1] \in T => e[2] \in T
  PROVE  Reached(S, E) \subseteq T
  <1> DEFINE nodes == S \cup {d[2] : d \in E}
             U == T \cap nodes
  <1>1. U \in SUBSET nodes /\ S \subseteq U
    OBVIOUS
  <1>2. \A e \in E : e[1] \in U => e[2] \in U
    OBVIOUS
  <1>3. ASSUME NEW x \in Reached(S, E) PROVE x \in U
    BY <1>1, <1>2 DEF Reached
  <1> QED
    BY <1>3

-----------------------------------------------------------------------------
(* Dominance                                                               *)

(* What is reached from the entry without passing a.                       *)
Avoiding(g, a) == Reached({Entry} \ {a}, {e \in Graph[g] : a \notin {e[1], e[2]}})

(* Edges lead from blocks to blocks.                                       *)
LEMMA Edges ==
  ASSUME NEW g \in Names, NEW e \in Graph[g]
  PROVE  e[1] \in Blocks[g] /\ e[2] \in Blocks[g] /\ e = <<e[1], e[2]>>
  BY GraphAssumption

(* Every block is reached from the entry.                                  *)
LEMMA AllReached ==
  ASSUME NEW g \in Names
  PROVE  Entry \in Blocks[g] /\ Blocks[g] = Reached({Entry}, Graph[g])
  <1>1. Blocks[g] = Reached({Entry}, Graph[g])
    BY GraphAssumption
  <1> QED
    BY <1>1, ReachedStart

(* The successors of a block are where its edges lead.                     *)
LEMMA Successors ==
  ASSUME NEW g \in Names, NEW b \in Blocks[g]
  PROVE  \A c : c \in succ[g][b] <=> <<b, c>> \in Graph[g]
  <1>1. succ[g][b] = {c \in Blocks[g] : <<b, c>> \in Graph[g]}
    BY DEF succ
  <1>2. \A c : <<b, c>> \in Graph[g] => c \in Blocks[g]
    BY Edges
  <1> QED
    BY <1>1, <1>2

(* A dominator is a block without which the other one is not reached.      *)
LEMMA Dominators ==
  ASSUME NEW g \in Names, NEW b \in Blocks[g]
  PROVE  \A a : a \in dominators[g][b] <=> a \in Blocks[g] /\ (a = b \/ b \notin Avoiding(g, a))
  BY DEF dominators, Avoiding

(* A dominator of the end of an edge dominates its beginning.              *)
LEMMA DominatesBackwards ==
  ASSUME NEW g \in Names, NEW x, NEW y, <<x, y>> \in Graph[g],
         NEW a \in dominators[g][y], a # y
  PROVE  a \in dominators[g][x]
  <1>1. x \in Blocks[g] /\ y \in Blocks[g]
    BY Edges
  <1>2. a \in Blocks[g] /\ y \notin Avoiding(g, a)
    BY <1>1, Dominators
  <1>3. CASE a = x
    BY <1>1, <1>2, <1>3, Dominators
  <1>4. CASE a # x
    <2> DEFINE E == {e \in Graph[g] : a \notin {e[1], e[2]}}
    <2>1. <<x, y>> \in E
      BY <1>4
    <2>2. ASSUME x \in Avoiding(g, a) PROVE FALSE
      <3>1. y \in Avoiding(g, a)
        BY <2>1, <2>2, ReachedStep DEF Avoiding
      <3> QED
        BY <1>2, <3>1
    <2> QED
      BY <1>1, <1>2, <2>2, Dominators
  <1> QED
    BY <1>3, <1>4

(* Only the entry dominates the entry.                                     *)
LEMMA EntryDominated ==
  ASSUME NEW g \in Names, NEW a \in dominators[g][Entry]
  PROVE  a = Entry
  <1>1. Entry \in Blocks[g]
    BY AllReached
  <1>2. a # Entry => Entry \in Avoiding(g, a)
    BY ReachedStart DEF Avoiding
  <1> QED
    BY <1>1, <1>2, Dominators

(* Two blocks do not dominate each other: otherwise what is reached        *)
(* without passing either would be closed, and neither would be reached.   *)
LEMMA Antisymmetric ==
  ASSUME NEW g \in Names, NEW a \in Blocks[g], NEW b \in Blocks[g],
         a \in dominators[g][b], b \in dominators[g][a]
  PROVE  a = b
  <1> SUFFICES ASSUME a # b PROVE FALSE
    OBVIOUS
  <1>1. b \notin Avoiding(g, a) /\ a \notin Avoiding(g, b)
    BY Dominators
  <1>2. a # Entry /\ b # Entry
    BY EntryDominated
  <1> DEFINE T == Avoiding(g, a) \cap Avoiding(g, b)
  <1>3. Entry \in T
    BY <1>2, ReachedStart DEF Avoiding
  <1>4. ASSUME NEW e \in Graph[g], e[1] \in T PROVE e[2] \in T
    <2>1. e[1] # a /\ e[1] # b
      BY <1>1, <1>4
    <2>2. e[2] # a => e[2] \in Avoiding(g, a)
      BY <1>4, <2>1, ReachedStep DEF Avoiding
    <2>3. e[2] # b => e[2] \in Avoiding(g, b)
      BY <1>4, <2>1, ReachedStep DEF Avoiding
    <2> QED
      BY <1>1, <2>2, <2>3
  <1>5. {Entry} \subseteq T
    BY <1>3
  <1> HIDE DEF T
  <1>6. Blocks[g] \subseteq T
    BY <1>4, <1>5, AllReached, ReachedLeast
  <1>7. a \in T
    BY <1>6
  <1> QED
    BY <1>1, <1>7 DEF T

-----------------------------------------------------------------------------
(* Loops                                                                   *)

Latches(g, h) == {e[1] : e \in {e \in FindFunctionBackedges[g] : e[2] = h}}
Into(g, h) == {<<e[2], e[1]>> : e \in {e \in Graph[g] : h \notin {e[1], e[2]}}}

(* What the definition of loops says.                                      *)
LEMMA LoopIs ==
  ASSUME NEW g \in Names, NEW h \in Headers(g)
  PROVE  loops[g][h] = {h} \cup Reached(Latches(g, h) \ {h}, Into(g, h))
  BY DEF loops, Headers, Latches, Into

(* A latch is a block with an edge to the header, which dominates it.      *)
LEMMA LatchIs ==
  ASSUME NEW g \in Names, NEW h
  PROVE  \A l : l \in Latches(g, h) <=> <<l, h>> \in Graph[g] /\ h \in dominators[g][l]
  <1>1. FindFunctionBackedges[g] = {e \in Graph[g] : e[2] \in dominators[g][e[1]]}
    BY DEF FindFunctionBackedges
  <1>2. ASSUME NEW l \in Latches(g, h)
        PROVE  <<l, h>> \in Graph[g] /\ h \in dominators[g][l]
    <2>1. PICK e \in FindFunctionBackedges[g] : e[2] = h /\ e[1] = l
      BY DEF Latches
    <2>2. e \in Graph[g] /\ h \in dominators[g][l]
      BY <1>1, <2>1
    <2>3. e = <<l, h>>
      BY <2>1, <2>2, Edges
    <2> QED
      BY <2>2, <2>3
  <1>3. ASSUME NEW l, <<l, h>> \in Graph[g], h \in dominators[g][l]
        PROVE  l \in Latches(g, h)
    <2>1. <<l, h>> \in FindFunctionBackedges[g]
      BY <1>1, <1>3
    <2> QED
      BY <2>1 DEF Latches
  <1> QED
    BY <1>2, <1>3

(* A header has a latch.                                                   *)
LEMMA HeaderHasLatch ==
  ASSUME NEW g \in Names, NEW h \in Headers(g)
  PROVE  h \in Blocks[g] /\ \E l : l \in Latches(g, h)
  <1>1. PICK e \in FindFunctionBackedges[g] : e[2] = h
    BY DEF Headers, loops
  <1>2. e[1] \in Latches(g, h)
    BY <1>1 DEF Latches
  <1>3. <<e[1], h>> \in Graph[g]
    BY <1>2, LatchIs
  <1>4. h \in Blocks[g]
    BY <1>3, Edges
  <1> QED
    BY <1>2, <1>4

(* A set that holds the header and the latches, and with a block of the    *)
(* loop its predecessors, holds the loop.                                  *)
LEMMA LoopLeast ==
  ASSUME NEW g \in Names, NEW h \in Headers(g), NEW T, h \in T,
         \A l \in Latches(g, h) : l \in T,
         \A x, y : <<x, y>> \in Graph[g] /\ x # h /\ y # h /\ y \in T => x \in T
  PROVE  loops[g][h] \subseteq T
  <1>1. ASSUME NEW e \in Into(g, h), e[1] \in T PROVE e[2] \in T
    <2>1. PICK d \in Graph[g] : h \notin {d[1], d[2]} /\ e = <<d[2], d[1]>>
      BY DEF Into
    <2>2. d = <<d[1], d[2]>>
      BY Edges
    <2>3. <<d[1], d[2]>> \in Graph[g] /\ d[1] # h /\ d[2] # h
      BY <2>1, <2>2
    <2>4. e[1] = d[2] /\ e[2] = d[1]
      BY <2>1
    <2> QED
      BY <1>1, <2>3, <2>4
  <1>2. Latches(g, h) \ {h} \subseteq T
    OBVIOUS
  <1>3. Reached(Latches(g, h) \ {h}, Into(g, h)) \subseteq T
    BY <1>1, <1>2, ReachedLeast
  <1> QED
    BY <1>3, LoopIs

(* A latch is in the loop, and so are the predecessors of its blocks.      *)
LEMMA LoopClosed ==
  ASSUME NEW g \in Names, NEW h \in Headers(g)
  PROVE  /\ h \in loops[g][h]
         /\ \A l \in Latches(g, h) : l \in loops[g][h]
         /\ \A x, y : <<x, y>> \in Graph[g] /\ y # h /\ y \in loops[g][h] => x \in loops[g][h]
  <1>1. h \in loops[g][h]
    BY LoopIs
  <1>2. ASSUME NEW l \in Latches(g, h) PROVE l \in loops[g][h]
    <2>1. l # h => l \in Reached(Latches(g, h) \ {h}, Into(g, h))
      BY ReachedStart
    <2> QED
      BY <1>1, <2>1, LoopIs
  <1>3. ASSUME NEW x, NEW y, <<x, y>> \in Graph[g], y # h, y \in loops[g][h], x # h
        PROVE  x \in loops[g][h]
    <2>1. y \in Reached(Latches(g, h) \ {h}, Into(g, h))
      BY <1>3, LoopIs
    <2>2. <<y, x>> \in Into(g, h)
      <3>1. h \notin {<<x, y>>[1], <<x, y>>[2]}
        BY <1>3
      <3> QED
        BY <1>3, <3>1 DEF Into
    <2>3. x \in Reached(Latches(g, h) \ {h}, Into(g, h))
      <3>1. <<y, x>>[1] = y /\ <<y, x>>[2] = x
        OBVIOUS
      <3> QED
        BY <2>1, <2>2, <3>1, ReachedStep
    <2> QED
      BY <2>3, LoopIs
  <1> QED
    BY <1>1, <1>2, <1>3

(* The header dominates the blocks of its loop.                            *)
LEMMA HeaderDominates ==
  ASSUME NEW g \in Names, NEW h \in Headers(g), NEW b \in loops[g][h]
  PROVE  b \in Blocks[g] /\ h \in dominators[g][b]
  <1> DEFINE T == {x \in Blocks[g] : h \in dominators[g][x]}
  <1>1. h \in T
    BY HeaderHasLatch, Dominators
  <1>2. ASSUME NEW l \in Latches(g, h) PROVE l \in T
    <2>1. <<l, h>> \in Graph[g] /\ h \in dominators[g][l]
      BY LatchIs
    <2>2. l \in Blocks[g]
      BY <2>1, Edges
    <2> QED
      BY <2>1, <2>2
  <1>3. ASSUME NEW x, NEW y, <<x, y>> \in Graph[g], x # h, y # h, y \in T PROVE x \in T
    <2>1. h \in dominators[g][x]
      BY <1>3, DominatesBackwards
    <2>2. x \in Blocks[g]
      BY <1>3, Edges
    <2> QED
      BY <2>1, <2>2
  <1> HIDE DEF T
  <1>4. loops[g][h] \subseteq T
    BY <1>1, <1>2, <1>3, LoopLeast
  <1> QED
    BY <1>4 DEF T

(* The header has a successor in the loop: otherwise what is outside of    *)
(* the loop, with the header, would be closed, and no latch reached.       *)
LEMMA HeaderEnters ==
  ASSUME NEW g \in Names, NEW h \in Headers(g)
  PROVE  \E y \in loops[g][h] : <<h, y>> \in Graph[g]
  <1> SUFFICES ASSUME \A y \in loops[g][h] : <<h, y>> \notin Graph[g] PROVE FALSE
    OBVIOUS
  <1> DEFINE T == (Blocks[g] \ loops[g][h]) \cup {h}
  <1>1. PICK l : l \in Latches(g, h)
    BY HeaderHasLatch
  <1>2. l \in loops[g][h] /\ <<l, h>> \in Graph[g] /\ h \in loops[g][h]
    BY <1>1, LoopClosed, LatchIs
  <1>3. l # h
    BY <1>2
  <1>4. Entry \in T
    <2>1. Entry \in loops[g][h] => h = Entry
      BY HeaderDominates, EntryDominated
    <2> QED
      BY <2>1, AllReached
  <1>5. ASSUME NEW e \in Graph[g], e[1] \in T PROVE e[2] \in T
    <2>1. e = <<e[1], e[2]>> /\ e[2] \in Blocks[g]
      BY Edges
    <2>2. PICK x, y : x = e[1] /\ y = e[2]
      OBVIOUS
    <2>3. <<x, y>> \in Graph[g] /\ x \in T /\ y \in Blocks[g]
      BY <1>5, <2>1, <2>2
    <2>4. ASSUME y \in loops[g][h], y # h PROVE FALSE
      <3>1. x \in loops[g][h]
        BY <2>3, <2>4, LoopClosed
      <3>2. x = h
        BY <2>3, <3>1
      <3> QED
        BY <2>3, <2>4, <3>2
    <2> QED
      BY <2>2, <2>3, <2>4
  <1>6. {Entry} \subseteq T
    BY <1>4
  <1>7. l \in Blocks[g]
    BY <1>2, Edges
  <1> HIDE DEF T
  <1>8. Blocks[g] \subseteq T
    BY <1>5, <1>6, AllReached, ReachedLeast
  <1> QED
    BY <1>2, <1>3, <1>7, <1>8 DEF T

(* Every block of a loop has a successor in the loop.                      *)
LEMMA LoopGoesOn ==
  ASSUME NEW g \in Names, NEW h \in Headers(g), NEW b \in loops[g][h]
  PROVE  \E y \in loops[g][h] : <<b, y>> \in Graph[g]
  <1> DEFINE T == {x \in loops[g][h] : \E y \in loops[g][h] : <<x, y>> \in Graph[g]}
  <1>1. h \in T
    BY HeaderEnters, LoopClosed
  <1>2. ASSUME NEW l \in Latches(g, h) PROVE l \in T
    BY LatchIs, LoopClosed
  <1>3. ASSUME NEW x, NEW y, <<x, y>> \in Graph[g], x # h, y # h, y \in T PROVE x \in T
    <2>1. y \in loops[g][h]
      BY <1>3
    <2>2. x \in loops[g][h]
      BY <1>3, <2>1, LoopClosed
    <2> QED
      BY <1>3, <2>1, <2>2
  <1> HIDE DEF T
  <1>4. loops[g][h] \subseteq T
    BY <1>1, <1>2, <1>3, LoopLeast
  <1> QED
    BY <1>4 DEF T

-----------------------------------------------------------------------------
(* How loops nest                                                          *)

(* The headers of the loops that block b is in.                            *)
Around(g, b) == {h \in Headers(g) : b \in loops[g][h]}

(* A non-empty set of natural numbers has a smallest element.              *)
LEMMA SmallestOf ==
  ASSUME NEW S \in SUBSET Nat, S # {}
  PROVE  \E m \in S : \A k \in S : m <= k
  <1>1. IsWellFoundedOn(OpToRel(<, Nat), Nat)
    BY NatLessThanWellFounded
  <1>2. PICK m \in S : \A k \in S : ~(<<k, m>> \in OpToRel(<, Nat))
    BY <1>1, WFMin
  <1>3. \A k \in S : ~(k < m)
    BY <1>2 DEF OpToRel
  <1> QED
    BY <1>3

(* The depth of a block is the number of loops it is in.                   *)
LEMMA DepthIs ==
  ASSUME NEW g \in Names, NEW b \in Blocks[g]
  PROVE  /\ IsFiniteSet(Around(g, b))
         /\ getLoopDepth[g][b] = Cardinality(Around(g, b))
         /\ getLoopDepth[g][b] \in Nat
  <1>1. IsFiniteSet(Blocks[g])
    BY GraphAssumption
  <1>2. Around(g, b) \in SUBSET Blocks[g]
    BY HeaderHasLatch DEF Around
  <1>3. IsFiniteSet(Around(g, b))
    BY <1>1, <1>2, FS_Subset
  <1>4. Cardinality(Around(g, b)) \in Nat
    BY <1>3, FS_CardinalityType
  <1>5. getLoopDepth[g][b] = Cardinality(Around(g, b))
    BY DEF getLoopDepth, Around
  <1> QED
    BY <1>3, <1>4, <1>5

(* Two headers that are in each other's loop are one.                      *)
LEMMA OneHeader ==
  ASSUME NEW g \in Names, NEW h \in Headers(g), NEW k \in Headers(g),
         h \in loops[g][k], k \in loops[g][h]
  PROVE  h = k
  <1>1. k \in dominators[g][h] /\ h \in dominators[g][k] /\ h \in Blocks[g] /\ k \in Blocks[g]
    BY HeaderDominates
  <1> QED
    BY <1>1, Antisymmetric

(* A loop whose header is in another loop is within that loop.             *)
LEMMA Within ==
  ASSUME NEW g \in Names, NEW h \in Headers(g), NEW k \in Headers(g), k \in loops[g][h]
  PROVE  loops[g][k] \subseteq loops[g][h]
  <1> SUFFICES ASSUME h # k PROVE loops[g][k] \subseteq loops[g][h]
    OBVIOUS
  <1> DEFINE T == loops[g][h] \cap loops[g][k]
  <1>1. h \notin loops[g][k]
    BY OneHeader
  <1>2. k \in T
    BY LoopClosed
  <1>3. ASSUME NEW l \in Latches(g, k) PROVE l \in T
    <2>1. <<l, k>> \in Graph[g]
      BY LatchIs
    <2>2. l \in loops[g][h]
      BY <2>1, LoopClosed
    <2>3. l \in loops[g][k]
      BY LoopClosed
    <2> QED
      BY <2>2, <2>3
  <1>4. ASSUME NEW x, NEW y, <<x, y>> \in Graph[g], x # k, y # k, y \in T PROVE x \in T
    <2>1. y # h
      BY <1>1, <1>4
    <2>2. x \in loops[g][h]
      BY <1>4, <2>1, LoopClosed
    <2>3. x \in loops[g][k]
      BY <1>4, LoopClosed
    <2> QED
      BY <2>2, <2>3
  <1> HIDE DEF T
  <1>5. loops[g][k] \subseteq T
    BY <1>2, <1>3, <1>4, LoopLeast
  <1> QED
    BY <1>5 DEF T

(* Of two loops that share a block, one holds the other's header:          *)
(* otherwise no edge would lead into what they share, and it would not be  *)
(* reached.                                                                *)
LEMMA Nested ==
  ASSUME NEW g \in Names, NEW h \in Headers(g), NEW k \in Headers(g),
         NEW b \in loops[g][h], b \in loops[g][k], h \notin loops[g][k]
  PROVE  k \in loops[g][h]
  <1> SUFFICES ASSUME k \notin loops[g][h] PROVE FALSE
    OBVIOUS
  <1> DEFINE T == Blocks[g] \ (loops[g][h] \cap loops[g][k])
  <1>1. Entry \in T
    <2>1. Entry \in Blocks[g]
      BY AllReached
    <2>2. ASSUME Entry \in loops[g][h], Entry \in loops[g][k] PROVE FALSE
      <3>1. h = Entry
        BY <2>2, HeaderDominates, EntryDominated
      <3> QED
        BY <2>2, <3>1
    <2> QED
      BY <2>1, <2>2
  <1>2. ASSUME NEW e \in Graph[g], e[1] \in T PROVE e[2] \in T
    <2>1. PICK x, y : x = e[1] /\ y = e[2]
      OBVIOUS
    <2>2. <<x, y>> \in Graph[g] /\ x \in T /\ y \in Blocks[g]
      BY <1>2, <2>1, Edges
    <2>3. ASSUME y \in loops[g][h], y \in loops[g][k] PROVE FALSE
      <3>1. y # h /\ y # k
        BY <2>3
      <3>2. x \in loops[g][h]
        BY <2>2, <2>3, <3>1, LoopClosed
      <3>3. x \in loops[g][k]
        BY <2>2, <2>3, <3>1, LoopClosed
      <3> QED
        BY <2>2, <3>2, <3>3
    <2> QED
      BY <2>1, <2>2, <2>3
  <1>3. b \in Blocks[g]
    BY HeaderDominates
  <1>4. {Entry} \subseteq T
    BY <1>1
  <1> HIDE DEF T
  <1>5. Blocks[g] \subseteq T
    BY <1>2, <1>4, AllReached, ReachedLeast
  <1> QED
    BY <1>3, <1>5 DEF T

(* A block is in all loops that the header of a loop around it is in.      *)
LEMMA AroundWithin ==
  ASSUME NEW g \in Names, NEW h \in Headers(g), NEW b \in loops[g][h]
  PROVE  /\ Around(g, h) \subseteq Around(g, b)
         /\ b \in Blocks[g] /\ h \in Blocks[g]
         /\ h \in Around(g, h) /\ h \in Around(g, b)
         /\ getLoopDepth[g][h] <= getLoopDepth[g][b]
         /\ getLoopDepth[g][h] \in Nat \ {0}
  <1>1. ASSUME NEW k \in Around(g, h) PROVE k \in Around(g, b)
    <2>1. k \in Headers(g) /\ h \in loops[g][k]
      BY DEF Around
    <2>2. b \in loops[g][k]
      BY <2>1, Within
    <2> QED
      BY <2>1, <2>2 DEF Around
  <1>2. b \in Blocks[g] /\ h \in Blocks[g]
    BY HeaderDominates, HeaderHasLatch
  <1>3. h \in Around(g, h) /\ h \in Around(g, b)
    BY LoopClosed DEF Around
  <1>4. PICK A, C : A = Around(g, h) /\ C = Around(g, b)
    OBVIOUS
  <1>5. IsFiniteSet(A) /\ IsFiniteSet(C) /\ A \in SUBSET C /\ A # {}
    BY <1>1, <1>2, <1>3, <1>4, DepthIs
  <1>6. Cardinality(A) <= Cardinality(C) /\ Cardinality(A) # 0
    BY <1>5, FS_Subset, FS_EmptySet
  <1> QED
    BY <1>1, <1>2, <1>3, <1>4, <1>6, DepthIs

(* An inner loop's header is deeper.                                       *)
LEMMA Deeper ==
  ASSUME NEW g \in Names, NEW h \in Headers(g), NEW k \in Headers(g), k \in loops[g][h], h # k
  PROVE  getLoopDepth[g][h] < getLoopDepth[g][k]
  <1>1. PICK A, C : A = Around(g, h) /\ C = Around(g, k)
    OBVIOUS
  <1>2. A \subseteq C /\ h \in Blocks[g] /\ k \in Blocks[g]
    BY <1>1, AroundWithin
  <1>3. k \in C
    BY <1>1, LoopClosed DEF Around
  <1>4. k \notin A
    BY <1>1, OneHeader DEF Around
  <1>5. IsFiniteSet(C) /\ IsFiniteSet(A)
    BY <1>1, <1>2, DepthIs
  <1>6. Cardinality(A) <= Cardinality(C) /\ Cardinality(A) # Cardinality(C)
    BY <1>2, <1>3, <1>4, <1>5, FS_Subset
  <1>7. Cardinality(A) \in Nat /\ Cardinality(C) \in Nat
    BY <1>5, FS_CardinalityType
  <1> QED
    BY <1>1, <1>2, <1>6, <1>7, DepthIs

(* A set of headers has an outermost one.                                  *)
LEMMA Outermost ==
  ASSUME NEW g \in Names, NEW M, M \subseteq Headers(g), M # {}
  PROVE  \E c \in M : \A k \in M : getLoopDepth[g][c] <= getLoopDepth[g][k]
  <1> DEFINE S == {getLoopDepth[g][k] : k \in M}
  <1>1. ASSUME NEW k \in M PROVE getLoopDepth[g][k] \in Nat
    BY HeaderHasLatch, DepthIs
  <1>2. S \in SUBSET Nat /\ S # {}
    BY <1>1
  <1> HIDE DEF S
  <1>3. PICK m \in S : \A n \in S : m <= n
    BY <1>2, SmallestOf
  <1> QED
    BY <1>3 DEF S

(* Between a block and the header of a loop around it there is, unless the *)
(* block belongs to no inner loop, a loop one level down.                  *)
LEMMA NextHeader ==
  ASSUME NEW g \in Names, NEW h \in Headers(g), NEW b \in loops[g][h],
         getLoopDepth[g][h] # getLoopDepth[g][b]
  PROVE  \E c \in Headers(g) : /\ b \in loops[g][c] /\ c \in loops[g][h] /\ c # h
                               /\ getLoopDepth[g][c] = getLoopDepth[g][h] + 1
  <1> DEFINE M == Around(g, b) \ Around(g, h)
  <1>1. /\ Around(g, h) \subseteq Around(g, b) /\ h \in Around(g, h)
        /\ b \in Blocks[g] /\ h \in Blocks[g]
    BY AroundWithin
  <1>2. M # {}
    <2>1. Around(g, h) # Around(g, b)
      BY <1>1, DepthIs
    <2> QED
      BY <1>1, <2>1
  <1>3. M \subseteq Headers(g)
    BY DEF Around
  <1>4. PICK c \in M : \A k \in M : getLoopDepth[g][c] <= getLoopDepth[g][k]
    <2> HIDE DEF M
    <2> QED
      BY <1>2, <1>3, Outermost
  <1>5. c \in Headers(g) /\ b \in loops[g][c] /\ h \notin loops[g][c] /\ c # h
    BY <1>1, <1>4 DEF Around
  <1>6. c \in loops[g][h]
    BY <1>5, Nested
  <1>7. Around(g, h) \subseteq Around(g, c) /\ c \in Around(g, c) /\ c \in Blocks[g]
    BY <1>5, <1>6, AroundWithin, LoopClosed DEF Around
  <1>8. ASSUME NEW j \in Around(g, c), j # c PROVE j \in Around(g, h)
    <2>1. j \in Headers(g) /\ c \in loops[g][j]
      BY <1>8 DEF Around
    <2>2. getLoopDepth[g][j] < getLoopDepth[g][c]
      BY <1>5, <1>8, <2>1, Deeper
    <2>3. j \in Around(g, b)
      BY <1>5, <1>8, AroundWithin
    <2>4. getLoopDepth[g][j] \in Nat /\ getLoopDepth[g][c] \in Nat
      BY <1>7, <2>1, HeaderHasLatch, DepthIs
    <2>5. ~(getLoopDepth[g][c] <= getLoopDepth[g][j])
      BY <2>2, <2>4
    <2> QED
      BY <1>4, <2>3, <2>5
  <1>9. Around(g, c) = Around(g, h) \cup {c} /\ c \notin Around(g, h)
    BY <1>4, <1>7, <1>8
  <1>10. Cardinality(Around(g, h) \cup {c}) = Cardinality(Around(g, h)) + 1
    BY <1>1, <1>9, DepthIs, FS_AddElement
  <1>11. getLoopDepth[g][c] = getLoopDepth[g][h] + 1
    BY <1>1, <1>7, <1>9, <1>10, DepthIs
  <1> QED
    BY <1>5, <1>6, <1>11

(* A block in a loop is in one loop of depth 1, whose header is the root   *)
(* of its tree.                                                            *)
LEMMA RootExists ==
  ASSUME NEW g \in Names, NEW h \in Headers(g), NEW b \in loops[g][h]
  PROVE  \E r \in Headers(g) : getLoopDepth[g][r] = 1 /\ b \in loops[g][r]
  <1>1. h \in Around(g, b) /\ Around(g, b) \subseteq Headers(g)
    BY AroundWithin DEF Around
  <1>2. PICK c \in Around(g, b) :
          \A k \in Around(g, b) : getLoopDepth[g][c] <= getLoopDepth[g][k]
    BY <1>1, Outermost
  <1>3. c \in Headers(g) /\ b \in loops[g][c] /\ c \in Around(g, c) /\ c \in Blocks[g]
    BY <1>2, HeaderHasLatch, LoopClosed DEF Around
  <1>4. ASSUME NEW j \in Around(g, c), j # c PROVE FALSE
    <2>1. j \in Headers(g) /\ c \in loops[g][j]
      BY DEF Around
    <2>2. getLoopDepth[g][j] < getLoopDepth[g][c]
      BY <1>3, <1>4, <2>1, Deeper
    <2>3. j \in Around(g, b)
      BY <1>3, AroundWithin
    <2>4. getLoopDepth[g][j] \in Nat /\ getLoopDepth[g][c] \in Nat
      BY <1>3, <2>1, HeaderHasLatch, DepthIs
    <2> QED
      BY <1>2, <2>2, <2>3, <2>4
  <1>5. Around(g, c) = {c}
    BY <1>3, <1>4
  <1>6. getLoopDepth[g][c] = 1
    BY <1>3, <1>5, DepthIs, FS_Singleton
  <1> QED
    BY <1>3, <1>6

(* No other loop of depth 1 holds the block.                               *)
LEMMA RootUnique ==
  ASSUME NEW g \in Names, NEW h \in Headers(g), NEW k \in Headers(g),
         NEW b \in loops[g][h], b \in loops[g][k],
         getLoopDepth[g][h] = 1, getLoopDepth[g][k] = 1
  PROVE  h = k
  <1>1. h \in loops[g][k] \/ k \in loops[g][h]
    BY Nested
  <1> QED
    BY <1>1, Deeper

(* Root as the model has it.                                               *)
LEMMA RootIs ==
  ASSUME SSA(prog), NEW h \in Headers(prog.graph), NEW b \in loops[prog.graph][h]
  PROVE  /\ Root(b) \in Headers(prog.graph) /\ depth(Root(b)) = 1
         /\ b \in loops[prog.graph][Root(b)]
         /\ Root(b) = Root(h)
         /\ Root(b) \in B
  <1>g. PICK g \in Names : g = prog.graph
    BY DEF SSA
  <1> DEFINE IsRoot(x, r) == r \in Headers(g) /\ getLoopDepth[g][r] = 1 /\ x \in loops[g][r]
  <1>1. ASSUME NEW x \in loops[g][h] PROVE IsRoot(x, Root(x))
    <2>1. depth(x) # 0
      <3>1. getLoopDepth[g][h] <= getLoopDepth[g][x] /\ getLoopDepth[g][h] \in Nat \ {0}
        BY <1>g, AroundWithin
      <3> QED
        BY <1>g, <3>1 DEF depth
    <2>2. Root(x) = CHOOSE r \in Headers(g) : getLoopDepth[g][r] = 1 /\ x \in loops[g][r]
      BY <1>g, <2>1 DEF Root, depth
    <2>3. \E r \in Headers(g) : getLoopDepth[g][r] = 1 /\ x \in loops[g][r]
      BY <1>g, RootExists
    <2> QED
      BY <2>2, <2>3
  <1>2. h \in loops[g][h] /\ b \in loops[g][h]
    BY <1>g, LoopClosed
  <1>3. IsRoot(b, Root(b)) /\ IsRoot(h, Root(h))
    BY <1>1, <1>2
  <1>4. b \in loops[g][Root(h)]
    BY <1>g, <1>2, <1>3, Within
  <1>5. Root(b) = Root(h)
    BY <1>3, <1>4, RootUnique
  <1>6. Root(b) \in Blocks[g]
    BY <1>3, HeaderHasLatch
  <1> QED
    BY <1>g, <1>3, <1>5, <1>6 DEF depth, B

-----------------------------------------------------------------------------
(* Liveness by its definition                                              *)

(* A value is live into a block that uses it and does not define it ...    *)
LEMMA LiveStart ==
  ASSUME SSA(prog), NEW v, NEW b \in UsedIn(v) \cup PassedOn(v), b \notin DefinedIn(v)
  PROVE  b \in TrueIn(v)
  BY ReachedStart DEF TrueIn

(* ... and into one with a successor it is live into, ...                  *)
LEMMA LiveBackwards ==
  ASSUME SSA(prog), NEW v, NEW x, NEW y, <<x, y>> \in Graph[prog.graph],
         x \notin DefinedIn(v), y \in TrueIn(v)
  PROVE  x \in TrueIn(v)
  <1> DEFINE E == {<<e[2], e[1]>> : e \in {e \in Graph[prog.graph] : e[1] \notin DefinedIn(v)}}
  <1>1. <<x, y>>[1] = x /\ <<x, y>>[2] = y
    OBVIOUS
  <1>2. <<y, x>> \in E
    BY <1>1
  <1>3. <<y, x>>[1] = y /\ <<y, x>>[2] = x
    OBVIOUS
  <1> HIDE DEF E
  <1>4. PICK S : S = (UsedIn(v) \cup PassedOn(v)) \ DefinedIn(v)
    OBVIOUS
  <1>5. TrueIn(v) = Reached(S, E)
    BY <1>4 DEF TrueIn, E
  <1> QED
    BY <1>2, <1>3, <1>5, ReachedStep

(* ... and into no others.                                                 *)
LEMMA LiveLeast ==
  ASSUME SSA(prog), NEW v, NEW T,
         \A b \in UsedIn(v) \cup PassedOn(v) : b \notin DefinedIn(v) => b \in T,
         \A x, y : <<x, y>> \in Graph[prog.graph] /\ x \notin DefinedIn(v) /\ y \in T => x \in T
  PROVE  TrueIn(v) \subseteq T
  <1> DEFINE E == {<<e[2], e[1]>> : e \in {e \in Graph[prog.graph] : e[1] \notin DefinedIn(v)}}
  <1>1. ASSUME NEW d \in E, d[1] \in T PROVE d[2] \in T
    <2>1. PICK e \in Graph[prog.graph] : e[1] \notin DefinedIn(v) /\ d = <<e[2], e[1]>>
      OBVIOUS
    <2>2. prog.graph \in Names
      BY DEF SSA
    <2>3. e = <<e[1], e[2]>>
      BY <2>2, Edges
    <2>4. <<e[1], e[2]>> \in Graph[prog.graph] /\ d[1] = e[2] /\ d[2] = e[1]
      BY <2>1, <2>3
    <2> QED
      BY <1>1, <2>1, <2>4
  <1> HIDE DEF E
  <1>2. PICK S : S = (UsedIn(v) \cup PassedOn(v)) \ DefinedIn(v)
    OBVIOUS
  <1>3. S \subseteq T
    BY <1>2
  <1>4. TrueIn(v) = Reached(S, E)
    BY <1>2 DEF TrueIn, E
  <1> QED
    BY <1>1, <1>3, <1>4, ReachedLeast

(* A value is not live into a block that defines it.                       *)
LEMMA LiveNotDefined ==
  ASSUME SSA(prog), NEW v
  PROVE  /\ TrueIn(v) \subseteq B
         /\ \A b \in TrueIn(v) : b \notin DefinedIn(v)
  <1> DEFINE T == {b \in B : b \notin DefinedIn(v)}
  <1>1. \A b \in UsedIn(v) \cup PassedOn(v) : b \notin DefinedIn(v) => b \in T
    BY DEF UsedIn, PassedOn
  <1>2. ASSUME NEW x, NEW y, <<x, y>> \in Graph[prog.graph], x \notin DefinedIn(v), y \in T
        PROVE  x \in T
    <2>1. x \in B
      BY <1>2, Edges DEF SSA, B
    <2> QED
      BY <1>2, <2>1
  <1> HIDE DEF T
  <1>3. TrueIn(v) \subseteq T
    BY <1>1, <1>2, LiveLeast
  <1> QED
    BY <1>3 DEF T

(* DefinedIn in terms of Definitions.                                      *)
LEMMA DefinedAt ==
  ASSUME SSA(prog), NEW v
  PROVE  /\ \A b \in B :
              (\E phi \in prog.phis[b] : phi.def = v) => <<b, 0>> \in Definitions(prog, v)
         /\ \A b \in B : \A i \in DOMAIN prog.body[b] :
              prog.body[b][i].def = v => <<b, i>> \in Definitions(prog, v)
         /\ \A b \in B : DOMAIN prog.body[b] = 1 .. Len(prog.body[b]) /\ Len(prog.body[b]) \in Nat
  <1>1. ASSUME NEW b \in B
        PROVE  DOMAIN prog.body[b] = 1 .. Len(prog.body[b]) /\ Len(prog.body[b]) \in Nat
    <2>1. prog.body[b] \in Seq({prog.body[b][i] : i \in DOMAIN prog.body[b]})
      BY DEF SSA, B
    <2>2. PICK s, S : s = prog.body[b] /\ s \in Seq(S)
      BY <2>1
    <2>3. DOMAIN s = 1 .. Len(s) /\ Len(s) \in Nat
      BY <2>2
    <2> QED
      BY <2>2, <2>3
  <1> DEFINE Places == UNION {{b} \X (0 .. Len(prog.body[b])) : b \in Blocks[prog.graph]}
  <1>2. ASSUME NEW b \in B, NEW i \in 0 .. Len(prog.body[b]) PROVE <<b, i>> \in Places
    BY DEF B
  <1>3. ASSUME NEW b \in B, \E phi \in prog.phis[b] : phi.def = v
        PROVE  <<b, 0>> \in Definitions(prog, v)
    <2>1. 0 \in 0 .. Len(prog.body[b])
      BY <1>1
    <2>2. <<b, 0>>[1] = b /\ <<b, 0>>[2] = 0
      OBVIOUS
    <2>3. <<b, 0>> \in Places
      BY <1>2, <2>1
    <2> QED
      BY <1>3, <2>2, <2>3 DEF Definitions
  <1>4. ASSUME NEW b \in B, NEW i \in DOMAIN prog.body[b], prog.body[b][i].def = v
        PROVE  <<b, i>> \in Definitions(prog, v)
    <2>1. i \in 0 .. Len(prog.body[b]) /\ i # 0
      BY <1>1
    <2>2. <<b, i>>[1] = b /\ <<b, i>>[2] = i
      OBVIOUS
    <2>3. <<b, i>> \in Places
      BY <1>2, <2>1
    <2> QED
      BY <1>4, <2>1, <2>2, <2>3 DEF Definitions
  <1> QED
    BY <1>1, <1>3, <1>4

(* The definition of a value dominates its uses.                           *)
LEMMA UseDominated ==
  ASSUME SSA(prog), NEW v, includeVal(v), NEW b \in B, NEW i, WellUsed(prog, v, <<b, i>>),
         NEW d \in DefinedIn(v)
  PROVE  d \in dominators[prog.graph][b]
  <1>1. DefinedBefore(prog, v, <<b, i>>)
    BY DEF WellUsed
  <1>2. /\ \A p, q \in Definitions(prog, v) : p = q
        /\ v \in prog.args => Definitions(prog, v) = {}
    BY DEF WellUsed
  <1>3. <<b, i>>[1] = b
    OBVIOUS
  <1>4. PICK k : <<d, k>> \in Definitions(prog, v)
    BY DefinedAt DEF DefinedIn
  <1>5. ASSUME NEW c \in B, NEW j, <<c, j>> \in Definitions(prog, v) PROVE c = d
    <2>1. <<c, j>> = <<d, k>>
      BY <1>2, <1>4, <1>5
    <2> QED
      BY <2>1
  <1>6. \A c \in dominators[prog.graph][b] : c \in B
    BY Dominators DEF SSA, B
  <1>7. v \notin prog.args
    BY <1>2, <1>4
  <1>8. CASE \E c \in dominators[prog.graph][b] : \E phi \in prog.phis[c] : phi.def = v
    <2>1. PICK c \in dominators[prog.graph][b] : \E phi \in prog.phis[c] : phi.def = v
      BY <1>8
    <2>2. <<c, 0>> \in Definitions(prog, v)
      BY <1>6, <2>1, DefinedAt
    <2> QED
      BY <1>5, <1>6, <2>1, <2>2
  <1>9. CASE \E c \in dominators[prog.graph][b] : \E j \in DOMAIN prog.body[c] :
               prog.body[c][j].def = v
    <2>1. PICK c \in dominators[prog.graph][b] : \E j \in DOMAIN prog.body[c] :
            prog.body[c][j].def = v
      BY <1>9
    <2>2. PICK j \in DOMAIN prog.body[c] : prog.body[c][j].def = v
      BY <2>1
    <2>3. <<c, j>> \in Definitions(prog, v)
      BY <1>6, <2>1, <2>2, DefinedAt
    <2> QED
      BY <1>5, <1>6, <2>1, <2>3
  <1> QED
    BY <1>1, <1>3, <1>7, <1>8, <1>9 DEF DefinedBefore

(* The uses of v are uses in SSA form.                                     *)
LEMMA UsesAreWell ==
  ASSUME SSA(prog), NEW v, NEW b \in UsedIn(v) \cup PassedOn(v)
  PROVE  b \in B /\ \E i : WellUsed(prog, v, <<b, i>>)
  <1>1. b \in B
    BY DEF UsedIn, PassedOn
  <1>2. CASE b \in UsedIn(v)
    <2>1. PICK i \in DOMAIN prog.body[b] : v \in prog.body[b][i].ops
      BY <1>2 DEF UsedIn
    <2>2. WellUsed(prog, v, <<b, i>>)
      BY <1>1, <2>1 DEF SSA, B
    <2> QED
      BY <1>1, <2>2
  <1>3. CASE b \in PassedOn(v)
    <2>1. PICK s \in succ[prog.graph][b] : \E phi \in prog.phis[s] : phi.from[b] = v
      BY <1>3 DEF PassedOn
    <2>2. WellUsed(prog, v, <<b, Len(prog.body[b]) + 1>>)
      BY <1>1, <2>1 DEF SSA, B
    <2> QED
      BY <1>1, <2>2
  <1> QED
    BY <1>2, <1>3

(* The definition of a value dominates the blocks it is live into.         *)
LEMMA DefinitionDominates ==
  ASSUME SSA(prog), NEW v, includeVal(v), NEW b \in TrueIn(v), NEW d \in DefinedIn(v)
  PROVE  d \in dominators[prog.graph][b]
  <1> DEFINE T == {x \in B : x \notin DefinedIn(v) /\ d \in dominators[prog.graph][x]}
  <1>1. ASSUME NEW x \in UsedIn(v) \cup PassedOn(v), x \notin DefinedIn(v) PROVE x \in T
    <2>1. x \in B
      BY UsesAreWell
    <2>2. PICK i : WellUsed(prog, v, <<x, i>>)
      BY UsesAreWell
    <2>3. d \in dominators[prog.graph][x]
      BY <2>1, <2>2, UseDominated
    <2> QED
      BY <1>1, <2>1, <2>3
  <1>2. ASSUME NEW x, NEW y, <<x, y>> \in Graph[prog.graph], x \notin DefinedIn(v), y \in T
        PROVE  x \in T
    <2>1. prog.graph \in Names
      BY DEF SSA
    <2>2. x \in B
      BY <1>2, <2>1, Edges DEF B
    <2>3. d # y /\ d \in dominators[prog.graph][y]
      BY <1>2
    <2>4. d \in dominators[prog.graph][x]
      BY <1>2, <2>1, <2>3, DominatesBackwards
    <2> QED
      BY <1>2, <2>2, <2>4
  <1> HIDE DEF T
  <1>3. TrueIn(v) \subseteq T
    BY <1>1, <1>2, LiveLeast
  <1> QED
    BY <1>3 DEF T

(* A value that is live at the end of a block and that the block does not  *)
(* define is live into it.                                                 *)
LEMMA LiveThrough ==
  ASSUME SSA(prog), NEW v, NEW b \in B, b \in TrueOut(v), b \notin DefinedIn(v)
  PROVE  b \in TrueIn(v)
  <1>1. CASE b \in PassedOn(v)
    BY <1>1, LiveStart
  <1>2. CASE succ[prog.graph][b] \cap (TrueIn(v) \ DefinedIn(v)) # {}
    <2>1. PICK s \in succ[prog.graph][b] : s \in TrueIn(v)
      BY <1>2
    <2>2. <<b, s>> \in Graph[prog.graph]
      BY <2>1, Successors DEF SSA, B
    <2> QED
      BY <2>1, <2>2, LiveBackwards
  <1> QED
    BY <1>1, <1>2 DEF TrueOut

(* A value that is live into a successor is live at the end of a block.    *)
LEMMA LiveAtEnd ==
  ASSUME SSA(prog), NEW v, NEW b, NEW s \in TrueIn(v), <<b, s>> \in Graph[prog.graph]
  PROVE  b \in TrueOut(v)
  <1>1. prog.graph \in Names
    BY DEF SSA
  <1>2. b \in B
    BY <1>1, Edges DEF B
  <1>3. s \in succ[prog.graph][b]
    BY <1>1, <1>2, Successors DEF B
  <1>4. s \notin DefinedIn(v)
    BY LiveNotDefined
  <1> QED
    BY <1>2, <1>3, <1>4 DEF TrueOut

(* A value that is live into a loop's header is live throughout the loop.  *)
LEMMA LiveInLoop ==
  ASSUME SSA(prog), NEW v, includeVal(v), NEW h \in Headers(prog.graph), h \in TrueIn(v),
         NEW b \in loops[prog.graph][h]
  PROVE  b \in TrueIn(v) /\ b \in TrueOut(v)
  <1>g. PICK g \in Names : g = prog.graph
    BY DEF SSA
  <1> DEFINE L == loops[g][h]
  <1>h. h \in Headers(g) /\ b \in L
    BY <1>g
  <1>1. ASSUME NEW x \in L PROVE x \notin DefinedIn(v)
    <2> SUFFICES ASSUME x \in DefinedIn(v) PROVE FALSE
      OBVIOUS
    <2>1. x \in dominators[g][h]
      BY <1>g, DefinitionDominates
    <2>2. h \in dominators[g][x] /\ x \in Blocks[g]
      BY <1>h, HeaderDominates
    <2>3. h \in Blocks[g]
      BY <1>h, HeaderHasLatch
    <2>4. x = h
      BY <2>1, <2>2, <2>3, Antisymmetric
    <2> QED
      BY <2>4, LiveNotDefined
  <1> DEFINE T == L \cap TrueIn(v)
  <1>2. h \in T
    BY <1>h, LoopClosed
  <1>3. ASSUME NEW l \in Latches(g, h) PROVE l \in T
    <2>1. <<l, h>> \in Graph[g] /\ l \in L
      BY <1>h, LatchIs, LoopClosed
    <2> QED
      BY <1>1, <1>g, <2>1, LiveBackwards
  <1>4. ASSUME NEW x, NEW y, <<x, y>> \in Graph[g], x # h, y # h, y \in T PROVE x \in T
    <2>1. y \in L /\ y \in TrueIn(v)
      BY <1>4
    <2>2. x \in L
      BY <1>4, <1>h, <2>1, LoopClosed
    <2> QED
      BY <1>1, <1>4, <1>g, <2>1, <2>2, LiveBackwards
  <1>5. L \subseteq T
    <2> HIDE DEF T
    <2> QED
      BY <1>2, <1>3, <1>4, <1>h, LoopLeast
  <1>6. PICK y \in L : <<b, y>> \in Graph[g]
    BY <1>h, LoopGoesOn
  <1>7. y \in TrueIn(v)
    BY <1>5
  <1>8. b \in TrueOut(v)
    BY <1>6, <1>7, <1>g, LiveAtEnd
  <1> QED
    BY <1>5, <1>8, <1>h

(* Where a value is live it is defined.                                    *)
LEMMA LiveMeansDefined ==
  ASSUME SSA(prog), NEW v, includeVal(v), NEW b \in TrueIn(v), NEW i
  PROVE  DefinedBefore(prog, v, <<b, i>>)
  <1>g. prog.graph \in Names
    BY DEF SSA
  <1>0. <<b, i>>[1] = b
    OBVIOUS
  <1>1. CASE v \in prog.args
    BY <1>1 DEF DefinedBefore
  <1>2. CASE \E d : d \in DefinedIn(v)
    <2>1. PICK d : d \in DefinedIn(v)
      BY <1>2
    <2>2. d \in dominators[prog.graph][b] /\ d # b
      BY <2>1, DefinitionDominates, LiveNotDefined
    <2>3. \/ \E phi \in prog.phis[d] : phi.def = v
          \/ \E j \in DOMAIN prog.body[d] : prog.body[d][j].def = v
      BY <2>1 DEF DefinedIn
    <2> QED
      BY <1>0, <2>2, <2>3 DEF DefinedBefore
  <1>3. CASE v \notin prog.args /\ \A d : d \notin DefinedIn(v)
    <2>1. ASSUME NEW x \in UsedIn(v) \cup PassedOn(v) PROVE FALSE
      <3>1. x \in B
        BY UsesAreWell
      <3>2. PICK k : WellUsed(prog, v, <<x, k>>)
        BY UsesAreWell
      <3>3. DefinedBefore(prog, v, <<x, k>>) /\ <<x, k>>[1] = x
        BY <3>2 DEF WellUsed
      <3>4. PICK c \in dominators[prog.graph][x] :
              \/ \E phi \in prog.phis[c] : phi.def = v
              \/ \E j \in DOMAIN prog.body[c] : prog.body[c][j].def = v
        BY <1>3, <3>3 DEF DefinedBefore
      <3>5. c \in B
        BY <1>g, <3>1, <3>4, Dominators DEF B
      <3>6. c \in DefinedIn(v)
        BY <3>4, <3>5 DEF DefinedIn
      <3> QED
        BY <1>3, <3>6
    <2>2. TrueIn(v) \subseteq {}
      BY <2>1, LiveLeast
    <2> QED
      BY <2>2
  <1> QED
    BY <1>1, <1>2, <1>3

-----------------------------------------------------------------------------
(* No dead value is called live: the invariant                             *)

(* Only live values are in the sets, at any time.                          *)
OnlyLive ==
  \A b \in B :
    /\ \A v \in liveIn[b] : includeVal(v) /\ (b \in TrueIn(v) \/ v \in phiDefs(b))
    /\ \A v \in liveOut[b] : includeVal(v) /\ b \in TrueOut(v)

Sets ==
  /\ liveIn = [b \in B |-> liveIn[b]]
  /\ liveOut = [b \in B |-> liveOut[b]]

(* Before the earlier stack maps are removed nothing has been analysed.    *)
Begun ==
  IF pc = "start"
  THEN /\ SSA(WithoutStackmaps(prog))
       /\ \A b \in B : liveIn[b] = {} /\ liveOut[b] = {}
       /\ DOMAIN stackmaps = {}
  ELSE SSA(prog)

IInv == Begun /\ Sets /\ OnlyLive /\ RecordedAreDefined

(* The invariant holds when the passes begin.                              *)
LEMMA InvInit == Init => IInv
  <1> SUFFICES ASSUME Init PROVE IInv
    OBVIOUS
  <1>1. DOMAIN stackmaps = {}
    BY DEF Init
  <1>2. \A b \in B : liveIn[b] = {} /\ liveOut[b] = {}
    BY DEF Init
  <1>3. Sets
    BY DEF Init, Sets
  <1>4. Begun
    BY <1>1, <1>2 DEF Init, Begun
  <1> QED
    BY <1>1, <1>2, <1>3, <1>4 DEF IInv, OnlyLive, RecordedAreDefined

(* What is live depends on the function alone.                             *)
LEMMA SameFunction ==
  ASSUME prog' = prog
  PROVE  /\ B' = B
         /\ \A v : TrueIn(v)' = TrueIn(v) /\ TrueOut(v)' = TrueOut(v)
         /\ \A b : phiDefs(b)' = phiDefs(b)
         /\ \A v, at : DT_dominates(v, at)' <=> DT_dominates(v, at)
  <1>1. B' = B /\ \A b : phiDefs(b)' = phiDefs(b)
    BY DEF B, phiDefs
  <1>2. \A v, at : DT_dominates(v, at)' <=> DT_dominates(v, at)
    BY DEF DT_dominates
  <1>3. ASSUME NEW v
        PROVE  DefinedIn(v)' = DefinedIn(v) /\ UsedIn(v)' = UsedIn(v) /\ PassedOn(v)' = PassedOn(v)
    BY <1>1 DEF DefinedIn, UsedIn, PassedOn
  <1>4. ASSUME NEW v PROVE TrueIn(v)' = TrueIn(v)
    <2>1. PICK D, S : D = DefinedIn(v) /\ S = UsedIn(v) \cup PassedOn(v)
      OBVIOUS
    <2>2. TrueIn(v) =
            Reached(S \ D, {<<e[2], e[1]>> : e \in {e \in Graph[prog.graph] : e[1] \notin D}})
      BY <2>1 DEF TrueIn
    <2>3. D = DefinedIn(v)' /\ S = UsedIn(v)' \cup PassedOn(v)'
      BY <1>3, <2>1
    <2>4. TrueIn(v)' =
            Reached(S \ D, {<<e[2], e[1]>> : e \in {e \in Graph[prog'.graph] : e[1] \notin D}})
      BY <2>3 DEF TrueIn
    <2> QED
      BY <2>2, <2>4
  <1>5. ASSUME NEW v PROVE TrueOut(v)' = TrueOut(v)
    BY <1>1, <1>3, <1>4 DEF TrueOut
  <1> QED
    BY <1>1, <1>2, <1>4, <1>5

(* A step that leaves the function and the sets alone keeps the invariant. *)
LEMMA OtherStep ==
  ASSUME IInv, UNCHANGED <<prog, liveIn, liveOut, stackmaps>>,
         pc' = pc \/ (pc # "start" /\ pc' # "start")
  PROVE  IInv'
  <1>1. Begun'
    BY SameFunction DEF IInv, Begun
  <1>2. Sets' /\ OnlyLive'
    BY SameFunction DEF IInv, Sets, OnlyLive
  <1>3. RecordedAreDefined'
    BY SameFunction DEF IInv, RecordedAreDefined
  <1> QED
    BY <1>1, <1>2, <1>3 DEF IInv

(* removeOldStackmaps, before anything is analysed.                        *)
LEMMA RemoveInv ==
  ASSUME IInv, removeOldStackmaps
  PROVE  IInv'
  <1>1. /\ pc = "start" /\ pc' = "dag" /\ prog' = WithoutStackmaps(prog)
        /\ UNCHANGED <<liveIn, liveOut, stackmaps>>
    BY DEF removeOldStackmaps
  <1>2. prog'.graph = prog.graph
    BY <1>1 DEF WithoutStackmaps
  <1>3. B' = B
    BY <1>2 DEF B
  <1>4. /\ SSA(prog') /\ DOMAIN stackmaps = {}
        /\ \A b \in B : liveIn[b] = {} /\ liveOut[b] = {}
    BY <1>1 DEF IInv, Begun
  <1>5. Begun' /\ RecordedAreDefined'
    BY <1>1, <1>4 DEF Begun, RecordedAreDefined
  <1>6. Sets' /\ OnlyLive'
    BY <1>1, <1>3, <1>4 DEF IInv, Sets, OnlyLive
  <1> QED
    BY <1>5, <1>6 DEF IInv

(* What dagDFS finds at the end of a block is live there.                  *)
LEMMA DagLiveOutLive ==
  ASSUME SSA(prog), OnlyLive, NEW b \in B, NEW v \in DagLiveOut(b)
  PROVE  includeVal(v) /\ b \in TrueOut(v)
  <1>1. PICK s \in succ[prog.graph][b] \ {b} :
          v \in phiUses(b, s) \/ (v \in liveIn[s] /\ v \notin phiDefs(s) /\ includeVal(v))
    BY DEF DagLiveOut
  <1>2. CASE v \in phiUses(b, s)
    <2>1. includeVal(v) /\ \E phi \in prog.phis[s] : phi.from[b] = v
      BY <1>2 DEF phiUses
    <2>2. b \in PassedOn(v)
      BY <1>1, <2>1 DEF PassedOn
    <2> QED
      BY <2>1, <2>2 DEF TrueOut
  <1>3. CASE v \in liveIn[s] /\ v \notin phiDefs(s) /\ includeVal(v)
    <2>1. <<b, s>> \in Graph[prog.graph]
      BY <1>1, Successors DEF SSA, B
    <2>2. s \in B
      BY <2>1, Edges DEF SSA, B
    <2>3. s \in TrueIn(v)
      BY <1>3, <2>2 DEF OnlyLive
    <2> QED
      BY <1>3, <2>1, <2>3, LiveAtEnd
  <1> QED
    BY <1>1, <1>2, <1>3

(* And so is, into the block, what it finds there.                         *)
LEMMA DagLiveInLive ==
  ASSUME SSA(prog), OnlyLive, NEW b \in B,
         NEW v \in BeforeAll(prog.body[b], 1, DagLiveOut(b)) \cup phiDefs(b)
  PROVE  includeVal(v) /\ (b \in TrueIn(v) \/ v \in phiDefs(b))
  <1> DEFINE body == prog.body[b]
  <1>0. DOMAIN body = 1 .. Len(body) /\ Len(body) \in Nat
    BY DefinedAt
  <1>1. CASE v \in phiDefs(b)
    BY <1>1 DEF phiDefs
  <1>2. ASSUME includeVal(v), \E phi \in prog.phis[b] : phi.def = v PROVE v \in phiDefs(b)
    BY <1>2 DEF phiDefs
  <1>3. CASE v \in DagLiveOut(b) /\ \A i \in 1 .. Len(body) : body[i].def # v
    <2>1. includeVal(v) /\ b \in TrueOut(v)
      BY <1>3, DagLiveOutLive
    <2>2. b \notin DefinedIn(v) => b \in TrueIn(v)
      BY <2>1, LiveThrough
    <2>3. b \in DefinedIn(v) => \E phi \in prog.phis[b] : phi.def = v
      BY <1>0, <1>3 DEF DefinedIn
    <2> QED
      BY <1>2, <2>1, <2>2, <2>3
  <1>4. CASE includeVal(v) /\ \E i \in 1 .. Len(body) : /\ v \in body[i].ops
                                                        /\ \A j \in 1 .. (i - 1) : body[j].def # v
    <2>1. PICK i \in 1 .. Len(body) : v \in body[i].ops /\ \A j \in 1 .. (i - 1) : body[j].def # v
      BY <1>4
    <2>2. b \in UsedIn(v)
      BY <1>0, <2>1 DEF UsedIn
    <2>3. b \notin DefinedIn(v) => b \in TrueIn(v)
      BY <2>2, LiveStart
    <2>4. WellUsed(prog, v, <<b, i>>)
      BY <1>0, <2>1 DEF SSA, B
    <2>5. ASSUME NEW k \in DOMAIN body, body[k].def = v PROVE \E phi \in prog.phis[b] : phi.def = v
      <3>1. <<b, k>> \in Definitions(prog, v)
        BY <2>5, DefinedAt
      <3>2. /\ v \notin prog.args
            /\ \A p \in Definitions(prog, v) : p = <<b, k>>
        BY <1>4, <2>4, <3>1 DEF WellUsed
      <3>3. k \in Nat /\ i \in Nat /\ ~(k < i)
        BY <1>0, <2>1, <2>5
      <3>4. \A c \in dominators[prog.graph][b] : c \in B
        BY Dominators DEF SSA, B
      <3>5. <<b, i>>[1] = b /\ <<b, i>>[2] = i
        OBVIOUS
      <3>6. ASSUME NEW c \in dominators[prog.graph][b], NEW j \in DOMAIN prog.body[c],
                   prog.body[c][j].def = v, c = b => j < i
            PROVE  FALSE
        <4>1. <<c, j>> \in Definitions(prog, v)
          BY <3>4, <3>6, DefinedAt
        <4>2. <<c, j>> = <<b, k>>
          BY <3>2, <4>1
        <4>3. c = b /\ j = k
          BY <4>2
        <4> QED
          BY <3>3, <3>6, <4>3
      <3>7. DefinedBefore(prog, v, <<b, i>>)
        BY <1>4, <2>4 DEF WellUsed
      <3>8. PICK c \in dominators[prog.graph][b] : \E phi \in prog.phis[c] : phi.def = v
        BY <3>2, <3>5, <3>6, <3>7 DEF DefinedBefore
      <3>9. <<c, 0>> \in Definitions(prog, v)
        BY <3>4, <3>8, DefinedAt
      <3>10. <<c, 0>> = <<b, k>>
        BY <3>2, <3>9
      <3>11. c = b
        BY <3>10
      <3> QED
        BY <3>8, <3>11
    <2>6. b \in DefinedIn(v) => \E phi \in prog.phis[b] : phi.def = v
      BY <2>5 DEF DefinedIn
    <2> QED
      BY <1>2, <1>4, <2>3, <2>6
  <1> QED
    BY <1>1, <1>3, <1>4 DEF BeforeAll

(* One block of dagDFS.                                                    *)
LEMMA DagInv ==
  ASSUME IInv, NEW b \in B, dagDFS(b)
  PROVE  IInv'
  <1>1. /\ prog' = prog /\ pc' = pc /\ pc = "dag" /\ stackmaps' = stackmaps
        /\ liveOut' = [liveOut EXCEPT ![b] = DagLiveOut(b)]
        /\ liveIn' = [liveIn EXCEPT ![b] =
                        BeforeAll(prog.body[b], 1, DagLiveOut(b)) \cup phiDefs(b)]
    BY DEF dagDFS
  <1>2. SSA(prog) /\ Sets /\ OnlyLive
    BY <1>1 DEF IInv, Begun
  <1>3. PICK In, Out : /\ In = BeforeAll(prog.body[b], 1, DagLiveOut(b)) \cup phiDefs(b)
                       /\ Out = DagLiveOut(b)
    OBVIOUS
  <1>4. /\ \A v \in Out : includeVal(v) /\ b \in TrueOut(v)
        /\ \A v \in In : includeVal(v) /\ (b \in TrueIn(v) \/ v \in phiDefs(b))
    BY <1>2, <1>3, DagLiveOutLive, DagLiveInLive
  <1>5. liveOut' = [liveOut EXCEPT ![b] = Out] /\ liveIn' = [liveIn EXCEPT ![b] = In]
    BY <1>1, <1>3
  <1>6. /\ liveIn'[b] = In /\ \A c \in B \ {b} : liveIn'[c] = liveIn[c]
        /\ liveOut'[b] = Out /\ \A c \in B \ {b} : liveOut'[c] = liveOut[c]
        /\ liveIn' = [c \in B |-> liveIn'[c]] /\ liveOut' = [c \in B |-> liveOut'[c]]
    BY <1>2, <1>5 DEF Sets
  <1>7. OnlyLive'
    <2>1. ASSUME NEW c \in B
          PROVE  /\ \A v \in liveIn'[c] : includeVal(v) /\ (c \in TrueIn(v) \/ v \in phiDefs(c))
                 /\ \A v \in liveOut'[c] : includeVal(v) /\ c \in TrueOut(v)
      <3>1. CASE c = b
        BY <1>4, <1>6, <3>1
      <3>2. CASE c # b
        BY <1>2, <1>6, <3>2 DEF OnlyLive
      <3> QED
        BY <3>1, <3>2
    <2> QED
      BY <1>1, <2>1, SameFunction DEF OnlyLive
  <1>8. Sets' /\ Begun' /\ RecordedAreDefined'
    BY <1>1, <1>6, SameFunction DEF IInv, Sets, Begun, RecordedAreDefined
  <1> QED
    BY <1>7, <1>8 DEF IInv

(* A value that propagateValues hands down is live in the whole loop.      *)
LEMMA SpreadLive ==
  ASSUME SSA(prog), OnlyLive, NEW h \in B, NEW b \in Children(h), NEW v \in LiveLoop(h)
  PROVE  includeVal(v) /\ b \in TrueIn(v) /\ b \in TrueOut(v)
  <1>1. h \in Headers(prog.graph) /\ b \in loops[prog.graph][h]
    BY DEF Children, isLoopHeader
  <1>2. v \in liveIn[h] /\ v \notin phiDefs(h) /\ includeVal(v)
    BY DEF LiveLoop, PhisSeen
  <1>3. h \in TrueIn(v)
    BY <1>2 DEF OnlyLive
  <1> QED
    BY <1>1, <1>2, <1>3, LiveInLoop

(* One loop of propagateValues.                                            *)
LEMMA PropagateInv ==
  ASSUME IInv, NEW h \in B, propagateValues(h)
  PROVE  IInv'
  <1>1. /\ prog' = prog /\ pc' = pc /\ pc = "propagate" /\ stackmaps' = stackmaps
        /\ liveIn' = Spread(liveIn, h) /\ liveOut' = Spread(liveOut, h)
    BY DEF propagateValues
  <1>2. SSA(prog) /\ Sets /\ OnlyLive
    BY <1>1 DEF IInv, Begun
  <1>3. DOMAIN liveIn = B /\ DOMAIN liveOut = B
    BY <1>2 DEF Sets
  <1>4. /\ liveIn' = [b \in B |-> IF b \in Children(h)
                                  THEN liveIn[b] \cup LiveLoop(h) ELSE liveIn[b]]
        /\ liveOut' = [b \in B |-> IF b \in Children(h)
                                   THEN liveOut[b] \cup LiveLoop(h) ELSE liveOut[b]]
    BY <1>1, <1>3 DEF Spread
  <1>5. OnlyLive'
    <2>1. ASSUME NEW b \in B
          PROVE  /\ \A v \in liveIn'[b] : includeVal(v) /\ (b \in TrueIn(v) \/ v \in phiDefs(b))
                 /\ \A v \in liveOut'[b] : includeVal(v) /\ b \in TrueOut(v)
      <3>1. /\ \A v \in liveIn[b] : includeVal(v) /\ (b \in TrueIn(v) \/ v \in phiDefs(b))
            /\ \A v \in liveOut[b] : includeVal(v) /\ b \in TrueOut(v)
        BY <1>2 DEF OnlyLive
      <3>2. b \in Children(h) =>
              \A v \in LiveLoop(h) : includeVal(v) /\ b \in TrueIn(v) /\ b \in TrueOut(v)
        BY <1>2, SpreadLive
      <3> QED
        BY <1>4, <3>1, <3>2
    <2> QED
      BY <1>1, <2>1, SameFunction DEF OnlyLive
  <1>6. Sets' /\ Begun' /\ RecordedAreDefined'
    BY <1>1, <1>4, SameFunction DEF IInv, Sets, Begun, RecordedAreDefined
  <1> QED
    BY <1>5, <1>6 DEF IInv

(* What getLiveValues returns for a call is defined there.                 *)
LEMMA LiveAcrossDefined ==
  ASSUME SSA(prog), OnlyLive, NEW b \in B, NEW i \in DOMAIN prog.body[b],
         NEW v \in getLiveValues(b, i)
  PROVE  DefinedBefore(prog, v, <<b, i>>)
  <1> DEFINE body == prog.body[b]
  <1>0. DOMAIN body = 1 .. Len(body) /\ Len(body) \in Nat /\ i \in 1 .. Len(body)
    BY DefinedAt
  <1>a. <<b, i>>[1] = b /\ <<b, i>>[2] = i
    OBVIOUS
  <1>b. body[i].def # v
    BY DEF getLiveValues
  <1>c. b \in dominators[prog.graph][b]
    BY Dominators DEF SSA, B
  <1>1. CASE v \in liveOut[b] /\ \A j \in i + 1 .. Len(body) : body[j].def # v
    <2>1. includeVal(v) /\ b \in TrueOut(v)
      BY <1>1 DEF OnlyLive
    <2>2. CASE b \notin DefinedIn(v)
      <3>1. b \in TrueIn(v)
        BY <2>1, <2>2, LiveThrough
      <3> QED
        BY <2>1, <3>1, LiveMeansDefined
    <2>3. CASE \E phi \in prog.phis[b] : phi.def = v
      BY <1>a, <1>c, <2>3 DEF DefinedBefore
    <2>4. CASE \E j \in DOMAIN body : body[j].def = v
      <3>1. PICK j \in DOMAIN body : body[j].def = v
        BY <2>4
      <3>2. j < i
        BY <1>0, <1>1, <1>b, <3>1
      <3> QED
        BY <1>a, <1>c, <3>1, <3>2 DEF DefinedBefore
    <2> QED
      BY <2>2, <2>3, <2>4 DEF DefinedIn
  <1>2. CASE /\ includeVal(v)
             /\ \E k \in i + 1 .. Len(body) : /\ v \in body[k].ops
                                              /\ \A j \in i + 1 .. (k - 1) : body[j].def # v
    <2>1. PICK k \in i + 1 .. Len(body) : /\ v \in body[k].ops
                                          /\ \A j \in i + 1 .. (k - 1) : body[j].def # v
      BY <1>2
    <2>2. k \in DOMAIN body /\ <<b, k>>[1] = b /\ <<b, k>>[2] = k
      BY <1>0, <2>1
    <2>3. DefinedBefore(prog, v, <<b, k>>)
      BY <1>2, <2>1, <2>2 DEF SSA, B, WellUsed
    <2>4. ASSUME NEW c \in dominators[prog.graph][b], NEW j \in DOMAIN prog.body[c],
                 prog.body[c][j].def = v, c = b => j < k
          PROVE  c = b => j < i
      <3> SUFFICES ASSUME c = b PROVE j < i
        OBVIOUS
      <3>1. j \in 1 .. Len(body) /\ j < k /\ body[j].def = v
        BY <1>0, <2>4
      <3>2. j # i /\ ~(j \in i + 1 .. (k - 1))
        BY <1>b, <2>1, <3>1
      <3> QED
        BY <1>0, <2>1, <3>1, <3>2
    <2> QED
      BY <1>a, <2>2, <2>3, <2>4 DEF DefinedBefore
  <1> QED
    BY <1>1, <1>2 DEF getLiveValues, BeforeAll

(* The stack maps describe what is live across the calls, and hidden       *)
(* values whose definitions dominate them.                                 *)
LEMMA InsertInv ==
  ASSUME IInv, InsertStackMaps
  PROVE  IInv'
  <1>1. /\ prog' = prog /\ pc = "insert" /\ pc' = "done" /\ UNCHANGED <<liveIn, liveOut>>
        /\ stackmaps' = [at \in CallSites |-> StackMapAt(at)]
    BY DEF InsertStackMaps
  <1>2. SSA(prog) /\ OnlyLive
    BY <1>1 DEF IInv, Begun
  <1>3. ASSUME NEW at \in CallSites, NEW v \in StackMapAt(at) PROVE DT_dominates(v, at)
    <2>1. at \in Positions
      BY DEF CallSites
    <2>2. PICK b \in B : at \in {<<b, i>> : i \in DOMAIN prog.body[b]}
      BY <2>1 DEF Positions
    <2>3. PICK i \in DOMAIN prog.body[b] : at = <<b, i>>
      BY <2>2
    <2>4. CASE v \in getLiveValues(at[1], at[2])
      <3>1. v \in getLiveValues(b, i)
        BY <2>3, <2>4
      <3> QED
        BY <1>2, <2>3, <3>1, LiveAcrossDefined DEF DT_dominates
    <2>5. CASE v \in HiddenAt(at, getLiveValues(at[1], at[2]))
      BY <2>5 DEF HiddenAt
    <2> QED
      BY <2>4, <2>5 DEF StackMapAt
  <1>4. RecordedAreDefined'
    BY <1>1, <1>3, SameFunction DEF RecordedAreDefined
  <1>5. Sets' /\ OnlyLive'
    BY <1>1, SameFunction DEF IInv, Sets, OnlyLive
  <1>6. Begun'
    BY <1>1, <1>2 DEF Begun
  <1> QED
    BY <1>4, <1>5, <1>6 DEF IInv

(* Every step of the passes keeps the invariant.                           *)
LEMMA InvNext == IInv /\ [Next]_vars => IInv'
  <1> SUFFICES ASSUME IInv, [Next]_vars PROVE IInv'
    OBVIOUS
  <1>1. CASE removeOldStackmaps
    BY <1>1, RemoveInv
  <1>2. CASE \E b \in B : dagDFS(b)
    BY <1>2, DagInv
  <1>3. CASE constructLoopNestingForest
    BY <1>3, OtherStep DEF constructLoopNestingForest
  <1>4. CASE loopTreeDFS
    BY <1>4, OtherStep DEF loopTreeDFS
  <1>5. CASE \E loop \in B : propagateValues(loop)
    BY <1>5, PropagateInv
  <1>6. CASE InsertStackMaps
    BY <1>6, InsertInv
  <1>7. CASE UNCHANGED vars
    BY <1>7, OtherStep DEF vars
  <1> QED
    BY <1>1, <1>2, <1>3, <1>4, <1>5, <1>6, <1>7 DEF Next

(* No dead value is called live, in any function in SSA form               *)
(* (LiveValues.cpp:230-373).                                               *)
THEOREM NoDeadValue == Spec => []LiveSetsPrecise
  <1>1. IInv => LiveSetsPrecise
    BY DEF IInv, OnlyLive, LiveSetsPrecise
  <1> QED
    BY <1>1, InvInit, InvNext, PTL DEF Spec

(* Whatever a stack map records is defined on every path to its call, as   *)
(* LLVM demands of a use (InsertStackMaps.cpp:90-168).                     *)
THEOREM RecordedValuesDefined == Spec => []RecordedAreDefined
  <1>1. IInv => RecordedAreDefined
    BY DEF IInv
  <1> QED
    BY <1>1, InvInit, InvNext, PTL DEF Spec

-----------------------------------------------------------------------------
(* No live value is missed                                                 *)

(* What dagDFS has done for a block it has visited.                        *)
DagDone(b) ==
  /\ \A s \in succ[prog.graph][b] \ {b} : phiUses(b, s) \subseteq liveOut[b]
  /\ \A s \in succ[prog.graph][b] : <<b, s>> \notin Back =>
       /\ s \in visited
       /\ \A v \in liveIn[s] : includeVal(v) /\ v \notin phiDefs(s) => v \in liveOut[b]
  /\ BeforeAll(prog.body[b], 1, liveOut[b]) \subseteq liveIn[b]

(* The blocks of T are some of those v is found to be live into.  With     *)
(* them are the blocks that use v and, along forward edges, those from     *)
(* which T is reached.                                                     *)
Base(v, T) ==
  /\ \A b \in T : b \notin DefinedIn(v) /\ v \in liveIn[b]
  /\ \A b \in UsedIn(v) \cup PassedOn(v) : b \notin DefinedIn(v) => b \in T
  /\ \A b \in PassedOn(v) : v \in liveOut[b]
  /\ \A x, y \in B : <<x, y>> \in Graph[prog.graph] \ Back /\ y \in T =>
                       v \in liveOut[x] /\ (x \notin DefinedIn(v) => x \in T)

Bases == \A v \in Values \ SelfLoopOperands : \E T \in SUBSET B : Base(v, T)

(* What is live into the header of a loop has been handed to the loop.     *)
Handed(h) ==
  \A v \in liveIn[h] :
    includeVal(v) /\ v \notin phiDefs(h) \cup NestPhis(h) =>
      \A b \in Children(h) : v \in liveIn[b] /\ v \in liveOut[b]

(* A loop around h, or that of h, has yet to be treated.                   *)
Todo(h) ==
  \E k \in remaining \cup forest : k \in Headers(prog.graph) /\ h \in loops[prog.graph][k]

HandedDown == \A h \in Headers(prog.graph) : Todo(h) \/ Handed(h)

(* The loops that are treated in turn are of one nest, and the phis that   *)
(* are left out are phis of that nest; at its root there are none.         *)
OneNest ==
  /\ \A k \in remaining : phiDefined \subseteq NestPhis(k)
  /\ \A k, r \in remaining : k # r => /\ Root(k) = Root(r)
                                      /\ k \in Headers(prog.graph)

(* The second part of the invariant: what each pass has achieved so far.   *)
CInv ==
  /\ pc \in {"start", "dag", "insert"} => remaining = {} /\ forest = {}
  /\ pc = "start" => visited = {}
  /\ pc = "dag" => \A b \in visited : DagDone(b)
  /\ pc \in {"propagate", "insert"} => Bases /\ HandedDown /\ OneNest

(* Loops and the values that are left out depend on the function alone.    *)
LEMMA SameLoops ==
  ASSUME SSA(prog), prog' = prog
  PROVE  /\ Back' = Back /\ Values' = Values /\ SelfLoopOperands' = SelfLoopOperands
         /\ \A v : /\ DefinedIn(v)' = DefinedIn(v)
                   /\ UsedIn(v)' = UsedIn(v)
                   /\ PassedOn(v)' = PassedOn(v)
         /\ \A b, s : phiUses(b, s)' = phiUses(b, s)
         /\ \A b : Children(b)' = Children(b)
         /\ \A b : depth(b)' = depth(b)
         /\ \A b : Root(b)' = Root(b)
         /\ \A b : NestPhis(b)' = NestPhis(b)
  <1>1. B' = B /\ \A b : phiDefs(b)' = phiDefs(b)
    BY SameFunction
  <1>2. Back' = Back /\ \A b, s : phiUses(b, s)' = phiUses(b, s)
    BY DEF Back, phiUses
  <1>3. SelfLoopOperands' = SelfLoopOperands
    BY <1>1 DEF SelfLoopOperands
  <1>4. Values' = Values
    <2>1. Positions' = Positions
      BY <1>1 DEF Positions
    <2>2. \A p : Inst(p)' = Inst(p)
      BY DEF Inst
    <2> QED
      BY <1>1, <2>1, <2>2 DEF Values
  <1>5. ASSUME NEW v
        PROVE  DefinedIn(v)' = DefinedIn(v) /\ UsedIn(v)' = UsedIn(v) /\ PassedOn(v)' = PassedOn(v)
    BY <1>1 DEF DefinedIn, UsedIn, PassedOn
  <1>6. ASSUME NEW b PROVE depth(b)' = depth(b) /\ isLoopHeader(b)' = isLoopHeader(b)
    BY DEF depth, isLoopHeader
  <1>7. ASSUME NEW b PROVE Children(b)' = Children(b)
    BY <1>6 DEF Children
  <1>8. ASSUME NEW b PROVE Root(b)' = Root(b)
    <2>1. PICK g : g = prog.graph
      OBVIOUS
    <2>2. Root(b) = IF getLoopDepth[g][b] = 0 THEN b
                    ELSE CHOOSE h \in Headers(g) : getLoopDepth[g][h] = 1 /\ b \in loops[g][h]
      BY <2>1 DEF Root, depth
    <2>3. Root(b)' = IF getLoopDepth[g][b] = 0 THEN b
                     ELSE CHOOSE h \in Headers(g) : getLoopDepth[g][h] = 1 /\ b \in loops[g][h]
      BY <2>1 DEF Root, depth
    <2> QED
      BY <2>2, <2>3
  <1>9. ASSUME NEW b PROVE NestPhis(b)' = NestPhis(b)
    BY <1>1, <1>6, <1>8 DEF NestPhis, Innermost
  <1> QED
    BY <1>2, <1>3, <1>4, <1>5, <1>6, <1>7, <1>8, <1>9

(* A self-loop is a back edge.                                             *)
LEMMA SelfLoopsAreBack ==
  ASSUME SSA(prog), NEW b, <<b, b>> \in Graph[prog.graph]
  PROVE  <<b, b>> \in Back
  <1>1. prog.graph \in Names
    BY DEF SSA
  <1>2. b \in Blocks[prog.graph]
    BY <1>1, Edges
  <1>3. b \in dominators[prog.graph][b]
    BY <1>1, <1>2, Dominators
  <1>4. <<b, b>>[1] = b /\ <<b, b>>[2] = b
    OBVIOUS
  <1> QED
    BY <1>1, <1>3, <1>4 DEF Back, FindFunctionBackedges

(* Along a back edge one comes to the header of a loop from within it.     *)
LEMMA BackIntoHeader ==
  ASSUME SSA(prog), NEW x, NEW y, <<x, y>> \in Back
  PROVE  y \in Headers(prog.graph) /\ x \in loops[prog.graph][y]
  <1>1. PICK g \in Names : g = prog.graph
    BY DEF SSA
  <1>2. <<x, y>> \in FindFunctionBackedges[g] /\ <<x, y>>[1] = x /\ <<x, y>>[2] = y
    BY <1>1 DEF Back
  <1>3. y \in Headers(g)
    BY <1>2 DEF Headers, loops
  <1>4. x \in Latches(g, y)
    BY <1>2 DEF Latches
  <1> QED
    BY <1>1, <1>3, <1>4, LoopClosed

(* dagDFS does for a block what it must, and leaves the others alone: no   *)
(* forward edge leads from a visited block to one that is not.             *)
LEMMA DagDoneNext ==
  ASSUME IInv, NEW b \in B, dagDFS(b), \A c \in visited : DagDone(c)
  PROVE  \A c \in visited' : DagDone(c)'
  <1>1. /\ prog' = prog /\ pc = "dag" /\ b \notin visited /\ visited' = visited \cup {b}
        /\ \A s \in succ[prog.graph][b] : <<b, s>> \in Back \/ s \in visited
        /\ liveOut' = [liveOut EXCEPT ![b] = DagLiveOut(b)]
        /\ liveIn' = [liveIn EXCEPT ![b] =
                        BeforeAll(prog.body[b], 1, DagLiveOut(b)) \cup phiDefs(b)]
    BY DEF dagDFS
  <1>2. SSA(prog) /\ Sets
    BY <1>1 DEF IInv, Begun
  <1>3. /\ liveOut'[b] = DagLiveOut(b)
        /\ liveIn'[b] = BeforeAll(prog.body[b], 1, DagLiveOut(b)) \cup phiDefs(b)
        /\ \A c : c # b => liveIn'[c] = liveIn[c] /\ liveOut'[c] = liveOut[c]
    <2>1. DOMAIN liveIn = B /\ DOMAIN liveOut = B
      BY <1>2 DEF Sets
    <2> QED
      BY <1>1, <2>1
  <1>4. /\ Back' = Back
        /\ \A c, s : phiUses(c, s)' = phiUses(c, s)
        /\ \A c : phiDefs(c)' = phiDefs(c)
    BY <1>1, <1>2, SameLoops, SameFunction
  <1>5. ASSUME NEW c \in visited PROVE DagDone(c)'
    <2>1. DagDone(c) /\ c # b
      BY <1>1, <1>5
    <2>2. liveIn'[c] = liveIn[c] /\ liveOut'[c] = liveOut[c]
      BY <1>3, <2>1
    <2>3. \A s \in succ[prog.graph][c] \ {c} : phiUses(c, s) \subseteq liveOut[c]
      BY <2>1 DEF DagDone
    <2>4. ASSUME NEW s \in succ[prog.graph][c], <<c, s>> \notin Back
          PROVE  /\ s \in visited'
                 /\ \A v \in liveIn'[s] : includeVal(v) /\ v \notin phiDefs(s) => v \in liveOut'[c]
      <3>1. /\ s \in visited
            /\ \A v \in liveIn[s] : includeVal(v) /\ v \notin phiDefs(s) => v \in liveOut[c]
        BY <2>1, <2>4 DEF DagDone
      <3>2. liveIn'[s] = liveIn[s]
        BY <1>1, <1>3, <3>1
      <3> QED
        BY <1>1, <2>2, <3>1, <3>2
    <2>5. BeforeAll(prog.body[c], 1, liveOut[c]) \subseteq liveIn[c]
      BY <2>1 DEF DagDone
    <2>6. BeforeAll(prog'.body[c], 1, liveOut'[c]) \subseteq liveIn'[c]
      BY <1>1, <2>2, <2>5
    <2> QED
      BY <1>1, <1>4, <2>2, <2>3, <2>4, <2>6 DEF DagDone
  <1>6. DagDone(b)'
    <2>1. \A s \in succ[prog.graph][b] \ {b} : phiUses(b, s) \subseteq liveOut'[b]
      BY <1>3 DEF DagLiveOut
    <2>2. ASSUME NEW s \in succ[prog.graph][b], <<b, s>> \notin Back
          PROVE  /\ s \in visited'
                 /\ \A v \in liveIn'[s] : includeVal(v) /\ v \notin phiDefs(s) => v \in liveOut'[b]
      <3>1. s \in visited /\ s # b
        BY <1>1, <2>2
      <3>2. liveIn'[s] = liveIn[s]
        BY <1>3, <3>1
      <3>3. ASSUME NEW v \in liveIn[s], includeVal(v), v \notin phiDefs(s)
            PROVE  v \in DagLiveOut(b)
        BY <2>2, <3>1, <3>3 DEF DagLiveOut
      <3> QED
        BY <1>1, <1>3, <3>1, <3>2, <3>3
    <2>3. BeforeAll(prog.body[b], 1, liveOut'[b]) \subseteq liveIn'[b]
      BY <1>3
    <2>4. BeforeAll(prog'.body[b], 1, liveOut'[b]) \subseteq liveIn'[b]
      BY <1>1, <2>3
    <2> QED
      BY <1>1, <1>4, <2>1, <2>2, <2>4 DEF DagDone
  <1> QED
    BY <1>1, <1>5, <1>6

(* After the first pass.                                                   *)
LEMMA DagGivesBase ==
  ASSUME SSA(prog), \A b \in B : DagDone(b), NEW v \in Values \ SelfLoopOperands
  PROVE  \E T \in SUBSET B : Base(v, T)
  <1> DEFINE T == {b \in B : b \notin DefinedIn(v) /\ v \in liveIn[b]}
  <1>0. includeVal(v)
    BY DEF Values
  <1>g. PICK g \in Names : g = prog.graph /\ B = Blocks[g]
    BY DEF SSA, B
  <1>1. ASSUME NEW b \in PassedOn(v) PROVE b \in B /\ v \in liveOut[b]
    <2>1. b \in B
      BY DEF PassedOn
    <2>2. PICK s \in succ[prog.graph][b] : \E phi \in prog.phis[s] : phi.from[b] = v
      BY DEF PassedOn
    <2>3. PICK phi \in prog.phis[s] : phi.from[b] = v
      BY <2>2
    <2>4. b \in DOMAIN phi.from
      BY <2>1, <2>2, <2>3 DEF SSA, B
    <2>5. s # b
      <3> SUFFICES ASSUME s = b PROVE v \in SelfLoopOperands
        OBVIOUS
      <3> QED
        BY <2>1, <2>3, <2>4 DEF SelfLoopOperands
    <2>6. v \in phiUses(b, s)
      BY <1>0, <2>3 DEF phiUses
    <2>7. phiUses(b, s) \subseteq liveOut[b]
      BY <2>1, <2>2, <2>5 DEF DagDone
    <2> QED
      BY <2>1, <2>6, <2>7
  <1>2. ASSUME NEW b \in B, b \notin DefinedIn(v), b \in UsedIn(v) \/ v \in liveOut[b]
        PROVE  v \in liveIn[b]
    <2> DEFINE body == prog.body[b]
    <2>1. DOMAIN body = 1 .. Len(body) /\ Len(body) \in Nat
      BY DefinedAt
    <2>2. \A i \in 1 .. Len(body) : body[i].def # v
      BY <1>2, <2>1 DEF DefinedIn
    <2>3. v \in BeforeAll(body, 1, liveOut[b])
      <3>1. CASE v \in liveOut[b]
        BY <2>2, <3>1 DEF BeforeAll
      <3>2. CASE b \in UsedIn(v)
        <4>1. PICK i \in 1 .. Len(body) : v \in body[i].ops
          BY <2>1, <3>2 DEF UsedIn
        <4>2. \A j \in 1 .. (i - 1) : body[j].def # v
          BY <2>1, <2>2, <4>1
        <4> QED
          BY <1>0, <4>1, <4>2 DEF BeforeAll
      <3> QED
        BY <1>2, <3>1, <3>2
    <2> QED
      BY <2>3 DEF DagDone
  <1>3. ASSUME NEW x \in B, NEW y \in B, <<x, y>> \in Graph[prog.graph] \ Back, y \in T
        PROVE  v \in liveOut[x]
    <2>1. y \in succ[prog.graph][x]
      BY <1>3, <1>g, Successors
    <2>2. v \notin phiDefs(y)
      BY <1>3 DEF DefinedIn, phiDefs
    <2>3. \A w \in liveIn[y] : includeVal(w) /\ w \notin phiDefs(y) => w \in liveOut[x]
      BY <1>3, <2>1 DEF DagDone
    <2> QED
      BY <1>0, <1>3, <2>2, <2>3
  <1>4. ASSUME NEW b \in UsedIn(v) \cup PassedOn(v), b \notin DefinedIn(v) PROVE b \in T
    <2>1. b \in B /\ (b \in UsedIn(v) \/ v \in liveOut[b])
      BY <1>1 DEF UsedIn
    <2> QED
      BY <1>2, <1>4, <2>1
  <1>5. ASSUME NEW x \in B, NEW y \in B, <<x, y>> \in Graph[prog.graph] \ Back, y \in T,
               x \notin DefinedIn(v)
        PROVE  x \in T
    BY <1>2, <1>3, <1>5
  <1>6. T \in SUBSET B /\ \A b \in T : b \notin DefinedIn(v) /\ v \in liveIn[b]
    OBVIOUS
  <1> HIDE DEF T
  <1>7. Base(v, T)
    BY <1>1, <1>3, <1>4, <1>5, <1>6 DEF Base
  <1> QED
    BY <1>6, <1>7

(* What the first pass found is kept when the sets grow.                   *)
LEMMA BasesGrow ==
  ASSUME SSA(prog), prog' = prog, Bases,
         \A b \in B : liveIn[b] \subseteq liveIn'[b] /\ liveOut[b] \subseteq liveOut'[b]
  PROVE  Bases'
  <1>1. B' = B /\ Back' = Back /\ Values' = Values /\ SelfLoopOperands' = SelfLoopOperands
    BY SameFunction, SameLoops
  <1>2. ASSUME NEW v \in Values \ SelfLoopOperands PROVE \E T \in SUBSET B : Base(v, T)'
    <2>1. PICK T \in SUBSET B : Base(v, T)
      BY DEF Bases
    <2>2. PICK D, U, P : D = DefinedIn(v) /\ U = UsedIn(v) /\ P = PassedOn(v)
      OBVIOUS
    <2>3. D = DefinedIn(v)' /\ U = UsedIn(v)' /\ P = PassedOn(v)'
      BY <2>2, SameLoops
    <2>4. P \subseteq B
      BY <2>2 DEF PassedOn
    <2>5. /\ \A b \in T : b \notin D /\ v \in liveIn[b]
          /\ \A b \in U \cup P : b \notin D => b \in T
          /\ \A b \in P : v \in liveOut[b]
          /\ \A x, y \in B : <<x, y>> \in Graph[prog.graph] \ Back /\ y \in T =>
                               v \in liveOut[x] /\ (x \notin D => x \in T)
      BY <2>1, <2>2 DEF Base
    <2>6. /\ \A b \in T : b \notin D /\ v \in liveIn'[b]
          /\ \A b \in P : v \in liveOut'[b]
          /\ \A x, y \in B : <<x, y>> \in Graph[prog.graph] \ Back /\ y \in T =>
                               v \in liveOut'[x] /\ (x \notin D => x \in T)
      BY <2>4, <2>5
    <2>7. Base(v, T)'
      BY <1>1, <2>3, <2>5, <2>6 DEF Base
    <2> QED
      BY <2>7
  <1> QED
    BY <1>1, <1>2 DEF Bases

(* The phis of a nest, seen from a loop within it.                         *)
LEMMA NestPhisWithin ==
  ASSUME SSA(prog), NEW h \in Headers(prog.graph), NEW c \in loops[prog.graph][h],
         depth(h) < depth(c)
  PROVE  /\ NestPhis(h) \subseteq NestPhis(c) /\ phiDefs(h) \subseteq NestPhis(c)
         /\ Root(c) = Root(h)
  <1>1. Root(c) = Root(h)
    BY RootIs
  <1>2. depth(h) \in Nat /\ depth(c) \in Nat
    BY AroundWithin, DepthIs DEF SSA, depth
  <1>3. ASSUME NEW j \in Headers(prog.graph), depth(j) <= depth(h)
        PROVE  depth(j) <= depth(c) /\ ~Innermost(c, j)
    <2>1. depth(j) \in Nat
      BY HeaderHasLatch, DepthIs DEF SSA, depth
    <2> QED
      BY <1>2, <1>3, <2>1 DEF Innermost
  <1>4. NestPhis(h) \subseteq NestPhis(c)
    BY <1>1, <1>3 DEF NestPhis
  <1>5. phiDefs(h) \subseteq NestPhis(c)
    BY <1>1, <1>2, <1>3 DEF NestPhis
  <1> QED
    BY <1>1, <1>4, <1>5

(* The children of a loop that are loops.                                  *)
LEMMA ChildLoops ==
  ASSUME SSA(prog), NEW h \in B, NEW c \in Children(h) \ {h}, isLoopHeader(c)
  PROVE  /\ h \in Headers(prog.graph) /\ c \in Headers(prog.graph) /\ c \in loops[prog.graph][h]
         /\ depth(h) < depth(c)
  <1>1. h \in Headers(prog.graph) /\ c \in Headers(prog.graph) /\ c \in loops[prog.graph][h]
    BY DEF Children, isLoopHeader
  <1> QED
    BY <1>1, Deeper DEF SSA, depth

(* Inner loops are of the nest of the loop they are in.                    *)
LEMMA OneNestNext ==
  ASSUME SSA(prog), OneNest, NEW h \in B, propagateValues(h)
  PROVE  OneNest'
  <1> DEFINE C == {b \in Children(h) \ {h} : isLoopHeader(b)}
  <1>1. /\ prog' = prog /\ h \in remaining
        /\ phiDefined' = phiDefined \cup phiDefs(h)
        /\ remaining' = (remaining \ {h}) \cup C
    BY DEF propagateValues, PhisSeen
  <1>2. ASSUME NEW c \in C
        PROVE  /\ NestPhis(h) \subseteq NestPhis(c) /\ phiDefs(h) \subseteq NestPhis(c)
               /\ Root(c) = Root(h)
               /\ c \in Headers(prog.graph) /\ h \in Headers(prog.graph)
    BY ChildLoops, NestPhisWithin
  <1>3. ASSUME NEW r \in remaining \ {h}
        PROVE  /\ Root(h) = Root(r) /\ phiDefined \subseteq NestPhis(r)
               /\ phiDefs(h) \subseteq NestPhis(r)
               /\ r \in Headers(prog.graph)
    <2>1. /\ Root(h) = Root(r) /\ phiDefined \subseteq NestPhis(r)
          /\ h \in Headers(prog.graph) /\ r \in Headers(prog.graph)
          /\ depth(h) <= depth(r)
      BY <1>1 DEF OneNest, propagateValues
    <2>2. ~Innermost(r, h)
      <3>1. SUFFICES ASSUME r \in loops[prog.graph][h], depth(h) = depth(r) PROVE FALSE
        BY DEF Innermost
      <3>2. depth(h) < depth(r) /\ depth(h) \in Nat
        BY <2>1, <3>1, Deeper, AroundWithin DEF SSA, depth
      <3> QED
        BY <3>1, <3>2
    <2>3. phiDefs(h) \subseteq NestPhis(r)
      BY <2>1, <2>2 DEF NestPhis
    <2> QED
      BY <2>1, <2>3
  <1>4. phiDefined \subseteq NestPhis(h)
    BY <1>1 DEF OneNest
  <1> HIDE DEF C
  <1>5. \A k \in remaining' : /\ phiDefined' \subseteq NestPhis(k)
                              /\ Root(k) = Root(h)
                              /\ k \in Headers(prog.graph)
    BY <1>1, <1>2, <1>3, <1>4
  <1> QED
    BY <1>1, <1>5, SameLoops DEF OneNest

(* A loop is handed what is live into its header.                          *)
LEMMA HandedDownNext ==
  ASSUME IInv, pc # "start", OneNest, HandedDown, NEW h \in B, propagateValues(h)
  PROVE  /\ HandedDown'
         /\ \A b \in B : liveIn[b] \subseteq liveIn'[b] /\ liveOut[b] \subseteq liveOut'[b]
  <1> DEFINE C == {b \in Children(h) \ {h} : isLoopHeader(b)}
  <1>0. SSA(prog) /\ Sets
    BY DEF IInv, Begun
  <1>1. /\ prog' = prog /\ h \in remaining /\ forest' = forest
        /\ remaining' = (remaining \ {h}) \cup C
        /\ liveIn' = Spread(liveIn, h) /\ liveOut' = Spread(liveOut, h)
    BY DEF propagateValues
  <1>2. ASSUME NEW b \in B
        PROVE  /\ liveIn'[b] = IF b \in Children(h) THEN liveIn[b] \cup LiveLoop(h) ELSE liveIn[b]
               /\ liveOut'[b] = IF b \in Children(h)
                                THEN liveOut[b] \cup LiveLoop(h) ELSE liveOut[b]
    <2>1. DOMAIN liveIn = B /\ DOMAIN liveOut = B
      BY <1>0 DEF Sets
    <2> QED
      BY <1>1, <2>1 DEF Spread
  <1>3. \A b \in B : liveIn[b] \subseteq liveIn'[b] /\ liveOut[b] \subseteq liveOut'[b]
    BY <1>2
  <1>4. \A k : /\ Children(k)' = Children(k)
               /\ NestPhis(k)' = NestPhis(k) /\ phiDefs(k)' = phiDefs(k)
    BY <1>0, <1>1, SameLoops, SameFunction
  <1>5. \A k : k \in B => Children(k) \subseteq B
    <2>1. ASSUME NEW k \in B, NEW b \in Children(k) PROVE b \in B
      <3>1. k \in Headers(prog.graph) /\ b \in loops[prog.graph][k]
        BY DEF Children, isLoopHeader
      <3> QED
        BY <1>0, <3>1, HeaderDominates DEF SSA, B
    <2> QED
      BY <2>1
  <1>6. ASSUME NEW k \in Headers(prog.graph), Handed(k), ~Todo(k) PROVE Handed(k)'
    <2>1. k \in B
      BY <1>0, HeaderHasLatch DEF SSA, B
    <2>2. k \notin Children(h)
      BY <1>1, <1>6 DEF Children, isLoopHeader, Todo
    <2>3. liveIn'[k] = liveIn[k]
      BY <1>2, <2>1, <2>2
    <2> QED
      BY <1>3, <1>4, <1>5, <1>6, <2>1, <2>3 DEF Handed
  <1>7. ASSUME h \in Headers(prog.graph) PROVE Handed(h)'
    <2>1. liveIn'[h] = liveIn[h]
      BY <1>2 DEF LiveLoop
    <2>2. phiDefined \subseteq NestPhis(h)
      BY <1>1 DEF OneNest
    <2>3. ASSUME NEW v \in liveIn[h], includeVal(v), v \notin phiDefs(h) \cup NestPhis(h)
          PROVE  v \in LiveLoop(h)
      BY <2>2, <2>3 DEF LiveLoop, PhisSeen
    <2> QED
      BY <1>2, <1>4, <1>5, <2>1, <2>3 DEF Handed
  <1>8. ASSUME NEW k \in Headers(prog.graph), Todo(k), k # h PROVE Todo(k)'
    <2>1. PICK j \in remaining \cup forest : j \in Headers(prog.graph) /\ k \in loops[prog.graph][j]
      BY <1>8 DEF Todo
    <2>2. CASE j # h
      BY <1>1, <2>1, <2>2 DEF Todo
    <2>3. CASE j = h
      <3>1. PICK g \in Names : g = prog.graph
        BY <1>0 DEF SSA
      <3>2. h \in Headers(g) /\ k \in Headers(g) /\ k \in loops[g][h]
        BY <1>8, <2>1, <2>3, <3>1
      <3>3. getLoopDepth[g][h] # getLoopDepth[g][k]
        <4>1. getLoopDepth[g][h] < getLoopDepth[g][k]
          BY <1>8, <3>2, Deeper
        <4>2. getLoopDepth[g][h] \in Nat
          BY <3>2, AroundWithin
        <4> QED
          BY <4>1, <4>2
      <3>4. PICK c \in Headers(g) : /\ k \in loops[g][c] /\ c \in loops[g][h] /\ c # h
                                    /\ getLoopDepth[g][c] = getLoopDepth[g][h] + 1
        BY <3>2, <3>3, NextHeader
      <3>5. c \in Children(h) /\ isLoopHeader(c)
        BY <3>1, <3>2, <3>4 DEF Children, isLoopHeader, depth
      <3> QED
        BY <1>1, <3>1, <3>4, <3>5 DEF Todo
    <2> QED
      BY <2>2, <2>3
  <1>9. ASSUME NEW k \in Headers(prog.graph) PROVE Todo(k)' \/ Handed(k)'
    <2>1. Todo(k) \/ Handed(k)
      BY DEF HandedDown
    <2> QED
      BY <1>6, <1>7, <1>8, <2>1
  <1> QED
    BY <1>1, <1>3, <1>9 DEF HandedDown

(* Handed from loop to loop, a value that is found live into a header      *)
(* comes to every block of the loop: take the innermost loop around the    *)
(* block that it has come to.                                              *)
LEMMA HandedThrough ==
  ASSUME SSA(prog), NEW v, includeVal(v), \A k \in Headers(prog.graph) : Handed(k),
         NEW h \in Headers(prog.graph), h \in TrueIn(v), v \in liveIn[h],
         NEW b \in loops[prog.graph][h], v \notin NestPhis(b)
  PROVE  v \in liveIn[b] /\ v \in liveOut[b]
  <1>g. PICK g \in Names : g = prog.graph
    BY DEF SSA
  <1> DEFINE D(x) == getLoopDepth[g][x]
             K == {k \in Headers(g) : b \in loops[g][k] /\ k \in loops[g][h] /\ v \in liveIn[k]}
             M == {D(b) - D(k) : k \in K}
  <1>0. b \in Blocks[g] /\ D(b) \in Nat
    BY <1>g, HeaderDominates, DepthIs
  <1>1. ASSUME NEW k \in K PROVE D(k) \in Nat \ {0} /\ D(k) <= D(b)
    BY AroundWithin
  <1>2. M \in SUBSET Nat
    BY <1>0, <1>1
  <1>3. h \in K
    BY <1>g, LoopClosed
  <1>4. PICK k \in K : \A j \in K : D(b) - D(k) <= D(b) - D(j)
    <2>1. M # {}
      BY <1>3
    <2> HIDE DEF M
    <2>2. PICK m \in M : \A n \in M : m <= n
      BY <1>2, <2>1, SmallestOf
    <2> QED
      BY <2>2 DEF M
  <1>5. v \notin phiDefs(k)
    <2>1. k \in TrueIn(v)
      BY <1>g, LiveInLoop
    <2> QED
      BY <2>1, LiveNotDefined DEF DefinedIn, phiDefs
  <1>6. v \notin NestPhis(k)
    <2>1. Root(k) = Root(b)
      BY <1>g, RootIs
    <2>2. ASSUME NEW j \in Headers(g), D(j) <= D(k), ~Innermost(k, j)
          PROVE  D(j) <= D(b) /\ ~Innermost(b, j)
      <3>1. D(j) \in Nat /\ D(k) \in Nat /\ D(k) <= D(b)
        BY <1>1, HeaderHasLatch, DepthIs
      <3>2. SUFFICES ASSUME b \in loops[g][j], D(j) = D(b) PROVE FALSE
        BY <1>0, <1>g, <2>2, <3>1 DEF Innermost, depth
      <3>3. D(j) = D(k)
        BY <1>0, <2>2, <3>1, <3>2
      <3>4. k \notin loops[g][j]
        BY <1>g, <2>2, <3>3 DEF Innermost, depth
      <3>5. j \in loops[g][k] /\ j # k
        BY <3>2, <3>4, Nested, LoopClosed
      <3> QED
        BY <3>1, <3>3, <3>5, Deeper
    <2> QED
      BY <1>g, <2>1, <2>2 DEF NestPhis, depth
  <1>7. \A c \in Children(k) : v \in liveIn[c] /\ v \in liveOut[c]
    BY <1>g, <1>5, <1>6 DEF Handed
  <1>8. CASE D(k) = D(b)
    <2>1. b \in Children(k)
      BY <1>g, <1>8 DEF Children, isLoopHeader, depth
    <2> QED
      BY <1>7, <2>1
  <1>9. CASE D(k) # D(b)
    <2>1. PICK c \in Headers(g) : /\ b \in loops[g][c] /\ c \in loops[g][k] /\ c # k
                                  /\ D(c) = D(k) + 1
      BY <1>9, NextHeader
    <2>2. c \in Children(k)
      BY <1>g, <2>1 DEF Children, isLoopHeader, depth
    <2>3. c \in loops[g][h]
      BY <1>g, <2>1, Within
    <2>4. c \in K
      BY <1>7, <2>1, <2>2, <2>3
    <2>5. D(b) - D(k) <= D(b) - D(c)
      BY <1>4, <2>4
    <2>6. D(k) \in Nat
      BY <1>1
    <2> HIDE DEF D
    <2> QED
      BY <1>0, <2>1, <2>5, <2>6
  <1> QED
    BY <1>8, <1>9

(* What is live into a block is among what the first pass found, or handed *)
(* to it from the header of a loop.                                        *)
LEMMA FoundOrHanded ==
  ASSUME SSA(prog), OnlyLive, NEW v, includeVal(v), NEW T \in SUBSET B, Base(v, T),
         NEW b \in TrueIn(v)
  PROVE  b \in T \/ \E h \in Headers(prog.graph) : h \in T /\ b \in loops[prog.graph][h]
  <1>g. PICK g \in Names : g = prog.graph /\ B = Blocks[g]
    BY DEF SSA, B
  <1> DEFINE U == T \cup {x \in B : \E h \in Headers(g) : h \in T /\ x \in loops[g][h]}
  <1>1. \A x \in UsedIn(v) \cup PassedOn(v) : x \notin DefinedIn(v) => x \in U
    BY DEF Base
  <1>2. ASSUME NEW x, NEW y, <<x, y>> \in Graph[prog.graph], x \notin DefinedIn(v), y \in U
        PROVE  x \in U
    <2>1. x \in B /\ y \in B /\ <<x, y>> \in Graph[g]
      BY <1>2, <1>g, Edges
    <2>2. CASE y \in T /\ <<x, y>> \notin Back
      BY <1>2, <2>1, <2>2 DEF Base
    <2>3. CASE y \in T /\ <<x, y>> \in Back
      BY <1>g, <2>1, <2>3, BackIntoHeader
    <2>4. CASE y \notin T
      <3>1. PICK h \in Headers(g) : h \in T /\ y \in loops[g][h]
        BY <1>2, <2>4
      <3>2. y # h
        BY <2>4, <3>1
      <3>3. x \in loops[g][h]
        BY <2>1, <3>1, <3>2, LoopClosed
      <3> QED
        BY <2>1, <3>1, <3>3
    <2> QED
      BY <2>2, <2>3, <2>4
  <1> HIDE DEF U
  <1>3. TrueIn(v) \subseteq U
    BY <1>1, <1>2, LiveLeast
  <1> QED
    BY <1>3, <1>g DEF U

(* When all loops have been treated, no live value is missed.              *)
LEMMA NothingMissed ==
  ASSUME SSA(prog), OnlyLive, Bases, \A k \in Headers(prog.graph) : Handed(k),
         NEW b \in B, NEW v \in Values \ (SelfLoopOperands \cup NestPhis(b))
  PROVE  /\ b \in TrueIn(v) => v \in liveIn[b]
         /\ b \in TrueOut(v) => v \in liveOut[b]
  <1>0. includeVal(v)
    BY DEF Values
  <1>g. PICK g \in Names : g = prog.graph /\ B = Blocks[g]
    BY DEF SSA, B
  <1>1. PICK T \in SUBSET B : Base(v, T)
    BY DEF Bases
  <1>2. ASSUME NEW h \in T PROVE v \in liveIn[h] /\ h \in TrueIn(v)
    <2>1. h \in B /\ v \in liveIn[h] /\ h \notin DefinedIn(v)
      BY <1>1 DEF Base
    <2>2. v \notin phiDefs(h)
      BY <2>1 DEF DefinedIn, phiDefs
    <2> QED
      BY <2>1, <2>2 DEF OnlyLive
  <1>3. ASSUME NEW h \in Headers(prog.graph), h \in T, b \in loops[prog.graph][h]
        PROVE  v \in liveIn[b] /\ v \in liveOut[b]
    BY <1>0, <1>2, <1>3, HandedThrough
  <1>4. ASSUME b \in TrueIn(v) PROVE v \in liveIn[b]
    BY <1>0, <1>1, <1>2, <1>3, <1>4, FoundOrHanded
  <1>5. ASSUME b \in TrueOut(v) PROVE v \in liveOut[b]
    <2>1. CASE b \in PassedOn(v)
      BY <1>1, <2>1 DEF Base
    <2>2. CASE b \notin PassedOn(v)
      <3>1. PICK s \in succ[prog.graph][b] : s \in TrueIn(v)
        BY <1>5, <2>2 DEF TrueOut
      <3>2. <<b, s>> \in Graph[g] /\ s \in B
        BY <1>g, <3>1, Successors, Edges
      <3>3. CASE s \in T /\ <<b, s>> \notin Back
        BY <1>1, <1>g, <3>2, <3>3 DEF Base
      <3>4. CASE s \in T /\ <<b, s>> \in Back
        BY <1>3, <3>4, BackIntoHeader
      <3>5. CASE s \notin T
        <4>1. PICK h \in Headers(g) : h \in T /\ s \in loops[g][h]
          BY <1>0, <1>1, <1>g, <3>1, <3>5, FoundOrHanded
        <4>2. b \in loops[g][h]
          BY <3>2, <3>5, <4>1, LoopClosed
        <4> QED
          BY <1>3, <1>g, <4>1, <4>2
      <3> QED
        BY <3>3, <3>4, <3>5
    <2> QED
      BY <2>1, <2>2
  <1> QED
    BY <1>4, <1>5

(* Steps that leave the sets alone, and treat no loop.                     *)
LEMMA HandedDownKept ==
  ASSUME SSA(prog), UNCHANGED <<prog, liveIn, liveOut>>, HandedDown,
         remaining \cup forest \subseteq remaining' \cup forest'
  PROVE  HandedDown'
  <1>1. \A k : /\ Children(k)' = Children(k)
               /\ NestPhis(k)' = NestPhis(k) /\ phiDefs(k)' = phiDefs(k)
    BY SameLoops, SameFunction
  <1>2. ASSUME NEW k, Handed(k) PROVE Handed(k)'
    BY <1>1, <1>2 DEF Handed
  <1>3. ASSUME NEW k, Todo(k) PROVE Todo(k)'
    BY <1>3 DEF Todo
  <1> QED
    BY <1>2, <1>3 DEF HandedDown

(* The second part of the invariant holds at first ...                     *)
LEMMA CInvInit == Init => CInv
  BY DEF Init, CInv

(* After the first pass every tree has yet to be treated.                  *)
LEMMA ForestCInv ==
  ASSUME IInv, CInv, constructLoopNestingForest
  PROVE  CInv'
  <1>1. /\ pc = "dag" /\ pc' = "propagate" /\ visited = B /\ forest' = {Root(b) : b \in B}
        /\ UNCHANGED <<prog, liveIn, liveOut, remaining>>
    BY DEF constructLoopNestingForest
  <1>2. SSA(prog) /\ remaining = {}
    BY <1>1 DEF IInv, Begun, CInv
  <1>3. Bases
    BY <1>1, <1>2, DagGivesBase DEF CInv, Bases
  <1>4. Bases'
    BY <1>1, <1>2, <1>3, BasesGrow
  <1>5. ASSUME NEW h \in Headers(prog.graph) PROVE Todo(h)'
    <2>1. h \in loops[prog.graph][h] /\ h \in B
      BY <1>2, LoopClosed, HeaderHasLatch DEF SSA, B
    <2>2. Root(h) \in Headers(prog.graph) /\ h \in loops[prog.graph][Root(h)]
      BY <1>2, <2>1, RootIs
    <2>3. Root(h) \in forest'
      BY <1>1, <2>1
    <2>4. PICK r : r = Root(h)
      OBVIOUS
    <2> QED
      BY <1>1, <2>2, <2>3, <2>4 DEF Todo
  <1>6. HandedDown'
    BY <1>1, <1>5 DEF HandedDown
  <1>7. OneNest'
    BY <1>1, <1>2 DEF OneNest
  <1> QED
    BY <1>1, <1>4, <1>6, <1>7 DEF CInv

(* The next tree, or the end.                                              *)
LEMMA TreeCInv ==
  ASSUME IInv, CInv, loopTreeDFS
  PROVE  CInv'
  <1>1. pc = "propagate" /\ remaining = {} /\ UNCHANGED <<prog, liveIn, liveOut>>
    BY DEF loopTreeDFS
  <1>2. SSA(prog) /\ Bases /\ HandedDown
    BY <1>1 DEF IInv, Begun, CInv
  <1>3. Bases'
    BY <1>1, <1>2, BasesGrow
  <1>4. CASE forest = {}
    <2>1. pc' = "insert" /\ forest' = {} /\ remaining' = {}
      BY <1>1, <1>4 DEF loopTreeDFS
    <2>2. HandedDown'
      BY <1>1, <1>2, <1>4, <2>1, HandedDownKept
    <2>3. OneNest'
      BY <2>1 DEF OneNest
    <2> QED
      BY <1>3, <2>1, <2>2, <2>3 DEF CInv
  <1>5. CASE forest # {}
    <2>1. PICK root \in forest : /\ forest' = forest \ {root} /\ remaining' = {root}
                                 /\ phiDefined' = {} /\ pc' = pc
      BY <1>5 DEF loopTreeDFS
    <2>2. HandedDown'
      BY <1>1, <1>2, <2>1, HandedDownKept
    <2>3. OneNest'
      BY <2>1 DEF OneNest
    <2> QED
      BY <1>1, <1>3, <2>1, <2>2, <2>3 DEF CInv
  <1> QED
    BY <1>4, <1>5

(* ... and every step of the passes keeps it.                              *)
LEMMA CInvNext == IInv /\ CInv /\ [Next]_vars => CInv'
  <1> SUFFICES ASSUME IInv, CInv, [Next]_vars PROVE CInv'
    OBVIOUS
  <1>1. CASE removeOldStackmaps
    BY <1>1 DEF removeOldStackmaps, CInv
  <1>2. CASE \E b \in B : dagDFS(b)
    <2>1. PICK b \in B : dagDFS(b)
      BY <1>2
    <2>2. pc = "dag" /\ pc' = "dag" /\ UNCHANGED <<remaining, forest>>
      BY <2>1 DEF dagDFS
    <2>3. \A c \in visited' : DagDone(c)'
      BY <2>1, <2>2, DagDoneNext DEF CInv
    <2> QED
      BY <2>2, <2>3 DEF CInv
  <1>3. CASE constructLoopNestingForest
    BY <1>3, ForestCInv
  <1>4. CASE loopTreeDFS
    BY <1>4, TreeCInv
  <1>5. CASE \E loop \in B : propagateValues(loop)
    <2>1. PICK h \in B : propagateValues(h)
      BY <1>5
    <2>2. pc = "propagate" /\ pc' = "propagate" /\ prog' = prog
      BY <2>1 DEF propagateValues
    <2>3. SSA(prog) /\ Bases /\ HandedDown /\ OneNest
      BY <2>2 DEF IInv, Begun, CInv
    <2>4. /\ HandedDown'
          /\ \A b \in B : liveIn[b] \subseteq liveIn'[b] /\ liveOut[b] \subseteq liveOut'[b]
      BY <2>1, <2>2, <2>3, HandedDownNext
    <2>5. Bases'
      BY <2>2, <2>3, <2>4, BasesGrow
    <2>6. OneNest'
      BY <2>1, <2>3, OneNestNext
    <2> QED
      BY <2>2, <2>4, <2>5, <2>6 DEF CInv
  <1>6. CASE InsertStackMaps
    BY <1>6 DEF InsertStackMaps, CInv
  <1>7. CASE UNCHANGED vars
    <2>1. UNCHANGED <<prog, pc, visited, liveIn, liveOut, forest, remaining, phiDefined>>
      BY <1>7 DEF vars
    <2>2. pc \in {"start", "dag", "insert"} => remaining = {} /\ forest = {}
      BY DEF CInv
    <2>3. ASSUME pc # "start", pc = "dag", NEW b \in visited PROVE DagDone(b)'
      <3>1. SSA(prog) /\ DagDone(b)
        BY <2>3 DEF IInv, Begun, CInv
      <3>2. /\ Back' = Back
            /\ \A c, s : phiUses(c, s)' = phiUses(c, s)
            /\ \A c : phiDefs(c)' = phiDefs(c)
        BY <2>1, <3>1, SameLoops, SameFunction
      <3> QED
        BY <2>1, <3>1, <3>2 DEF DagDone
    <2>4. ASSUME pc \in {"propagate", "insert"} PROVE Bases' /\ HandedDown' /\ OneNest'
      <3>1. SSA(prog) /\ Bases /\ HandedDown /\ OneNest
        BY <2>4 DEF IInv, Begun, CInv
      <3>2. Bases' /\ HandedDown'
        BY <2>1, <3>1, BasesGrow, HandedDownKept
      <3>3. OneNest'
        BY <2>1, <3>1, SameLoops DEF OneNest
      <3> QED
        BY <3>2, <3>3
    <2> QED
      BY <2>1, <2>2, <2>3, <2>4 DEF CInv
  <1> QED
    BY <1>1, <1>2, <1>3, <1>4, <1>5, <1>6, <1>7 DEF Next

(* No live value is missed, however loops nest, but for the operands of a  *)
(* phi that come over a self-loop and, in inner loops, the phis of other   *)
(* headers of the nest (LiveValues.cpp:230-373).                           *)
THEOREM NoLiveValueMissed == Spec => []LiveSetsComplete
  <1>1. IInv /\ CInv => LiveSetsComplete
    <2> SUFFICES ASSUME IInv, CInv, Analysed PROVE LiveSetsComplete
      BY DEF LiveSetsComplete
    <2>1. pc = "insert" /\ SSA(prog) /\ OnlyLive
      BY DEF Analysed, IInv, Begun
    <2>2. Bases /\ HandedDown /\ remaining = {} /\ forest = {}
      BY <2>1 DEF CInv
    <2>3. \A k \in Headers(prog.graph) : Handed(k)
      BY <2>2 DEF HandedDown, Todo
    <2> QED
      BY <2>1, <2>2, <2>3, NothingMissed DEF LiveSetsComplete
  <1> QED
    BY <1>1, InvInit, InvNext, CInvInit, CInvNext, PTL DEF Spec
===============================================================================
