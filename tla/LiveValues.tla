------------------------------ MODULE LiveValues ------------------------------
(***************************************************************************)
(* The passes that decide which values a stack map describes: the liveness *)
(* analysis (LiveValues.cpp, LoopNestingTree.cpp) and the insertion of     *)
(* stack maps at calls (InsertStackMaps.cpp), for one function.            *)
(*                                                                         *)
(* The analysis has two passes.  dagDFS computes partial sets bottom-up,   *)
(* ignoring back edges; propagateValues then hands what is live at a       *)
(* loop's header to the blocks of the loop, along the loop nesting trees.  *)
(* A function is a graph, the phis of each block and the instructions of   *)
(* each block in order; a value is the name of its definition.             *)
(***************************************************************************)
EXTENDS ControlFlow, Sequences

CONSTANTS
  Filtered,     \* constants, bitcasts and the like: not tracked
  NoValue       \* what an instruction without a result defines

VARIABLES
  prog,         \* the function: [graph, args, phis, body]
  pc,           \* which part of the passes runs next
  visited,      \* blocks dagDFS has visited
  liveIn,       \* block -> values
  liveOut,      \* block -> values
  forest,       \* roots of the loop nesting trees yet to be treated
  remaining,    \* loop_iterator: headers yet to be treated in this tree
  phiDefined,   \* propagateValues: phis of the headers seen in this tree
  stackmaps     \* call site -> values

vars == <<prog, pc, visited, liveIn, liveOut, forest, remaining, phiDefined,
          stackmaps>>

B == Blocks[prog.graph]
Back == FindFunctionBackedges[prog.graph]

-----------------------------------------------------------------------------
(* Liveness.                                                               *)

includeVal(v) == v \notin Filtered \cup {NoValue}

phiUses(b, s) == {v \in {phi.from[b] : phi \in prog.phis[s]} : includeVal(v)}
phiDefs(b) == {v \in {phi.def : phi \in prog.phis[b]} : includeVal(v)}

(* What is live before the instructions of seq from the first-th on, when  *)
(* out is live after them.  Walking backwards each instruction erases what *)
(* it defines and then inserts what it uses.                               *)
BeforeAll(seq, first, out) ==
  {v \in out : \A i \in first .. Len(seq) : seq[i].def # v} \cup
  {v \in UNION {seq[i].ops : i \in first .. Len(seq)} :
     /\ includeVal(v)
     /\ \E i \in first .. Len(seq) : /\ v \in seq[i].ops
                                     /\ \A j \in first .. (i - 1) : seq[j].def # v}

DagLiveOut(b) ==
  UNION {phiUses(b, s) \cup
         (IF <<b, s>> \in Back THEN {}
          ELSE {v \in liveIn[s] : v \notin phiDefs(s) /\ includeVal(v)})
         : s \in succ[prog.graph][b] \ {b}}

(* dagDFS meets the blocks in post-order: any order in which a block comes *)
(* after its successors along forward edges is allowed here.               *)
dagDFS(b) ==
  /\ pc = "dag"
  /\ b \notin visited
  /\ \A s \in succ[prog.graph][b] : <<b, s>> \in Back \/ s \in visited
  /\ visited' = visited \cup {b}
  /\ liveOut' = [liveOut EXCEPT ![b] = DagLiveOut(b)]
  /\ liveIn' = [liveIn EXCEPT ![b] =
                  BeforeAll(prog.body[b], 1, DagLiveOut(b)) \cup phiDefs(b)]
  /\ UNCHANGED <<prog, pc, forest, remaining, phiDefined, stackmaps>>

-----------------------------------------------------------------------------
(* Loop nesting trees.                                                     *)

depth(b) == getLoopDepth[prog.graph][b]
isLoopHeader(b) == b \in Headers(prog.graph)

(* The root of the tree of b's strongly connected component.               *)
Root(b) ==
  IF depth(b) = 0 THEN b
  ELSE CHOOSE h \in Headers(prog.graph) :
         depth(h) = 1 /\ b \in loops[prog.graph][h]

(* Mutant: the header is skipped, as block_begin()++ seems to intend.      *)
ChildrenButHeader(h) ==
  IF ~isLoopHeader(h) THEN {}
  ELSE {b \in loops[prog.graph][h] \ {h} :
          depth(b) = depth(h) \/ (depth(b) = depth(h) + 1 /\ isLoopHeader(b))}

(* The header is a child of its own node: block_begin()++ does not skip it. *)
Children(h) ==
  IF ~isLoopHeader(h) THEN {}
  ELSE {b \in loops[prog.graph][h] :
          \/ depth(b) = depth(h)
          \/ depth(b) = depth(h) + 1 /\ isLoopHeader(b)}

constructLoopNestingForest ==
  /\ pc = "dag"
  /\ visited = B
  /\ pc' = "propagate"
  /\ forest' = {Root(b) : b \in B}
  /\ UNCHANGED <<prog, visited, liveIn, liveOut, remaining, phiDefined, stackmaps>>

(* loopTreeDFS: the next tree of the forest.  The trees have no block in   *)
(* common, and their order makes no difference.                            *)
loopTreeDFS ==
  /\ pc = "propagate"
  /\ remaining = {}
  /\ IF forest = {}
     THEN pc' = "insert" /\ UNCHANGED <<forest, remaining, phiDefined>>
     ELSE \E root \in forest :
            /\ \A r \in forest : root <= r
            /\ forest' = forest \ {root}
            /\ remaining' = {root}
            /\ phiDefined' = {}
            /\ UNCHANGED pc
  /\ UNCHANGED <<prog, visited, liveIn, liveOut, stackmaps>>

(* phiDefined keeps the phis of the headers of this tree seen before.      *)
PhisSeen(h) == phiDefined \cup phiDefs(h)

(* Mutant: the header's own phis are spread over the loop.                 *)
LiveLoopWithPhis(h) == {v \in liveIn[h] : includeVal(v)}

LiveLoop(h) == {v \in liveIn[h] : v \notin PhisSeen(h) /\ includeVal(v)}

Spread(sets, h) ==
  [b \in DOMAIN sets |-> IF b \in Children(h) THEN sets[b] \cup LiveLoop(h) ELSE sets[b]]

(* One iteration of propagateValues.  loop_iterator goes breadth-first,    *)
(* and meets the loops of one depth in any order.                          *)
propagateValues(loop) ==
  /\ pc = "propagate"
  /\ loop \in remaining
  /\ \A h \in remaining : depth(loop) <= depth(h)
  /\ phiDefined' = PhisSeen(loop)
  /\ liveIn' = Spread(liveIn, loop)
  /\ liveOut' = Spread(liveOut, loop)
  /\ remaining' = (remaining \ {loop}) \cup {b \in Children(loop) \ {loop} : isLoopHeader(b)}
  /\ UNCHANGED <<prog, pc, visited, forest, stackmaps>>

-----------------------------------------------------------------------------
(* Stack maps.                                                             *)

(* Earlier stack maps are removed before the function is analysed.         *)
WithoutStackmaps(f) ==
  [graph |-> f.graph, args |-> f.args, phis |-> f.phis,
   body  |-> [b \in Blocks[f.graph] |-> SelectSeq(f.body[b], LAMBDA i : i.kind # "stackmap")]]

removeOldStackmaps ==
  /\ pc = "start"
  /\ pc' = "dag"
  /\ prog' = WithoutStackmaps(prog)
  /\ UNCHANGED <<visited, liveIn, liveOut, forest, remaining, phiDefined, stackmaps>>

getLiveValues(b, i) == BeforeAll(prog.body[b], i + 1, liveOut[b]) \ {prog.body[b][i].def}

Positions == UNION {{<<b, i>> : i \in DOMAIN prog.body[b]} : b \in B}
Inst(at) == prog.body[at[1]][at[2]]

(* Where v is defined; 0 stands for the phis of a block.                   *)
Definitions(f, v) ==
  {at \in UNION {{b} \X (0 .. Len(f.body[b])) : b \in Blocks[f.graph]} :
     IF at[2] = 0 THEN \E phi \in f.phis[at[1]] : phi.def = v
     ELSE f.body[at[1]][at[2]].def = v}

(* The instructions and arguments among the operands of instructions that  *)
(* hide values from the analysis.                                          *)
HiddenVals ==
  {v \in UNION {Inst(at).ops : at \in {p \in Positions : Inst(p).kind = "hides"}} :
     v \in prog.args \/ Definitions(prog, v) # {}}

Users(v) ==
  {Inst(at).def : at \in {p \in Positions : v \in Inst(p).ops}} \cup
  UNION {{phi.def : phi \in {f \in prog.phis[b] : \E e \in DOMAIN f.from : f.from[e] = v}}
         : b \in B}
hasLiveUser(v, live) == Users(v) \cap live # {}

(* Value v of function f is defined on every path to position at.          *)
DefinedBefore(f, v, at) ==
  \/ v \in f.args
  \/ \E b \in dominators[f.graph][at[1]] : \E phi \in f.phis[b] : phi.def = v
  \/ \E b \in dominators[f.graph][at[1]] : \E i \in DOMAIN f.body[b] :
       f.body[b][i].def = v /\ (b = at[1] => i < at[2])

DT_dominates(v, at) == DefinedBefore(prog, v, at)

(* Mutant: a live user is enough.                                          *)
HiddenWithLiveUser(at, live) == {v \in HiddenVals : hasLiveUser(v, live)}

HiddenAt(at, live) == {v \in HiddenVals : DT_dominates(v, at) /\ hasLiveUser(v, live)}

StackMapAt(at) ==
  LET live == getLiveValues(at[1], at[2])
  IN  live \cup HiddenAt(at, live)

CallSites == {p \in Positions : Inst(p).kind = "call"}

InsertStackMaps ==
  /\ pc = "insert"
  /\ pc' = "done"
  /\ stackmaps' = [at \in CallSites |-> StackMapAt(at)]
  /\ UNCHANGED <<prog, visited, liveIn, liveOut, forest, remaining, phiDefined>>

-----------------------------------------------------------------------------
(* LLVM gives a pass functions in static single assignment form: a value   *)
(* that is used has one definition, which dominates the use.  A phi's      *)
(* operand is used at the end of the block it comes from.                  *)

WellUsed(f, v, at) ==
  includeVal(v) =>
    /\ DefinedBefore(f, v, at)
    /\ \A d, e \in Definitions(f, v) : d = e
    /\ v \in f.args => Definitions(f, v) = {}

SSA(f) ==
  /\ f.graph \in Names
  /\ \A b \in Blocks[f.graph] :
       /\ f.body[b] \in Seq({f.body[b][i] : i \in DOMAIN f.body[b]})
       /\ \A i \in DOMAIN f.body[b] : \A v \in f.body[b][i].ops : WellUsed(f, v, <<b, i>>)
       /\ \A s \in succ[f.graph][b] : \A phi \in f.phis[s] :
            b \in DOMAIN phi.from /\ WellUsed(f, phi.from[b], <<b, Len(f.body[b]) + 1>>)

(* The passes are about to run on the function prog.                       *)
Init ==
  /\ SSA(WithoutStackmaps(prog))
  /\ pc = "start"
  /\ visited = {}
  /\ liveIn = [b \in B |-> {}]
  /\ liveOut = [b \in B |-> {}]
  /\ forest = {}
  /\ remaining = {}
  /\ phiDefined = {}
  /\ stackmaps = << >>

Next ==
  \/ removeOldStackmaps
  \/ \E b \in B : dagDFS(b)
  \/ constructLoopNestingForest
  \/ loopTreeDFS
  \/ \E loop \in B : propagateValues(loop)
  \/ InsertStackMaps

Spec == Init /\ [][Next]_vars

-----------------------------------------------------------------------------
(* Liveness by its definition: from there a use is reached without passing *)
(* the value's definition.  A phi's operand is used at the end of the      *)
(* block it comes from.                                                    *)

DefinedIn(v) ==
  {b \in B : \/ \E phi \in prog.phis[b] : phi.def = v
             \/ \E i \in DOMAIN prog.body[b] : prog.body[b][i].def = v}
UsedIn(v) == {b \in B : \E i \in DOMAIN prog.body[b] : v \in prog.body[b][i].ops}
PassedOn(v) == {b \in B : \E s \in succ[prog.graph][b] :
                            \E phi \in prog.phis[s] : phi.from[b] = v}

TrueIn(v) ==
  Reached((UsedIn(v) \cup PassedOn(v)) \ DefinedIn(v),
          {<<e[2], e[1]>> : e \in {e \in Graph[prog.graph] : e[1] \notin DefinedIn(v)}})
TrueOut(v) ==
  PassedOn(v) \cup {b \in B : succ[prog.graph][b] \cap (TrueIn(v) \ DefinedIn(v)) # {}}

Values == {v \in prog.args \cup {phi.def : phi \in UNION {prog.phis[b] : b \in B}}
                           \cup {Inst(p).def : p \in Positions} : includeVal(v)}

TrueAcross(v, at) ==
  /\ v # Inst(at).def
  /\ LET later == (at[2] + 1) .. Len(prog.body[at[1]])
     IN  \/ \E i \in later : /\ v \in prog.body[at[1]][i].ops
                             /\ \A j \in later : j < i => prog.body[at[1]][j].def # v
         \/ /\ at[1] \in TrueOut(v)
            /\ \A i \in later : prog.body[at[1]][i].def # v

Analysed == pc = "insert"

(* Values the analysis is known to lose: operands of a phi that come from  *)
(* the phi's own block, and, in a block of an inner loop, phis of the      *)
(* other headers of the nest that are as deep or less: those of enclosing  *)
(* loops, and of loops beside its own.                                     *)
SelfLoopOperands == UNION {{phi.from[b] : phi \in {f \in prog.phis[b] : b \in DOMAIN f.from}}
                           : b \in B}
Innermost(b, h) == b \in loops[prog.graph][h] /\ depth(h) = depth(b)
NestPhis(b) ==
  UNION {phiDefs(h) : h \in {h \in Headers(prog.graph) :
                               Root(h) = Root(b) /\ depth(h) <= depth(b) /\ ~Innermost(b, h)}}

(* No dead value is called live: what the two passes find at the ends of a *)
(* block is live there, but for a block's own phis, which count as live    *)
(* into it.  Spreading a header's values to a whole loop adds none.        *)
LiveSetsPrecise ==
  Analysed => \A b \in B : /\ \A v \in liveIn[b] : b \in TrueIn(v) \/ v \in phiDefs(b)
                          /\ \A v \in liveOut[b] : b \in TrueOut(v)

(* No live value is missed, around any number of back edges, but for the   *)
(* two kinds of values above.                                              *)
LiveSetsComplete ==
  Analysed => \A b \in B : \A v \in Values \ (SelfLoopOperands \cup NestPhis(b)) :
                /\ b \in TrueIn(v) => v \in liveIn[b]
                /\ b \in TrueOut(v) => v \in liveOut[b]

(* Whatever a stack map records is defined on every path to its call: the  *)
(* stack map is a use of the value, and LLVM rejects a use its definition  *)
(* does not dominate.  Hidden values are live nowhere and need the check.  *)
RecordedAreDefined ==
  \A at \in DOMAIN stackmaps : \A v \in stackmaps[at] : DT_dominates(v, at)

(* The comment in dagDFS on skipping self-loop edges: "This shouldn't      *)
(* matter, as phi-defs will cover this case".  Then every value live       *)
(* across a call would be in the stack map of that call.                   *)
LiveAcrossCallsRecorded ==
  \A at \in DOMAIN stackmaps : \A v \in Values : TrueAcross(v, at) => v \in stackmaps[at]
=============================================================================
