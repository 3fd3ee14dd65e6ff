---------------------------- MODULE MCLiveValues ----------------------------
(***************************************************************************)
(* Small functions for LiveValues.  A block has an instruction before and  *)
(* one after a call.  The function has an argument a, a value x, computed  *)
(* in one of the blocks, and a phi p at the start of a block with several  *)
(* predecessors; each is used at no more than one place, and may come into *)
(* the phi, as does a constant.                                            *)
(***************************************************************************)
EXTENDS LiveValues, SequencesExt

CONSTANTS
  a, x, p, c,       \* values; c is a constant
  Shapes,           \* the graphs of the functions
  Trivial           \* also phis that nobody uses or that merge themselves

MCGraph ==
  [ diamond  |-> {<<1, 2>>, <<1, 3>>, <<2, 4>>, <<3, 4>>},
    selfloop |-> {<<1, 2>>, <<2, 2>>, <<2, 3>>},
    loop     |-> {<<1, 2>>, <<2, 3>>, <<3, 2>>, <<2, 4>>},
    nest     |-> {<<1, 2>>, <<2, 3>>, <<3, 4>>, <<4, 3>>, <<3, 2>>, <<2, 5>>},
    siblings |-> {<<1, 2>>, <<2, 3>>, <<3, 3>>, <<3, 4>>, <<4, 5>>, <<5, 4>>, <<4, 2>>,
                  <<2, 6>>},
    triple   |-> {<<1, 2>>, <<2, 3>>, <<3, 4>>, <<4, 5>>, <<5, 4>>, <<4, 3>>, <<3, 2>>,
                  <<2, 6>>} ]

Call == [def |-> NoValue, ops |-> {a}, kind |-> "call"]

(* In the larger graphs values are defined before the call and used after  *)
(* it; in the others both may be on either side.                           *)
Large == {"siblings", "triple"}
DefPlaces(g) == Blocks[g] \X (IF g \in Large THEN {1} ELSE {1, 3})
UsePlaces(g) == Blocks[g] \X (IF g \in Large THEN {3} ELSE {1, 3})

(* A use at place s, or no use, of a value defined at place d.             *)
After(g, d, s) ==
  \/ s = << >>
  \/ s[1] = d[1] /\ d[2] < s[2]
  \/ s[1] # d[1] /\ d[1] \in dominators[g][s[1]]

Preds(g, b) == {e[1] : e \in {e \in Graph[g] : e[2] = b}}
Joins(g) == {b \in Blocks[g] : Cardinality(Preds(g, b)) > 1}

(* The function with x computed at dx and used at ux, and the phi in block *)
(* bp with incoming values from and used at up.                            *)
Body(g, dx, ux, up, kind, old) ==
  [b \in Blocks[g] |->
    LET inst(i) == [def  |-> IF dx = <<b, i>> THEN x ELSE NoValue,
                    ops  |-> {v \in {x, p} : \/ v = x /\ ux = <<b, i>>
                                             \/ v = p /\ up = <<b, i>>},
                    kind |-> IF ux = <<b, i>> THEN kind ELSE "plain"]
    IN  <<inst(1), Call>> \o
        (IF old THEN <<[def |-> NoValue, ops |-> {x, p}, kind |-> "stackmap"]>> ELSE << >>)
        \o <<inst(3)>>]

Incoming(g, bp, dx) ==
  {from \in [Preds(g, bp) -> {x, p, c}] :
     \A b \in Preds(g, bp) :
       /\ from[b] = x => dx[1] \in dominators[g][b]
       /\ from[b] = p => bp \in dominators[g][b]}
Uses(g, d) == {s \in {<< >>} \cup UsePlaces(g) : After(g, d, s)}

Functions ==
  \E g \in Shapes :
    \E dx \in DefPlaces(g), bp \in Joins(g) :
      \E from \in Incoming(g, bp, dx), ux \in Uses(g, dx), up \in Uses(g, <<bp, 0>>),
         kind \in {"plain", "hides"}, old \in BOOLEAN :
        /\ kind = "hides" => (ux # << >> /\ ~old)
        /\ old => ux = << >>
        /\ g \in Large => (kind = "plain" /\ ~old)
        /\ Trivial \/ (up # << >> /\ \A b \in DOMAIN from : from[b] # p)
        /\ prog = [ graph |-> g, args |-> {a},
                    phis  |-> [b \in Blocks[g] |->
                                 IF b = bp THEN {[def |-> p, from |-> from]} ELSE {}],
                    body  |-> Body(g, dx, ux, up, kind, old) ]

MCInit ==
  /\ Functions
  /\ Assert(SSA(WithoutStackmaps(prog)), "a function that LLVM would reject")
  /\ Init

MCSpec == MCInit /\ [][Next]_vars

-----------------------------------------------------------------------------
(* BeforeAll is the walk of dagDFS and getLiveValues, one instruction      *)
(* after the other from the last.                                          *)
Before(inst, live) == (live \ {inst.def}) \cup {v \in inst.ops : includeVal(v)}
Walk(seq, out) == FoldRight(Before, seq, out)

SomeInstructions == [def : {x, p, NoValue}, ops : SUBSET {x, p, c}]

ASSUME BeforeAllIsTheWalk ==
  \A n \in 0 .. 3 : \A seq \in [1 .. n -> SomeInstructions] : \A out \in SUBSET {x, p} :
    \A first \in 1 .. (n + 1) :
      BeforeAll(seq, first, out) = Walk(SubSeq(seq, first, n), out)
=============================================================================
