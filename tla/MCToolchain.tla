----------------------------- MODULE MCToolchain -----------------------------
(***************************************************************************)
(* Small programs for Toolchain.  The function crt calls the program and   *)
(* keeps the ID of its stack map; foo and bar make up to two calls each;   *)
(* datum is data.  In one half of the programs the layout varies: sizes,   *)
(* alignments, symbols that one architecture lacks, residues and **common  *)
(* data.  In the other the metadata does: the order of the object files    *)
(* and of the compiler's maps, the registers saved, the calls, their order *)
(* and their live values, and whether an object file has stack maps.       *)
(***************************************************************************)
EXTENDS Toolchain, TLC

CONSTANTS ARM, crt, foo, bar, datum, residue, Data

MCArchs == <<X86, ARM>>
MCSections == <<Text, Data>>

Entry(name, c, size, alignment) ==
  [name |-> name, section |-> c, size |-> size, alignment |-> alignment,
   blacklisted |-> name = residue]

(* A map file lists what the architecture has, in the order of the files.  *)
MapFile(order, has, size, alignment) ==
  LET here == SelectSeq(order, LAMBDA s : s \in has)
  IN  [i \in DOMAIN here |->
         Entry(here[i], IF here[i] = datum THEN Data ELSE Text, size[here[i]], alignment[here[i]])]

Location(size, dup) == [size |-> size, is_duplicate |-> dup]
One == <<Location(4, FALSE)>>
Lists == {One, <<Location(4, FALSE), Location(4, TRUE)>>,
          <<Location(4, FALSE), Location(8, FALSE)>>,
          <<Location(4, FALSE), Location(4, TRUE), Location(8, FALSE)>>,
          <<Location(4, FALSE), Location(4, TRUE), Location(4, FALSE)>>}

(* The stack map record of the k-th call of func.                          *)
Record(func, k, offset, locs, num) ==
  [call |-> <<func, k>>, func |-> func, offset |-> offset,
   id |-> IF func = crt THEN UINT64_MAX ELSE k - 1,
   stack_size |-> 16, num_unwind |-> num, locs |-> locs, arch_live |-> k - 1]

(* Records of func with calls in the given order; code is laid out in it.  *)
Records2(func, order, locs, num) ==
  [i \in DOMAIN order |-> Record(func, order[i], i, locs, num)]

Object(recs, saved) == [recs |-> recs, saved |-> saved]
Saved(func, num) == [func |-> func, num |-> num]
StartObject == Object(Records2(crt, <<1>>, << >>, 2), <<Saved(crt, 2)>>)

Names == {crt, foo, bar, datum, residue}
AB(x, y) == [a \in {X86, ARM} |-> IF a = X86 THEN x ELSE y]

LayoutPrograms ==
  \E order \in {<<crt, foo, bar, residue, datum>>, <<datum, bar, crt, residue, foo>>},
     hasf, hasg \in {{X86, ARM}, {X86}, {ARM}},
     sizef \in {AB(2, 3), AB(3, 2), AB(3, 3)}, sizeg \in {AB(2, 3), AB(4, 2)},
     alignf, aligng \in {AB(1, 1), AB(1, 2), AB(4, 1)},
     sizer \in {AB(0, 0), AB(2, 0), AB(0, 4)}, data \in {AB(0, 0), AB(3, 0)},
     dup \in BOOLEAN :
    LET has(a) == {crt, datum, residue} \cup (IF a \in hasf THEN {foo} ELSE {})
                                      \cup (IF a \in hasg THEN {bar} ELSE {})
        size(a) == [s \in Names |-> CASE s = foo -> sizef[a] [] s = bar -> sizeg[a]
                                      [] s = residue -> sizer[a] [] OTHER -> 2]
        alignment(a) == [s \in Names |-> CASE s = foo -> alignf[a] [] s = bar -> aligng[a]
                                           [] OTHER -> 2]
        calls(a) == Records2(foo, IF a \in hasf THEN <<1>> ELSE << >>, One, 1) \o
                    Records2(bar, IF a \in hasg THEN <<1>> ELSE << >>, One, 2)
    IN  /\ dup => (sizer = AB(0, 0) /\ data = AB(0, 0) /\ alignf = AB(1, 1) /\ aligng = AB(1, 1))
        /\ pending = [a \in {X86, ARM} |->
             MapFile(order, has(a), size(a), alignment(a)) \o
             (IF dup /\ a = ARM THEN <<Entry(crt, Text, 2, 2)>> ELSE << >>)]
        /\ common = [a \in {X86, ARM} |-> [c \in {Text, Data} |-> IF c = Text THEN 0 ELSE data[a]]]
        /\ objs = [a \in {X86, ARM} |->
             <<StartObject, Object(calls(a), <<Saved(foo, 1), Saved(bar, 2)>>)>>]

Orders(n) == IF n = 2 THEN {<<1, 2>>, <<2, 1>>} ELSE {[i \in 1..n |-> i]}

MetadataPrograms ==
  \E first \in BOOLEAN, map \in {AB(TRUE, TRUE), AB(TRUE, FALSE), AB(FALSE, TRUE)},
     nf \in 1..2, ng \in 0..2, regs \in {AB(1, 2), AB(2, 2)},
     lf \in {AB(l, m) : l \in Lists, m \in Lists},
     lg \in {AB(One, m) : m \in Lists}, instrumented \in BOOLEAN :
    \E of \in Orders(nf), og \in Orders(ng) :
      LET numf(a) == regs[a]
          numg == 3
          calls(a) == Records2(foo, IF a = ARM THEN of ELSE [i \in 1..nf |-> i], lf[a], numf(a)) \o
                      Records2(bar, IF a = ARM THEN og ELSE [i \in 1..ng |-> i], lg[a], numg)
          saved(a) == IF map[a] THEN <<Saved(foo, numf(a)), Saved(bar, numg)>>
                      ELSE <<Saved(bar, numg), Saved(foo, numf(a))>>
          second(a) == Object(IF a = ARM /\ ~instrumented THEN << >> ELSE calls(a), saved(a))
      IN  /\ ng = 0 => lg = AB(One, One)
          /\ ~instrumented => /\ lf[ARM] = One /\ lg[ARM] = One
                              /\ of = [i \in 1..nf |-> i] /\ og = [i \in 1..ng |-> i]
          /\ pending = [a \in {X86, ARM} |->
               MapFile(<<crt, foo, bar, datum>>, Names, [s \in Names |-> IF a = ARM THEN 4 ELSE 3],
                       [s \in Names |-> 1])]
          /\ common = [a \in {X86, ARM} |-> [c \in {Text, Data} |-> 0]]
          /\ objs = [a \in {X86, ARM} |->
               IF first THEN <<StartObject, second(a)>> ELSE <<second(a), StartObject>>]

Init ==
  /\ LayoutPrograms \/ MetadataPrograms
  /\ Assert(MapFiles /\ ObjectFiles, "not what the compiler and the linker produce")
  /\ Started

Spec == Init /\ [][Next]_vars
=============================================================================
