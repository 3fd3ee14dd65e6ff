------------------------------- MODULE PyAlign -------------------------------
(***************************************************************************)
(* pyalign (tool/alignment/pyalign): the two link maps of a program, one   *)
(* per architecture, become two linker scripts, and linking with these     *)
(* gives a symbol the same address on every architecture that has it.      *)
(*                                                                         *)
(* The program is sequential: the symbols of the maps are merged into one  *)
(* list per section, each list is ordered and aligned, and a script is     *)
(* written for each architecture.  The linker, which is external, follows  *)
(* its script line by line.                                                *)
(***************************************************************************)
EXTENDS Integers, Sequences, FiniteSets

CONSTANTS
  considered_archs,       \* sequence of the architectures
  considered_sections,    \* sequence of the sections
  Symbols,                \* a symbol is a name and an object file
  SECTION_ALIGN,          \* 0x100000: where a section may begin
  PAGE_ALIGN              \* 0x1000: room left for what the linker puts first

Archs == {considered_archs[i] : i \in DOMAIN considered_archs}
Sections == {considered_sections[i] : i \in DOMAIN considered_sections}

(* PAGE_ALIGN and SECTION_ALIGN are powers of two.                         *)
ASSUME AlignAssumption ==
  /\ PAGE_ALIGN \in Nat \ {0} /\ SECTION_ALIGN \in Nat \ {0}
  /\ SECTION_ALIGN % PAGE_ALIGN = 0

(* The lists are literals: some architectures, and sections named once.    *)
ASSUME ListAssumption ==
  /\ considered_archs \in Seq(Archs) /\ considered_archs # << >>
  /\ considered_sections \in Seq(Sections) /\ considered_sections # << >>
  /\ \A i, j \in DOMAIN considered_sections :
       considered_sections[i] = considered_sections[j] => i = j

VARIABLES
  pending,    \* arch -> entries of its map file that are still to be merged
  common,     \* arch -> section -> size of the **common data the linker puts first
  work,       \* section -> list of symbols
  rest,       \* arch -> section -> size of the blacklisted symbols
  phase,
  cur,        \* position of the loops over the sections and their symbols
  address,    \* the iterator of align
  planned,    \* symbol -> value of the iterator at the symbol
  dot,        \* arch -> location counter of the linker
  base,       \* arch -> section -> where its first symbol may be
  at          \* arch -> symbol -> address, or -1

alignVars == <<pending, common, work, rest, phase, cur, address, planned, dot, base, at>>

Nowhere == [s \in Symbols |-> -1]

AlignInit ==
  /\ work = [c \in Sections |-> << >>]
  /\ rest = [a \in Archs |-> [c \in Sections |-> 0]]
  /\ phase = "collect"
  /\ cur = [section |-> 1, symbol |-> 1]
  /\ address = 0
  /\ planned = Nowhere
  /\ dot = [a \in Archs |-> 0]
  /\ base = [a \in Archs |-> [c \in Sections |-> 0]]
  /\ at = [a \in Archs |-> Nowhere]

-----------------------------------------------------------------------------
(* Merging the map files.                                                  *)

(* A symbol that only arch references, with what its map file says.  Its   *)
(* object file has one of the two forms that the sanity check asks for.    *)
Symbol(e, arch) ==
  [name      |-> e.name,
   size      |-> [a \in Archs |-> IF a = arch THEN e.size ELSE -1],
   alignment |-> [a \in Archs |-> IF a = arch THEN e.alignment ELSE -1],
   before    |-> [a \in Archs |-> 0],
   after     |-> [a \in Archs |-> 0]]

Referenced(symbol) == {a \in Archs : symbol.size[a] >= 0}

Merging(a, e) ==
  /\ phase = "collect"
  /\ pending[a] # << >>
  /\ e = Head(pending[a])
  /\ \A i \in DOMAIN considered_archs :     \* one architecture after the other
       pending[considered_archs[i]] # << >> =>
         \E j \in 1..i : considered_archs[j] = a
  /\ pending' = [pending EXCEPT ![a] = Tail(@)]

Matches(e) == {i \in DOMAIN work[e.section] : work[e.section][i].name = e.name}

(* The residues .text, .data, ... keep their place at the end.             *)
SkipBlacklisted(a, e) ==
  /\ Merging(a, e)
  /\ e.blacklisted
  /\ rest' = [rest EXCEPT ![a][e.section] = @ + e.size]
  /\ UNCHANGED <<common, work, phase, cur, address, planned, dot, base, at>>

(* "Already referenced updated symbol": pyalign exits.                     *)
AlreadyReferenced(a, e) ==
  /\ Merging(a, e)
  /\ ~e.blacklisted
  /\ \E i \in Matches(e) : a \in Referenced(work[e.section][i])
  /\ phase' = "failed"
  /\ UNCHANGED <<common, work, rest, cur, address, planned, dot, base, at>>

updateSymbolsList(a, e) ==
  /\ Merging(a, e)
  /\ ~e.blacklisted
  /\ \A i \in Matches(e) : a \notin Referenced(work[e.section][i])
  /\ work' =
       [work EXCEPT ![e.section] =
          IF Matches(e) = {} THEN Append(@, Symbol(e, a))
          ELSE [i \in DOMAIN @ |->
                  IF i \notin Matches(e) THEN @[i]
                  ELSE [@[i] EXCEPT !.size[a] = e.size, !.alignment[a] = e.alignment]]]
  /\ UNCHANGED <<common, rest, phase, cur, address, planned, dot, base, at>>

(* The section that the loops are at.                                     *)
section == considered_sections[cur.section]

(* p lists the positions of sl with the symbols that more architectures    *)
(* reference first, and otherwise as they were.                            *)
Ordered(sl, p) ==
  LET archs(i) == Cardinality(Referenced(sl[p[i]]))
  IN  \A i, j \in DOMAIN sl : i < j =>
        \/ archs(i) > archs(j)
        \/ archs(i) = archs(j) /\ p[i] < p[j]

(* One section after the other, once all maps are merged.                  *)
orderSymbolList ==
  /\ phase = "collect"
  /\ \A a \in Archs : pending[a] = << >>
  /\ \E p \in [DOMAIN work[section] -> DOMAIN work[section]] :
       /\ Ordered(work[section], p)
       /\ work' = [work EXCEPT ![section] = [i \in DOMAIN work[section] |-> work[section][p[i]]]]
  /\ LET last == cur.section = Len(considered_sections)
     IN  /\ cur' = [section |-> IF last THEN 1 ELSE cur.section + 1, symbol |-> 1]
         /\ phase' = IF last THEN "align" ELSE phase
  /\ UNCHANGED <<pending, common, rest, address, planned, dot, base, at>>

-----------------------------------------------------------------------------
(* align: the loop over the symbols of each section.                       *)

symbol == work[section][cur.symbol]
AtSymbol == cur.symbol <= Len(work[section])

Largest(f) == CHOOSE n \in {f[a] : a \in Archs} : \A a \in Archs : f[a] <= n
PadTo(n, alignment) == (-n) % alignment

(* A bug: the architectures that lack a symbol skip its alignment.         *)
AlignedWithoutBefore(s, n) ==
  [s EXCEPT
     !.alignment = [a \in Archs |-> IF a \in Referenced(s) THEN Largest(s.alignment) ELSE -1],
     !.after = [a \in Archs |->
        @[a] + Largest(s.size) - (IF a \in Referenced(s) THEN s.size[a] ELSE 0)]]

(* What the loop does to a symbol that it meets at n: setLargestAlignment  *)
(* and the paddings.                                                       *)
AlignedSymbol(s, n) ==
  [s EXCEPT
     !.alignment = [a \in Archs |-> IF a \in Referenced(s) THEN Largest(s.alignment) ELSE -1],
     !.before = [a \in Archs |->
        IF a \in Referenced(s) THEN @[a] ELSE @[a] + PadTo(n, Largest(s.alignment))],
     !.after = [a \in Archs |->
        @[a] + Largest(s.size) - (IF a \in Referenced(s) THEN s.size[a] ELSE 0)]]

align ==
  /\ phase = "align"
  /\ AtSymbol
  /\ LET start == address + PadTo(address, Largest(symbol.alignment))
     IN  /\ work' = [work EXCEPT ![section][cur.symbol] = AlignedSymbol(symbol, address)]
         /\ planned' = [planned EXCEPT ![symbol.name] = start]
         /\ address' = start + Largest(symbol.size)
  /\ cur' = [cur EXCEPT !.symbol = @ + 1]
  /\ UNCHANGED <<pending, common, rest, phase, dot, base, at>>

(* The next section, or the linker scripts, written from the final lists.  *)
AlignNextSection ==
  /\ phase = "align"
  /\ ~AtSymbol
  /\ address' = 0
  /\ LET last == cur.section = Len(considered_sections)
     IN  /\ cur' = [section |-> IF last THEN 1 ELSE cur.section + 1,
                    symbol  |-> IF last THEN 0 ELSE 1]
         /\ phase' = IF last THEN "link" ELSE phase
  /\ UNCHANGED <<pending, common, work, rest, planned, dot, base, at>>

-----------------------------------------------------------------------------
(* The lines of the linker scripts, as the linker follows them.  The       *)
(* architectures are linked independently: the model takes them in step.   *)

AlignUp(n, alignment) == n + PadTo(n, alignment)

OpenSection ==
  /\ phase = "link"
  /\ cur.symbol = 0
  /\ LET first(a) == AlignUp(AlignUp(dot[a], SECTION_ALIGN) + common[a][section] + 1, PAGE_ALIGN)
     IN  /\ dot' = [a \in Archs |-> first(a)]
         /\ base' = [a \in Archs |-> [base[a] EXCEPT ![section] = first(a)]]
  /\ cur' = [cur EXCEPT !.symbol = 1]
  /\ UNCHANGED <<pending, common, work, rest, phase, address, planned, at>>

(* Where the script of a places symbol s when the counter is at n.         *)
Place(s, a, n) ==
  IF a \in Referenced(s) THEN AlignUp(n, s.alignment[a]) ELSE n + s.before[a]

LinkSymbol ==
  /\ phase = "link"
  /\ cur.symbol # 0
  /\ AtSymbol
  /\ at' = [a \in Archs |->
              IF a \in Referenced(symbol)
              THEN [at[a] EXCEPT ![symbol.name] = Place(symbol, a, dot[a])] ELSE at[a]]
  /\ dot' = [a \in Archs |->
               Place(symbol, a, dot[a]) + symbol.after[a] +
               (IF a \in Referenced(symbol) THEN symbol.size[a] ELSE 0)]
  /\ cur' = [cur EXCEPT !.symbol = @ + 1]
  /\ UNCHANGED <<pending, common, work, rest, phase, address, planned, base>>

CloseSection ==
  /\ phase = "link"
  /\ cur.symbol # 0
  /\ ~AtSymbol
  /\ dot' = [a \in Archs |-> dot[a] + rest[a][section]]
  /\ LET last == cur.section = Len(considered_sections)
     IN  /\ cur' = [section |-> IF last THEN 1 ELSE cur.section + 1, symbol |-> 0]
         /\ phase' = IF last THEN "linked" ELSE phase
  /\ UNCHANGED <<pending, common, work, rest, address, planned, base, at>>

AlignNext ==
  \/ \E a \in Archs : pending[a] # << >> /\
       LET e == Head(pending[a])
       IN  SkipBlacklisted(a, e) \/ AlreadyReferenced(a, e) \/ updateSymbolsList(a, e)
  \/ orderSymbolList \/ align \/ AlignNextSection
  \/ OpenSection \/ LinkSymbol \/ CloseSection

(* What the linker's map file tells of a symbol.  Alignments are powers of *)
(* two, and no larger than a page: parseMapFile takes any, but align pads  *)
(* from 0 and the linker from the section's base, a multiple of a page.    *)
Entries ==
  [name : Symbols, section : Sections, size : Nat,
   alignment : {n \in Nat \ {0} : PAGE_ALIGN % n = 0}, blacklisted : BOOLEAN]

(* The compiler names a symbol's section after its kind (.text.f, .data.x),*)
(* so that a symbol is in one section.                                     *)
MapFiles ==
  /\ pending \in [Archs -> Seq(Entries)]
  /\ common \in [Archs -> [Sections -> Nat]]
  /\ \A a, b \in Archs : \A i \in DOMAIN pending[a], j \in DOMAIN pending[b] :
       LET d == pending[a][i] e == pending[b][j]
       IN  ~d.blacklisted /\ ~e.blacklisted /\ d.name = e.name => d.section = e.section

AlignSpec == AlignInit /\ MapFiles /\ [][AlignNext]_alignVars

-----------------------------------------------------------------------------
(* Every symbol of section c that has been linked is where the iterator of *)
(* align was, from the first address of the section.                       *)
AtPlanned(c) ==
  \A a \in Archs : \A i \in DOMAIN work[c] :
    LET s == work[c][i].name
    IN  at[a][s] # -1 => at[a][s] = base[a][c] + planned[s]

(* The bytes that symbol s of section c takes on architecture a.           *)
Bytes(a, s) == at[a][s.name] .. (at[a][s.name] + s.size[a] - 1)

(* A section whose first address does not depend on the architecture: its  *)
(* **common data fits before PAGE_ALIGN, and the blacklisted symbols at    *)
(* the end of the earlier sections did not take one architecture, but not  *)
(* the other, over a multiple of SECTION_ALIGN.                            *)
SameBase(c) == \A a, b \in Archs : base[a][c] = base[b][c]

(* In a section that begins at the same address on the architectures, a    *)
(* symbol has one address on all architectures that have it, although the  *)
(* paddings of align and those of the linker's own ALIGN are computed      *)
(* apart (__main__.py:124-154, Linker.py:58-86); and where one             *)
(* architecture has a symbol no other has a different one, so that         *)
(* migrating threads may share their memory.                               *)
AlignedAcrossArchs ==
  phase = "linked" =>
    \A c \in Sections : SameBase(c) =>
      /\ AtPlanned(c)
      /\ \A i, j \in DOMAIN work[c] : \A a \in Referenced(work[c][i]), b \in Referenced(work[c][j]) :
           IF i = j THEN at[a][work[c][i].name] = at[b][work[c][i].name]
           ELSE Bytes(a, work[c][i]) \cap Bytes(b, work[c][j]) = {}
=============================================================================
