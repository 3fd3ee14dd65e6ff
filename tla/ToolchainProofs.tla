--------------------------- MODULE ToolchainProofs ---------------------------
(***************************************************************************)
(* The build, for every number of architectures, sections and object       *)
(* files, and all map files.                                               *)
(*                                                                         *)
(* pyalign and the linker give a symbol one address.  The invariant (IInv) *)
(* says of every symbol that align has met where its iterator was (the end *)
(* of the symbol before it, rounded up), and which paddings this left in   *)
(* the symbol; and of every symbol that has been linked that it is there,  *)
(* from the section's first address.  The linker does not round the        *)
(* iterator but its location counter: the two paddings are equal because a *)
(* section's first address is a multiple of a page.                        *)
(*                                                                         *)
(* The tables of gen-stackinfo lead the runtime to what the compiler       *)
(* emitted.  The invariant (BuildInv) adds that the code of every function *)
(* with a call is in a map file or in the list of the functions until it   *)
(* is linked, so that calls of different functions return to disjoint      *)
(* ranges of addresses, and that a processed binary has the tables of its  *)
(* object files.  What is left are facts about the pure functions: sums,   *)
(* concatenation, sorting and the two binary searches.                     *)
(***************************************************************************)
EXTENDS Toolchain, TLAPS, FiniteSetTheorems, FunctionTheorems, SequenceTheorems,
        WellFoundedInduction

SectionNumbers == DOMAIN considered_sections

(* A symbol of the lists: where it is referenced it has a size and an      *)
(* alignment, and elsewhere neither.                                       *)
SymbolRecords ==
  [name : Symbols, size : [Archs -> Int], alignment : [Archs -> Int],
   before : [Archs -> Int], after : [Archs -> Int]]

SymbolOK(s) ==
  /\ \E a \in Archs : s.size[a] >= 0
  /\ \A a \in Archs :
       IF s.size[a] >= 0
       THEN s.alignment[a] \in Nat \ {0} /\ PAGE_ALIGN % s.alignment[a] = 0
       ELSE s.size[a] = -1 /\ s.alignment[a] = -1

TypeOK ==
  /\ pending \in [Archs -> Seq(Entries)]
  /\ common \in [Archs -> [Sections -> Nat]]
  /\ work \in [Sections -> Seq(SymbolRecords)]
  /\ rest \in [Archs -> [Sections -> Nat]]
  /\ phase \in {"collect", "align", "link", "linked", "failed"}
  /\ cur \in [section : SectionNumbers, symbol : Nat]
  /\ address \in Nat
  /\ planned \in [Symbols -> Int]
  /\ dot \in [Archs -> Int]
  /\ base \in [Archs -> [Sections -> Int]]
  /\ at \in [Archs -> [Symbols -> Int]]

WorkOK == \A c \in Sections : \A i \in DOMAIN work[c] : SymbolOK(work[c][i])

(* A symbol is once in the lists, and what is still to be merged will not  *)
(* put it into another section.                                            *)
OneSection ==
  /\ \A c, d \in Sections : \A i \in DOMAIN work[c], j \in DOMAIN work[d] :
       work[c][i].name = work[d][j].name => c = d /\ i = j
  /\ \A a \in Archs : \A i \in DOMAIN pending[a] :
       LET e == pending[a][i]
       IN  ~e.blacklisted =>
             /\ \A c \in Sections : \A j \in DOMAIN work[c] :
                  work[c][j].name = e.name => c = e.section
             /\ \A b \in Archs : \A j \in DOMAIN pending[b] :
                  LET d == pending[b][j]
                  IN  ~d.blacklisted /\ d.name = e.name => d.section = e.section

(* Symbol i of section number k is behind the loop that is running.        *)
Behind(k, i) ==
  \/ k < cur.section
  \/ k = cur.section /\ i < cur.symbol

(* align has met symbol i of section number k.                             *)
Met(k, i) ==
  \/ phase = "align" /\ Behind(k, i)
  \/ phase \in {"link", "linked"}

Unmet ==
  phase \in {"collect", "align"} =>
    \A k \in SectionNumbers : \A i \in DOMAIN work[considered_sections[k]] :
      ~Met(k, i) =>
        \A a \in Archs : /\ work[considered_sections[k]][i].before[a] = 0
                         /\ work[considered_sections[k]][i].after[a] = 0

(* Where the iterator is after the first i symbols of section c.           *)
End(c, i) ==
  IF i = 0 THEN 0 ELSE planned[work[c][i].name] + Largest(work[c][i].size)

(* What align makes of a symbol that it meets at n, and where it plans it. *)
AlignedAs(s, n, start) ==
  /\ n >= 0
  /\ start = n + PadTo(n, Largest(s.alignment))
  /\ \A a \in Archs :
       IF a \in Referenced(s)
       THEN s.alignment[a] = Largest(s.alignment) /\ s.after[a] = Largest(s.size) - s.size[a]
       ELSE s.before[a] = PadTo(n, Largest(s.alignment)) /\ s.after[a] = Largest(s.size)

AlignedAt(c, i) == AlignedAs(work[c][i], End(c, i - 1), planned[work[c][i].name])

Aligned ==
  \A k \in SectionNumbers : \A i \in DOMAIN work[considered_sections[k]] :
    Met(k, i) => AlignedAt(considered_sections[k], i)

(* The symbols that align has met do not overlap.                          *)
Apart ==
  \A k \in SectionNumbers : \A i, j \in DOMAIN work[considered_sections[k]] :
    Met(k, j) /\ i < j =>
      End(considered_sections[k], i) <= planned[work[considered_sections[k]][j].name]

AlignLoop ==
  phase = "align" =>
    /\ cur.symbol \in 1 .. Len(work[section]) + 1
    /\ address = End(section, cur.symbol - 1)
    /\ \A i \in DOMAIN work[section] : i < cur.symbol => End(section, i) <= address

(* The linker has placed symbol i of section number k.                     *)
Placed(k, i) ==
  \/ phase = "link" /\ Behind(k, i)
  \/ phase = "linked"

LinkLoop ==
  phase = "link" =>
    /\ cur.symbol \in 0 .. Len(work[section]) + 1
    /\ cur.symbol # 0 => \A a \in Archs :
         /\ base[a][section] % PAGE_ALIGN = 0
         /\ dot[a] = base[a][section] + End(section, cur.symbol - 1)

InPlace ==
  \A k \in SectionNumbers : \A i \in DOMAIN work[considered_sections[k]] :
    LET s == work[considered_sections[k]][i]
    IN  /\ Placed(k, i) => \A a \in Referenced(s) :
             at[a][s.name] = base[a][considered_sections[k]] + planned[s.name]
        /\ \A a \in Archs \ Referenced(s) : at[a][s.name] = -1

(* While the maps are merged nothing has been placed.                      *)
Merge ==
  /\ phase \in {"collect", "failed"} => at = [a \in Archs |-> Nowhere]
  /\ phase = "collect" => cur.symbol = 1 /\ address = 0

IInv ==
  /\ TypeOK /\ WorkOK /\ OneSection /\ Merge
  /\ Unmet /\ AlignLoop /\ Aligned /\ Apart
  /\ LinkLoop /\ InPlace

-----------------------------------------------------------------------------
(* Arithmetic                                                              *)

(* What quotient and remainder are                                         *)
LEMMA Division ==
  ASSUME NEW n \in Int, NEW m \in Nat \ {0}
  PROVE  /\ n \div m \in Int /\ n % m \in 0 .. m - 1
         /\ n = m * (n \div m) + (n % m)
  OBVIOUS

(* ... and that nothing else is: two remainders of one number are equal.   *)
LEMMA RemainderUnique ==
  ASSUME NEW m \in Nat \ {0}, NEW p \in Int, NEW q \in Int,
         NEW r \in 0 .. m - 1, NEW t \in 0 .. m - 1, m * p + r = m * q + t
  PROVE  r = t
  <1>1. CASE p = q
    BY <1>1
  <1>2. CASE p < q
    <2>1. PICK k \in Nat : q = p + 1 + k
      <3>1. q - p - 1 \in Nat /\ q = p + 1 + (q - p - 1)
        BY <1>2
      <3> QED
        BY <3>1
    <2>2. m * q = m * p + m + m * k /\ m * k \in Nat
      BY <2>1
    <2> QED
      BY <2>2
  <1>3. CASE q < p
    <2>1. PICK k \in Nat : p = q + 1 + k
      <3>1. p - q - 1 \in Nat /\ p = q + 1 + (p - q - 1)
        BY <1>3
      <3> QED
        BY <3>1
    <2>2. m * p = m * q + m + m * k /\ m * k \in Nat
      BY <2>1
    <2> QED
      BY <2>2
  <1> QED
    BY <1>1, <1>2, <1>3

(* Numbers that differ by a multiple of m leave the same remainder.        *)
LEMMA SameRemainder ==
  ASSUME NEW m \in Nat \ {0}, NEW n \in Int, NEW k \in Int
  PROVE  (n + m * k) % m = n % m
  <1> DEFINE x == n + m * k
  <1>0. m * k \in Int
    OBVIOUS
  <1>1. x \in Int /\ x = n + m * k
    BY <1>0
  <1> HIDE DEF x
  <1>2. PICK p \in Int : x = m * p + (x % m)
    BY <1>1, Division
  <1>3. PICK q \in Int : n = m * q + (n % m)
    BY Division
  <1>4. x % m \in 0 .. m - 1 /\ n % m \in 0 .. m - 1
    BY <1>1, Division
  <1>5. PICK r \in 0 .. m - 1 : r = x % m
    BY <1>4
  <1>6. PICK t \in 0 .. m - 1 : t = n % m
    BY <1>4
  <1>7. m * (q + k) = m * q + m * k
    OBVIOUS
  <1>8. m * p + r = m * (q + k) + t
    <2>1. x = m * p + r /\ n = m * q + t
      BY <1>2, <1>3, <1>5, <1>6
    <2> QED
      BY <1>0, <1>1, <1>7, <2>1
  <1>9. r = t
    BY <1>8, RemainderUnique
  <1> QED
    BY <1>5, <1>6, <1>9 DEF x

(* A number without remainder is a multiple.                               *)
LEMMA Multiple ==
  ASSUME NEW m \in Nat \ {0}, NEW n \in Int, n % m = 0
  PROVE  \E k \in Int : n = m * k
  <1>1. PICK k \in Int : n = m * k + (n % m)
    BY Division
  <1>2. n = m * k
    BY <1>1
  <1> QED
    BY <1>2

(* ... and the other way around                                            *)
LEMMA NoRemainder ==
  ASSUME NEW m \in Nat \ {0}, NEW k \in Int
  PROVE  (m * k) % m = 0
  <1>1. (0 + m * k) % m = 0 % m
    BY SameRemainder
  <1>2. 0 % m = 0 /\ m * k \in Int
    OBVIOUS
  <1> QED
    BY <1>1, <1>2

(* Divisibility is transitive: what is aligned to a page is aligned to     *)
(* every smaller alignment.                                                *)
LEMMA Transitive ==
  ASSUME NEW m \in Nat \ {0}, NEW p \in Nat \ {0}, NEW n \in Int, p % m = 0, n % p = 0
  PROVE  n % m = 0
  <1>1. PICK j \in Int : p = m * j
    BY Multiple
  <1>2. PICK k \in Int : n = p * k
    BY Multiple
  <1>3. j * k \in Int /\ n = m * (j * k)
    BY <1>1, <1>2
  <1>4. PICK i \in Int : i = j * k
    BY <1>3
  <1> QED
    BY <1>3, <1>4, NoRemainder

(* The padding of align and of the linker's ALIGN                          *)
LEMMA Padding ==
  ASSUME NEW n \in Int, NEW m \in Nat \ {0}
  PROVE  PadTo(n, m) \in Nat /\ (n + PadTo(n, m)) % m = 0
  <1>1. -n \in Int
    OBVIOUS
  <1>2. PICK d \in Int : d = -n
    BY <1>1
  <1>3. d \div m \in Int /\ d % m \in 0 .. m - 1 /\ d = m * (d \div m) + (d % m)
    BY Division
  <1>4. PICK q \in Int : q = d \div m
    BY <1>3
  <1>5. PICK r \in Nat : r = d % m
    BY <1>3
  <1>6. m * q \in Int /\ m * (-q) = -(m * q) /\ -q \in Int
    OBVIOUS
  <1>7. n + r = m * (-q)
    BY <1>2, <1>3, <1>4, <1>5, <1>6
  <1>8. (m * (-q)) % m = 0
    BY <1>6, NoRemainder
  <1> QED
    BY <1>2, <1>5, <1>7, <1>8 DEF PadTo

(* does not depend on a first address that is aligned.                     *)
LEMMA PaddingShift ==
  ASSUME NEW n \in Int, NEW m \in Nat \ {0}, NEW b \in Int, b % m = 0
  PROVE  PadTo(b + n, m) = PadTo(n, m)
  <1>1. PICK k \in Int : b = m * k
    BY Multiple
  <1>2. -n \in Int /\ -k \in Int /\ m * k \in Int /\ m * (-k) = -(m * k)
    OBVIOUS
  <1>3. -(b + n) = (-n) + m * (-k)
    BY <1>1, <1>2
  <1>4. ((-n) + m * (-k)) % m = (-n) % m
    BY <1>2, SameRemainder
  <1> QED
    BY <1>3, <1>4 DEF PadTo

-----------------------------------------------------------------------------
(* The largest value of the architectures                                  *)

(* The architectures are those of the list.                                *)
LEMMA ArchNumbers ==
  /\ Len(considered_archs) \in Nat \ {0}
  /\ DOMAIN considered_archs = 1 .. Len(considered_archs)
  /\ \A a \in Archs : \E i \in 1 .. Len(considered_archs) : a = considered_archs[i]
  /\ \A i \in 1 .. Len(considered_archs) : considered_archs[i] \in Archs
  BY ListAssumption DEF Archs

(* There are finitely many.                                                *)
LEMMA ArchsFinite ==
  \A S \in SUBSET Archs : Cardinality(S) \in Nat
  <1> DEFINE N == Len(considered_archs)
  <1>1. \A a, b \in Int : IsFiniteSet(a .. b)
    BY FS_Interval
  <1>2. N \in Nat
    BY ArchNumbers
  <1>3. IsFiniteSet(1 .. N)
    BY <1>1, <1>2
  <1>4. considered_archs \in Surjection(1 .. N, Archs)
    <2>1. considered_archs \in [1 .. N -> Archs]
      BY ListAssumption
    <2> QED
      BY <2>1, ArchNumbers DEF Surjection
  <1>5. IsFiniteSet(Archs)
    BY <1>3, <1>4, FS_Surjection
  <1> QED
    BY <1>5, FS_Subset, FS_CardinalityType

(* A non-empty set of natural numbers has a smallest element.              *)
LEMMA SmallestOf ==
  ASSUME NEW S \in SUBSET Nat, S # {}
  PROVE  \E m \in S : \A k \in S : m <= k
  <1>1. IsWellFoundedOn(OpToRel(<, Nat), Nat)
    BY NatLessThanWellFounded
  <1>2. PICK m \in S : \A k \in S : ~(<<k, m>> \in OpToRel(<, Nat))
    BY <1>1, WFMin
  <1>3. \A k \in S : ~(k < m)
    BY <1>2 DEF OpToRel
  <1> QED
    BY <1>3

(* Some architecture has the largest value: otherwise there would be a     *)
(* shortest part of the list without one, and adding an architecture to a  *)
(* part that has one does not lose it.                                     *)
LEMMA SomeLargest ==
  ASSUME NEW f \in [Archs -> Int]
  PROVE  \E a \in Archs : \A b \in Archs : f[b] <= f[a]
  <1> DEFINE N == Len(considered_archs)
             g(i) == f[considered_archs[i]]
             HasLargest(n) == \E m \in 1 .. n : \A i \in 1 .. n : g(i) <= g(m)
             S == {n \in 1 .. N : ~HasLargest(n)}
  <1>1. \A i \in 1 .. N : g(i) \in Int
    BY ArchNumbers
  <1>2. N \in Nat \ {0}
    BY ArchNumbers
  <1> HIDE DEF N, g, HasLargest
  <1>3. S = {}
    <2> SUFFICES ASSUME S # {} PROVE FALSE
      OBVIOUS
    <2>1. S \in SUBSET Nat
      BY <1>2
    <2>2. PICK n \in S : \A k \in S : n <= k
      BY <2>1, SmallestOf
    <2>3. n \in 1 .. N /\ ~HasLargest(n) /\ n \in Nat
      BY <2>1
    <2>4. CASE n = 1
      <3>1. 1 \in 1 .. n /\ \A i \in 1 .. n : g(i) <= g(1)
        BY <1>1, <1>2, <2>4
      <3> QED
        BY <2>3, <3>1 DEF HasLargest
    <2>5. CASE n # 1
      <3>1. n - 1 \in 1 .. N /\ ~(n <= n - 1)
        BY <1>2, <2>3, <2>5
      <3>2. n - 1 \notin S
        BY <2>2, <3>1
      <3>3. HasLargest(n - 1)
        BY <3>1, <3>2
      <3>4. PICK m \in 1 .. n - 1 : \A i \in 1 .. n - 1 : g(i) <= g(m)
        BY <3>3 DEF HasLargest
      <3>5. g(m) \in Int /\ g(n) \in Int /\ \A i \in 1 .. n - 1 : g(i) \in Int
        BY <1>1, <1>2, <2>3
      <3>6. n \in 1 .. n /\ m \in 1 .. n /\ \A i \in 1 .. n : i \in 1 .. n - 1 \/ i = n
        BY <1>2, <2>3
      <3>7. CASE g(m) <= g(n)
        <4>1. \A i \in 1 .. n : g(i) <= g(n)
          BY <3>4, <3>5, <3>6, <3>7
        <4> QED
          BY <2>3, <3>6, <4>1 DEF HasLargest
      <3>8. CASE ~(g(m) <= g(n))
        <4>1. \A i \in 1 .. n : g(i) <= g(m)
          BY <3>4, <3>5, <3>6, <3>8
        <4> QED
          BY <2>3, <3>6, <4>1 DEF HasLargest
      <3> QED
        BY <3>7, <3>8
    <2> QED
      BY <2>4, <2>5
  <1>4. N \in 1 .. N
    BY <1>2
  <1>5. PICK m \in 1 .. N : \A i \in 1 .. N : g(i) <= g(m)
    BY <1>3, <1>4 DEF HasLargest
  <1>6. considered_archs[m] \in Archs
    BY ArchNumbers DEF N
  <1>7. ASSUME NEW b \in Archs PROVE f[b] <= f[considered_archs[m]]
    <2>1. PICK i \in 1 .. N : b = considered_archs[i]
      BY ArchNumbers DEF N
    <2> QED
      BY <1>5, <2>1 DEF g
  <1> QED
    BY <1>6, <1>7

(* It is what Largest returns.                                             *)
LEMMA LargestIs ==
  ASSUME NEW f \in [Archs -> Int]
  PROVE  /\ Largest(f) \in Int
         /\ \E a \in Archs : f[a] = Largest(f)
         /\ \A a \in Archs : f[a] <= Largest(f)
  <1>1. PICK a \in Archs : \A b \in Archs : f[b] <= f[a]
    BY SomeLargest
  <1>2. \E n \in {f[b] : b \in Archs} : \A b \in Archs : f[b] <= n
    BY <1>1
  <1>3. Largest(f) \in {f[b] : b \in Archs} /\ \A b \in Archs : f[b] <= Largest(f)
    BY <1>2 DEF Largest
  <1> QED
    BY <1>3

(* Nothing else is the largest value.                                      *)
LEMMA LargestUnique ==
  ASSUME NEW f \in [Archs -> Int], NEW a \in Archs, \A b \in Archs : f[b] <= f[a]
  PROVE  Largest(f) = f[a]
  BY LargestIs

-----------------------------------------------------------------------------
(* Symbols                                                                 *)

(* A symbol of the lists has an alignment that divides a page, and a size. *)
LEMMA SymbolFacts ==
  ASSUME NEW s \in SymbolRecords, SymbolOK(s)
  PROVE  /\ Largest(s.alignment) \in Nat \ {0}
         /\ PAGE_ALIGN % Largest(s.alignment) = 0
         /\ Largest(s.size) \in Nat
         /\ \A a \in Archs : s.size[a] \in Int /\ s.size[a] <= Largest(s.size)
         /\ \A a \in Archs : a \in Referenced(s) <=> s.size[a] >= 0
  <1>1. s.size \in [Archs -> Int] /\ s.alignment \in [Archs -> Int]
    BY DEF SymbolRecords
  <1>2. PICK f \in [Archs -> Int] : f = s.alignment
    BY <1>1
  <1>3. PICK g \in [Archs -> Int] : g = s.size
    BY <1>1
  <1>4. /\ Largest(f) \in Int /\ \A a \in Archs : f[a] <= Largest(f)
        /\ Largest(g) \in Int /\ \A a \in Archs : g[a] <= Largest(g)
    BY LargestIs
  <1>5. PICK a \in Archs : f[a] = Largest(f)
    BY LargestIs
  <1>6. PICK b \in Archs : g[b] >= 0
    BY <1>3 DEF SymbolOK
  <1>7. f[b] \in Nat \ {0}
    BY <1>2, <1>3, <1>6 DEF SymbolOK
  <1>8. f[a] \in Nat \ {0} /\ PAGE_ALIGN % f[a] = 0
    <2>1. f[b] <= f[a] /\ f[a] \in Int
      BY <1>4, <1>5
    <2>2. f[a] # -1
      BY <1>7, <2>1
    <2> QED
      BY <1>2, <1>3, <2>2 DEF SymbolOK
  <1>9. Largest(g) \in Nat
    <2>1. g[b] <= Largest(g) /\ g[b] \in Int
      BY <1>4
    <2> QED
      BY <1>4, <1>6, <2>1
  <1> QED
    BY <1>2, <1>3, <1>4, <1>5, <1>8, <1>9 DEF Referenced

(* A symbol with other paddings and alignments                             *)
LEMMA SymbolUpdate ==
  ASSUME NEW s \in SymbolRecords, NEW f, NEW b, NEW d
  PROVE  [s EXCEPT !.alignment = f, !.before = b, !.after = d] =
         [name |-> s.name, size |-> s.size, alignment |-> f, before |-> b, after |-> d]
  <1>1. PICK v, g, h, i, j :
          s = [name |-> v, size |-> g, alignment |-> h, before |-> i, after |-> j]
    BY DEF SymbolRecords
  <1> DEFINE t == [s EXCEPT !.alignment = f]
             u == [t EXCEPT !.before = b]
  <1>2. t = [name |-> v, size |-> g, alignment |-> f, before |-> i, after |-> j]
    BY <1>1
  <1> HIDE DEF t
  <1>3. u = [name |-> v, size |-> g, alignment |-> f, before |-> b, after |-> j]
    BY <1>2
  <1> HIDE DEF u
  <1>4. [u EXCEPT !.after = d] =
          [name |-> v, size |-> g, alignment |-> f, before |-> b, after |-> d]
    BY <1>3
  <1>5. v = s.name /\ g = s.size
    BY <1>1
  <1> QED
    BY <1>4, <1>5 DEF t, u

(* What align does to a symbol keeps its name, its size and its largest    *)
(* alignment.                                                              *)
LEMMA AlignedSymbolFacts ==
  ASSUME NEW s \in SymbolRecords, SymbolOK(s), NEW n \in Int
  PROVE  /\ AlignedSymbol(s, n) \in SymbolRecords
         /\ AlignedSymbol(s, n).name = s.name
         /\ AlignedSymbol(s, n).size = s.size
         /\ Referenced(AlignedSymbol(s, n)) = Referenced(s)
         /\ Largest(AlignedSymbol(s, n).alignment) = Largest(s.alignment)
         /\ SymbolOK(AlignedSymbol(s, n))
         /\ \A a \in Archs :
              IF a \in Referenced(s)
              THEN /\ AlignedSymbol(s, n).alignment[a] = Largest(s.alignment)
                   /\ AlignedSymbol(s, n).after[a] = s.after[a] + Largest(s.size) - s.size[a]
              ELSE /\ AlignedSymbol(s, n).before[a] = s.before[a] + PadTo(n, Largest(s.alignment))
                   /\ AlignedSymbol(s, n).after[a] = s.after[a] + Largest(s.size)
  <1> DEFINE t == AlignedSymbol(s, n)
             m == Largest(s.alignment)
             z == Largest(s.size)
             f == [a \in Archs |-> IF a \in Referenced(s) THEN m ELSE -1]
             b == [a \in Archs |-> IF a \in Referenced(s) THEN s.before[a]
                                   ELSE s.before[a] + PadTo(n, m)]
             d == [a \in Archs |-> s.after[a] + z - (IF a \in Referenced(s) THEN s.size[a] ELSE 0)]
  <1>1. /\ m \in Nat \ {0} /\ PAGE_ALIGN % m = 0 /\ z \in Nat
        /\ \A a \in Archs : s.size[a] \in Int /\ s.size[a] <= z
        /\ \A a \in Archs : a \in Referenced(s) <=> s.size[a] >= 0
    BY SymbolFacts
  <1>2. /\ s.name \in Symbols /\ s.size \in [Archs -> Int] /\ s.alignment \in [Archs -> Int]
        /\ s.before \in [Archs -> Int] /\ s.after \in [Archs -> Int]
        /\ s = [name |-> s.name, size |-> s.size, alignment |-> s.alignment,
                before |-> s.before, after |-> s.after]
    BY DEF SymbolRecords
  <1>3. t = [name |-> s.name, size |-> s.size, alignment |-> f, before |-> b, after |-> d]
    <2>1. t = [s EXCEPT !.alignment = f, !.before = b, !.after = d]
      BY DEF AlignedSymbol
    <2> HIDE DEF f, b, d, t
    <2> QED
      BY <2>1, SymbolUpdate
  <1>4. PadTo(n, m) \in Nat
    BY <1>1, Padding
  <1> HIDE DEF t, m, z
  <1>5. f \in [Archs -> Int] /\ b \in [Archs -> Int] /\ d \in [Archs -> Int]
    BY <1>1, <1>2, <1>4
  <1>6. t \in SymbolRecords
    BY <1>2, <1>3, <1>5 DEF SymbolRecords
  <1>7. t.name = s.name /\ t.size = s.size /\ t.alignment = f /\ t.before = b /\ t.after = d
    BY <1>3
  <1>8. Referenced(t) = Referenced(s)
    BY <1>7 DEF Referenced
  <1>9. PICK a \in Archs : s.size[a] >= 0
    BY DEF SymbolOK
  <1>10. Largest(f) = m
    <2>1. f[a] = m /\ \A c \in Archs : f[c] <= f[a]
      BY <1>1, <1>9
    <2> QED
      BY <1>5, <2>1, LargestUnique
  <1>11. SymbolOK(t)
    <2>1. \A c \in Archs : s.size[c] >= 0 \/ s.size[c] = -1
      BY DEF SymbolOK
    <2> QED
      BY <1>1, <1>7, <1>9, <2>1 DEF SymbolOK
  <1>12. ASSUME NEW c \in Archs
         PROVE  IF c \in Referenced(s)
                THEN t.alignment[c] = m /\ t.after[c] = s.after[c] + z - s.size[c]
                ELSE t.before[c] = s.before[c] + PadTo(n, m) /\ t.after[c] = s.after[c] + z
    BY <1>1, <1>2, <1>7
  <1> QED
    BY <1>6, <1>7, <1>8, <1>10, <1>11, <1>12 DEF t, m, z

-----------------------------------------------------------------------------
(* Sections and lists                                                      *)

(* Every section has one number.                                           *)
LEMMA SectionFacts ==
  /\ Len(considered_sections) \in Nat \ {0}
  /\ SectionNumbers = 1 .. Len(considered_sections)
  /\ \A k \in SectionNumbers : considered_sections[k] \in Sections
  /\ \A c \in Sections : \E k \in SectionNumbers : c = considered_sections[k]
  /\ \A j, k \in SectionNumbers : considered_sections[j] = considered_sections[k] => j = k
  BY ListAssumption DEF SectionNumbers, Sections

(* The elements of the lists                                               *)
LEMMA WorkFacts ==
  ASSUME TypeOK
  PROVE  \A c \in Sections :
           /\ Len(work[c]) \in Nat /\ DOMAIN work[c] = 1 .. Len(work[c])
           /\ \A i \in DOMAIN work[c] : work[c][i] \in SymbolRecords
  <1>1. \A c \in Sections : work[c] \in Seq(SymbolRecords)
    BY DEF TypeOK
  <1> QED
    BY <1>1

(* The numbers of a list's end are integers.                               *)
LEMMA EndFacts ==
  ASSUME TypeOK, WorkOK, NEW c \in Sections, NEW i \in 0 .. Len(work[c])
  PROVE  /\ End(c, i) \in Int
         /\ i # 0 => /\ Largest(work[c][i].size) \in Nat
                     /\ End(c, i) = planned[work[c][i].name] + Largest(work[c][i].size)
                     /\ planned[work[c][i].name] \in Int
  <1>1. CASE i = 0
    BY <1>1 DEF End
  <1>2. CASE i # 0
    <2>1. i \in DOMAIN work[c] /\ work[c][i] \in SymbolRecords
      BY <1>2, WorkFacts
    <2>2. PICK s \in SymbolRecords : s = work[c][i]
      BY <2>1
    <2>3. SymbolOK(s)
      BY <2>1, <2>2 DEF WorkOK
    <2>4. Largest(s.size) \in Nat
      BY <2>3, SymbolFacts
    <2>5. s.name \in Symbols
      BY DEF SymbolRecords
    <2>6. planned[s.name] \in Int
      BY <2>5 DEF TypeOK
    <2> QED
      BY <1>2, <2>2, <2>4, <2>6 DEF End
  <1> QED
    BY <1>1, <1>2

-----------------------------------------------------------------------------
(* Merging and ordering                                                    *)

(* The invariant holds before the first entry is merged.                   *)
LEMMA InvInit == AlignInit /\ MapFiles => IInv
  <1> SUFFICES ASSUME AlignInit, MapFiles PROVE IInv
    OBVIOUS
  <1>1. \A c \in Sections : work[c] = << >> /\ DOMAIN work[c] = {}
    BY DEF AlignInit
  <1>2. TypeOK
    <2>1. work \in [Sections -> Seq(SymbolRecords)]
      BY DEF AlignInit
    <2>2. cur \in [section : SectionNumbers, symbol : Nat]
      BY SectionFacts DEF AlignInit
    <2>3. planned \in [Symbols -> Int] /\ at \in [Archs -> [Symbols -> Int]]
      BY DEF AlignInit, Nowhere
    <2>4. /\ rest \in [Archs -> [Sections -> Nat]] /\ address \in Nat
          /\ dot \in [Archs -> Int] /\ base \in [Archs -> [Sections -> Int]]
          /\ phase \in {"collect", "align", "link", "linked", "failed"}
      BY DEF AlignInit
    <2> QED
      BY <2>1, <2>2, <2>3, <2>4 DEF TypeOK, MapFiles
  <1>3. WorkOK
    BY <1>1 DEF WorkOK
  <1>4. OneSection
    BY <1>1 DEF OneSection, MapFiles
  <1>5. Merge
    BY DEF Merge, AlignInit
  <1>6. Unmet /\ Aligned /\ Apart /\ InPlace
    BY <1>1, SectionFacts DEF Unmet, Aligned, Apart, InPlace
  <1>7. AlignLoop /\ LinkLoop
    BY DEF AlignLoop, LinkLoop, AlignInit
  <1> QED
    BY <1>2, <1>3, <1>4, <1>5, <1>6, <1>7 DEF IInv

(* Before align there is nothing to say of the lists' layout.              *)
LEMMA BeforeAlign ==
  ASSUME TypeOK', Merge', phase' \in {"collect", "failed"}
  PROVE  AlignLoop' /\ Aligned' /\ Apart' /\ LinkLoop' /\ InPlace'
  <1>1. \A k, i : ~(Met(k, i)') /\ ~(Placed(k, i)')
    BY DEF Met, Placed
  <1>2. AlignLoop' /\ LinkLoop'
    BY DEF AlignLoop, LinkLoop
  <1>3. Aligned' /\ Apart'
    BY <1>1 DEF Aligned, Apart
  <1>4. InPlace'
    <2>1. at' = [a \in Archs |-> Nowhere]
      BY DEF Merge, Nowhere
    <2>2. \A c \in Sections : \A i \in DOMAIN work'[c] : work'[c][i].name \in Symbols
      <3>1. \A c \in Sections : work'[c] \in Seq(SymbolRecords)
        BY DEF TypeOK
      <3>2. \A c \in Sections : \A i \in DOMAIN work'[c] : work'[c][i] \in SymbolRecords
        BY <3>1
      <3> QED
        BY <3>2 DEF SymbolRecords
    <2>3. \A a \in Archs : \A s \in Symbols : at'[a][s] = -1
      BY <2>1 DEF Nowhere
    <2> QED
      BY <1>1, <2>2, <2>3, SectionFacts DEF InPlace
  <1> QED
    BY <1>2, <1>3, <1>4

(* Merging takes the first entry of a map.                                 *)
LEMMA MergingFacts ==
  ASSUME TypeOK, NEW a \in Archs, NEW e, Merging(a, e)
  PROVE  /\ e \in Entries /\ 1 \in DOMAIN pending[a] /\ e = pending[a][1]
         /\ pending' \in [Archs -> Seq(Entries)]
         /\ \A b \in Archs : \A i \in DOMAIN pending'[b] :
              \E j \in DOMAIN pending[b] : pending'[b][i] = pending[b][j]
  <1>1. pending \in [Archs -> Seq(Entries)]
    BY DEF TypeOK
  <1>2. PICK q \in Seq(Entries) : q = pending[a]
    BY <1>1
  <1>3. q # << >> /\ e = Head(q) /\ pending' = [pending EXCEPT ![a] = Tail(q)]
    BY <1>2 DEF Merging
  <1>4. 1 \in DOMAIN q /\ e = q[1] /\ e \in Entries
    BY <1>3
  <1>5. /\ Tail(q) \in Seq(Entries)
        /\ \A i \in DOMAIN Tail(q) : i + 1 \in DOMAIN q /\ Tail(q)[i] = q[i + 1]
    BY <1>3
  <1>6. pending'[a] = Tail(q) /\ \A b \in Archs \ {a} : pending'[b] = pending[b]
    BY <1>1, <1>3
  <1>7. pending' \in [Archs -> Seq(Entries)]
    BY <1>1, <1>3, <1>5
  <1>8. ASSUME NEW b \in Archs, NEW i \in DOMAIN pending'[b]
        PROVE  \E j \in DOMAIN pending[b] : pending'[b][i] = pending[b][j]
    <2>1. CASE b = a
      BY <1>2, <1>5, <1>6, <2>1
    <2>2. CASE b # a
      BY <1>6, <2>2
    <2> QED
      BY <2>1, <2>2
  <1> QED
    BY <1>2, <1>4, <1>7, <1>8

(* Fewer entries to merge, with the lists as they are                      *)
LEMMA MergingOneSection ==
  ASSUME TypeOK, OneSection, NEW a \in Archs, NEW e, Merging(a, e), work' = work
  PROVE  OneSection'
  <1>1. \A b \in Archs : \A i \in DOMAIN pending'[b] :
          \E j \in DOMAIN pending[b] : pending'[b][i] = pending[b][j]
    BY MergingFacts
  <1>2. ASSUME NEW b \in Archs, NEW i \in DOMAIN pending'[b], ~pending'[b][i].blacklisted
        PROVE  /\ \A c \in Sections : \A j \in DOMAIN work'[c] :
                    work'[c][j].name = pending'[b][i].name => c = pending'[b][i].section
               /\ \A d \in Archs : \A j \in DOMAIN pending'[d] :
                    ~pending'[d][j].blacklisted /\ pending'[d][j].name = pending'[b][i].name
                      => pending'[d][j].section = pending'[b][i].section
    <2>1. PICK k \in DOMAIN pending[b] : pending'[b][i] = pending[b][k]
      BY <1>1
    <2>2. \A c \in Sections : \A j \in DOMAIN work[c] :
            work[c][j].name = pending[b][k].name => c = pending[b][k].section
      BY <1>2, <2>1 DEF OneSection
    <2>3. ASSUME NEW d \in Archs, NEW j \in DOMAIN pending'[d],
                 ~pending'[d][j].blacklisted, pending'[d][j].name = pending'[b][i].name
          PROVE  pending'[d][j].section = pending'[b][i].section
      <3>1. PICK m \in DOMAIN pending[d] : pending'[d][j] = pending[d][m]
        BY <1>1
      <3> QED
        BY <1>2, <2>1, <2>3, <3>1 DEF OneSection
    <2> QED
      BY <2>1, <2>2, <2>3
  <1>3. \A c, d \in Sections : \A i \in DOMAIN work'[c], j \in DOMAIN work'[d] :
          work'[c][i].name = work'[d][j].name => c = d /\ i = j
    BY DEF OneSection
  <1> QED
    BY <1>2, <1>3 DEF OneSection

(* A residue is skipped                                                    *)
LEMMA SkipInv ==
  ASSUME IInv, NEW a \in Archs, NEW e, SkipBlacklisted(a, e)
  PROVE  IInv'
  <1> USE DEF IInv
  <1>1. Merging(a, e) /\ phase = "collect"
    BY DEF SkipBlacklisted, Merging
  <1>2. e \in Entries /\ pending' \in [Archs -> Seq(Entries)]
    BY <1>1, MergingFacts
  <1>3. rest' \in [Archs -> [Sections -> Nat]]
    <2>1. rest \in [Archs -> [Sections -> Nat]] /\ e.section \in Sections /\ e.size \in Nat
      BY <1>2 DEF TypeOK, Entries
    <2>2. rest[a][e.section] + e.size \in Nat
      BY <2>1
    <2> QED
      BY <2>1, <2>2 DEF SkipBlacklisted
  <1>4. TypeOK'
    BY <1>2, <1>3 DEF TypeOK, SkipBlacklisted
  <1>5. OneSection'
    BY <1>1, MergingOneSection DEF SkipBlacklisted
  <1>6. WorkOK' /\ Merge'
    BY DEF WorkOK, Merge, SkipBlacklisted, Nowhere, SymbolOK
  <1>7. Unmet'
    BY DEF Unmet, Met, Behind, SkipBlacklisted
  <1> QED
    BY <1>1, <1>4, <1>5, <1>6, <1>7, BeforeAlign DEF SkipBlacklisted

(* ... and a repeated symbol ends the program.                             *)
LEMMA FailInv ==
  ASSUME IInv, NEW a \in Archs, NEW e, AlreadyReferenced(a, e)
  PROVE  IInv'
  <1> USE DEF IInv
  <1>1. Merging(a, e) /\ phase = "collect" /\ phase' = "failed"
    BY DEF AlreadyReferenced, Merging
  <1>2. pending' \in [Archs -> Seq(Entries)]
    BY <1>1, MergingFacts
  <1>3. TypeOK'
    BY <1>2 DEF TypeOK, AlreadyReferenced
  <1>4. OneSection'
    BY <1>1, MergingOneSection DEF AlreadyReferenced
  <1>5. WorkOK' /\ Merge'
    BY <1>1 DEF WorkOK, Merge, AlreadyReferenced, Nowhere, SymbolOK
  <1>6. Unmet'
    BY <1>1 DEF Unmet
  <1> QED
    BY <1>1, <1>3, <1>4, <1>5, <1>6, BeforeAlign DEF AlreadyReferenced

(* A symbol as it is first merged                                          *)
LEMMA NewSymbol ==
  ASSUME NEW e \in Entries, NEW a \in Archs
  PROVE  /\ Symbol(e, a) \in SymbolRecords /\ SymbolOK(Symbol(e, a))
         /\ Symbol(e, a).name = e.name
         /\ \A b \in Archs : Symbol(e, a).before[b] = 0 /\ Symbol(e, a).after[b] = 0
  <1>1. /\ e.name \in Symbols /\ e.size \in Nat
        /\ e.alignment \in Nat \ {0} /\ PAGE_ALIGN % e.alignment = 0
    BY DEF Entries
  <1>2. Symbol(e, a) \in SymbolRecords
    BY <1>1 DEF SymbolRecords, Symbol
  <1>3. SymbolOK(Symbol(e, a))
    BY <1>1 DEF SymbolOK, Symbol
  <1>4. /\ Symbol(e, a).name = e.name
        /\ \A b \in Archs : Symbol(e, a).before[b] = 0 /\ Symbol(e, a).after[b] = 0
    BY DEF Symbol
  <1> QED
    BY <1>2, <1>3, <1>4

(* ... and when another map refers to it                                   *)
MergedWith(s, a, e) == [s EXCEPT !.size[a] = e.size, !.alignment[a] = e.alignment]

(* it keeps its name and its paddings.                                     *)
LEMMA MergedSymbol ==
  ASSUME NEW e \in Entries, NEW a \in Archs, NEW s \in SymbolRecords, SymbolOK(s)
  PROVE  /\ MergedWith(s, a, e) \in SymbolRecords /\ SymbolOK(MergedWith(s, a, e))
         /\ MergedWith(s, a, e).name = s.name
         /\ MergedWith(s, a, e).before = s.before
         /\ MergedWith(s, a, e).after = s.after
  <1> DEFINE f == [s.size EXCEPT ![a] = e.size]
             g == [s.alignment EXCEPT ![a] = e.alignment]
             u == [s EXCEPT !.size[a] = e.size]
             t == [u EXCEPT !.alignment[a] = e.alignment]
  <1>1. /\ e.size \in Nat
        /\ e.alignment \in Nat \ {0} /\ PAGE_ALIGN % e.alignment = 0
    BY DEF Entries
  <1>2. /\ s.name \in Symbols /\ s.size \in [Archs -> Int] /\ s.alignment \in [Archs -> Int]
        /\ s.before \in [Archs -> Int] /\ s.after \in [Archs -> Int]
        /\ s = [name |-> s.name, size |-> s.size, alignment |-> s.alignment,
                before |-> s.before, after |-> s.after]
    BY DEF SymbolRecords
  <1>3. u = [name |-> s.name, size |-> f, alignment |-> s.alignment,
             before |-> s.before, after |-> s.after]
    BY <1>2
  <1> HIDE DEF u, f
  <1>4. t = [name |-> s.name, size |-> f, alignment |-> g, before |-> s.before, after |-> s.after]
    BY <1>3
  <1> HIDE DEF t, g
  <1>5. f \in [Archs -> Int] /\ g \in [Archs -> Int]
    BY <1>1, <1>2 DEF f, g
  <1>6. t \in SymbolRecords
    BY <1>2, <1>4, <1>5 DEF SymbolRecords
  <1>7. \A b \in Archs :
          /\ f[b] = (IF b = a THEN e.size ELSE s.size[b])
          /\ g[b] = (IF b = a THEN e.alignment ELSE s.alignment[b])
    BY <1>2 DEF f, g
  <1>8. SymbolOK(t)
    <2>1. t.size = f /\ t.alignment = g
      BY <1>4
    <2>2. \A b \in Archs :
            IF s.size[b] >= 0
            THEN s.alignment[b] \in Nat \ {0} /\ PAGE_ALIGN % s.alignment[b] = 0
            ELSE s.size[b] = -1 /\ s.alignment[b] = -1
      BY DEF SymbolOK
    <2>3. \A b \in Archs :
            IF f[b] >= 0
            THEN g[b] \in Nat \ {0} /\ PAGE_ALIGN % g[b] = 0
            ELSE f[b] = -1 /\ g[b] = -1
      BY <1>1, <1>7, <2>2
    <2>4. f[a] >= 0
      BY <1>1, <1>7
    <2> QED
      BY <2>1, <2>3, <2>4 DEF SymbolOK
  <1>9. t.name = s.name /\ t.before = s.before /\ t.after = s.after
    BY <1>4
  <1> QED
    BY <1>6, <1>8, <1>9 DEF t, u, MergedWith

(* The list of the entry's section after merging: its symbols are those it *)
(* had, or one more at its end.                                            *)
LEMMA MergedList ==
  ASSUME IInv, NEW a \in Archs, NEW e \in Entries, updateSymbolsList(a, e)
  PROVE  /\ work' \in [Sections -> Seq(SymbolRecords)]
         /\ WorkOK'
         /\ \A c \in Sections : \A i \in DOMAIN work'[c] : \A b \in Archs :
              work'[c][i].before[b] = 0 /\ work'[c][i].after[b] = 0
         /\ \A c \in Sections : \A i \in DOMAIN work'[c] :
              \/ i \in DOMAIN work[c] /\ work'[c][i].name = work[c][i].name
              \/ /\ c = e.section /\ i = Len(work[c]) + 1
                 /\ work'[c][i].name = e.name /\ Matches(e) = {}
  <1> DEFINE c0 == e.section
             w == work[c0]
             merged == [i \in DOMAIN w |->
                          IF i \notin Matches(e) THEN w[i] ELSE MergedWith(w[i], a, e)]
             v == IF Matches(e) = {} THEN Append(w, Symbol(e, a)) ELSE merged
  <1>1. TypeOK /\ WorkOK /\ phase = "collect" /\ c0 \in Sections
    BY DEF IInv, updateSymbolsList, Merging, Entries
  <1>2. work' = [work EXCEPT ![c0] = v]
    BY DEF updateSymbolsList, MergedWith
  <1>3. /\ w \in Seq(SymbolRecords) /\ Len(w) \in Nat /\ DOMAIN w = 1 .. Len(w)
        /\ \A i \in DOMAIN w : w[i] \in SymbolRecords
    BY <1>1, WorkFacts DEF TypeOK
  <1>4. \A i \in DOMAIN w : SymbolOK(w[i])
    BY <1>1 DEF WorkOK
  <1>5. \A c \in Sections : \A i \in DOMAIN work[c] : \A b \in Archs :
          work[c][i].before[b] = 0 /\ work[c][i].after[b] = 0
    <2>1. \A k, i : ~Met(k, i)
      BY <1>1 DEF Met
    <2> QED
      BY <1>1, <2>1, SectionFacts DEF IInv, Unmet
  <1>6. /\ v \in Seq(SymbolRecords)
        /\ \A i \in DOMAIN v :
             /\ SymbolOK(v[i])
             /\ \A b \in Archs : v[i].before[b] = 0 /\ v[i].after[b] = 0
             /\ \/ i \in DOMAIN w /\ v[i].name = w[i].name
                \/ i = Len(w) + 1 /\ v[i].name = e.name /\ Matches(e) = {}
    <2>1. CASE Matches(e) = {}
      <3> DEFINE s == Symbol(e, a)
      <3>1. /\ s \in SymbolRecords /\ SymbolOK(s) /\ s.name = e.name
            /\ \A b \in Archs : s.before[b] = 0 /\ s.after[b] = 0
        BY NewSymbol
      <3> HIDE DEF s, w, c0
      <3>2. v = Append(w, s)
        BY <2>1 DEF s, w, c0
      <3> HIDE DEF v
      <3>3. /\ v \in Seq(SymbolRecords) /\ DOMAIN v = 1 .. Len(w) + 1
            /\ \A i \in DOMAIN w : v[i] = w[i]
            /\ v[Len(w) + 1] = s
        BY <1>3, <3>1, <3>2, AppendProperties
      <3>4. \A i \in DOMAIN v : i \in DOMAIN w \/ i = Len(w) + 1
        BY <1>3, <3>3
      <3>5. \A i \in DOMAIN w : \A b \in Archs : w[i].before[b] = 0 /\ w[i].after[b] = 0
        BY <1>1, <1>5 DEF w
      <3> QED
        BY <1>4, <2>1, <3>1, <3>3, <3>4, <3>5
    <2>2. CASE Matches(e) # {}
      <3>1. \A i \in DOMAIN w : \A b \in Archs : w[i].before[b] = 0 /\ w[i].after[b] = 0
        BY <1>1, <1>5
      <3>2. v = merged /\ DOMAIN v = DOMAIN w
        BY <2>2
      <3>3. ASSUME NEW i \in DOMAIN w
            PROVE  /\ v[i] \in SymbolRecords /\ SymbolOK(v[i]) /\ v[i].name = w[i].name
                   /\ \A b \in Archs : v[i].before[b] = 0 /\ v[i].after[b] = 0
        <4>1. PICK s \in SymbolRecords : s = w[i]
          BY <1>3
        <4>2. SymbolOK(s) /\ \A b \in Archs : s.before[b] = 0 /\ s.after[b] = 0
          BY <1>4, <3>1, <4>1
        <4>3. /\ MergedWith(s, a, e) \in SymbolRecords /\ SymbolOK(MergedWith(s, a, e))
              /\ MergedWith(s, a, e).name = s.name
              /\ MergedWith(s, a, e).before = s.before
              /\ MergedWith(s, a, e).after = s.after
          BY <4>2, MergedSymbol
        <4>4. v[i] = s \/ v[i] = MergedWith(s, a, e)
          <5> HIDE DEF w
          <5>1. v[i] = IF i \notin Matches(e) THEN w[i] ELSE MergedWith(w[i], a, e)
            BY <3>2
          <5> QED
            BY <4>1, <5>1
        <4> HIDE DEF v
        <4> QED
          BY <4>1, <4>2, <4>3, <4>4
      <3> HIDE DEF v, w
      <3>4. v \in Seq(SymbolRecords)
        BY <1>3, <3>2, <3>3
      <3> QED
        BY <3>2, <3>3, <3>4
    <2> QED
      BY <2>1, <2>2
  <1> HIDE DEF v, c0
  <1>7. work'[c0] = v /\ \A c \in Sections \ {c0} : work'[c] = work[c]
    BY <1>1, <1>2 DEF TypeOK
  <1>8. work' \in [Sections -> Seq(SymbolRecords)]
    BY <1>1, <1>2, <1>6 DEF TypeOK
  <1>9. ASSUME NEW c \in Sections, NEW i \in DOMAIN work'[c]
        PROVE  /\ SymbolOK(work'[c][i])
               /\ \A b \in Archs : work'[c][i].before[b] = 0 /\ work'[c][i].after[b] = 0
               /\ \/ i \in DOMAIN work[c] /\ work'[c][i].name = work[c][i].name
                  \/ /\ c = c0 /\ i = Len(work[c]) + 1
                     /\ work'[c][i].name = e.name /\ Matches(e) = {}
    <2>1. CASE c = c0
      BY <1>6, <1>7, <2>1
    <2>2. CASE c # c0
      <3>1. work'[c] = work[c]
        BY <1>7, <2>2
      <3> QED
        BY <1>1, <1>5, <3>1 DEF WorkOK
    <2> QED
      BY <2>1, <2>2
  <1>10. WorkOK'
    <2>1. ASSUME NEW c \in Sections, NEW i \in DOMAIN work'[c] PROVE SymbolOK(work[c][i])'
      BY <1>9 DEF SymbolOK
    <2> QED
      BY <2>1 DEF WorkOK
  <1> QED
    BY <1>8, <1>9, <1>10 DEF c0

(* An entry is merged into the list of its section.                        *)
LEMMA UpdateInv ==
  ASSUME IInv, NEW a \in Archs, NEW e, updateSymbolsList(a, e)
  PROVE  IInv'
  <1>1. Merging(a, e) /\ phase = "collect" /\ phase' = "collect" /\ ~e.blacklisted
    BY DEF updateSymbolsList, Merging
  <1>2. TypeOK /\ OneSection /\ Merge
    BY DEF IInv
  <1>3. /\ e \in Entries /\ 1 \in DOMAIN pending[a] /\ e = pending[a][1]
        /\ pending' \in [Archs -> Seq(Entries)]
        /\ \A b \in Archs : \A i \in DOMAIN pending'[b] :
             \E j \in DOMAIN pending[b] : pending'[b][i] = pending[b][j]
    BY <1>1, <1>2, MergingFacts
  <1>4. /\ work' \in [Sections -> Seq(SymbolRecords)]
        /\ WorkOK'
        /\ \A c \in Sections : \A i \in DOMAIN work'[c] : \A b \in Archs :
             work'[c][i].before[b] = 0 /\ work'[c][i].after[b] = 0
        /\ \A c \in Sections : \A i \in DOMAIN work'[c] :
             \/ i \in DOMAIN work[c] /\ work'[c][i].name = work[c][i].name
             \/ /\ c = e.section /\ i = Len(work[c]) + 1
                /\ work'[c][i].name = e.name /\ Matches(e) = {}
    BY <1>3, MergedList
  <1>5. TypeOK'
    BY <1>2, <1>3, <1>4 DEF TypeOK, updateSymbolsList
  <1>6. Merge'
    BY <1>2 DEF Merge, updateSymbolsList, Nowhere
  <1>7. Unmet'
    BY <1>4, SectionFacts DEF Unmet
  <1>8. \A c \in Sections : \A j \in DOMAIN work[c] :
          work[c][j].name = e.name => c = e.section /\ j \in Matches(e)
    <2>1. \A c \in Sections : \A j \in DOMAIN work[c] : work[c][j].name = e.name => c = e.section
      BY <1>1, <1>2, <1>3 DEF OneSection
    <2> QED
      BY <2>1 DEF Matches
  <1>9. ASSUME NEW c \in Sections, NEW d \in Sections,
               NEW i \in DOMAIN work'[c], NEW j \in DOMAIN work'[d],
               work'[c][i].name = work'[d][j].name
        PROVE  c = d /\ i = j
    <2>1. CASE i \in DOMAIN work[c] /\ work'[c][i].name = work[c][i].name
      <3>1. CASE j \in DOMAIN work[d] /\ work'[d][j].name = work[d][j].name
        <4>1. work[c][i].name = work[d][j].name
          BY <1>9, <2>1, <3>1
        <4>2. \A m \in DOMAIN work[c], n \in DOMAIN work[d] :
                work[c][m].name = work[d][n].name => c = d /\ m = n
          BY <1>2 DEF OneSection
        <4> QED
          BY <2>1, <3>1, <4>1, <4>2
      <3>2. CASE work'[d][j].name = e.name /\ Matches(e) = {}
        BY <1>8, <1>9, <2>1, <3>2
      <3> QED
        BY <1>4, <3>1, <3>2
    <2>2. CASE /\ c = e.section /\ i = Len(work[c]) + 1
               /\ work'[c][i].name = e.name /\ Matches(e) = {}
      <3>1. CASE j \in DOMAIN work[d] /\ work'[d][j].name = work[d][j].name
        BY <1>8, <1>9, <2>2, <3>1
      <3>2. CASE d = e.section /\ j = Len(work[d]) + 1
        BY <2>2, <3>2
      <3> QED
        BY <1>4, <3>1, <3>2
    <2> QED
      BY <1>4, <2>1, <2>2
  <1>10. ASSUME NEW b \in Archs, NEW i \in DOMAIN pending'[b], ~pending'[b][i].blacklisted
         PROVE  /\ \A c \in Sections : \A j \in DOMAIN work'[c] :
                     work'[c][j].name = pending'[b][i].name => c = pending'[b][i].section
                /\ \A d \in Archs : \A j \in DOMAIN pending'[d] :
                     ~pending'[d][j].blacklisted /\ pending'[d][j].name = pending'[b][i].name
                       => pending'[d][j].section = pending'[b][i].section
    <2>1. PICK k \in DOMAIN pending[b] : pending'[b][i] = pending[b][k]
      BY <1>3
    <2>2. ASSUME NEW c \in Sections, NEW j \in DOMAIN work'[c],
                 work'[c][j].name = pending'[b][i].name
          PROVE  c = pending'[b][i].section
      <3>1. CASE j \in DOMAIN work[c] /\ work'[c][j].name = work[c][j].name
        <4>1. work[c][j].name = pending[b][k].name /\ ~pending[b][k].blacklisted
          BY <1>10, <2>1, <2>2, <3>1
        <4>2. \A n \in DOMAIN work[c] :
                work[c][n].name = pending[b][k].name => c = pending[b][k].section
          BY <1>2, <4>1 DEF OneSection
        <4> QED
          BY <2>1, <3>1, <4>1, <4>2
      <3>2. CASE c = e.section /\ work'[c][j].name = e.name
        <4>1. e.name = pending[b][k].name /\ ~pending[b][k].blacklisted
          BY <1>10, <2>1, <2>2, <3>2
        <4>2. e.section = pending[b][k].section
          BY <1>1, <1>2, <1>3, <4>1 DEF OneSection
        <4> QED
          BY <2>1, <3>2, <4>2
      <3> QED
        BY <1>4, <3>1, <3>2
    <2>3. ASSUME NEW d \in Archs, NEW j \in DOMAIN pending'[d],
                 ~pending'[d][j].blacklisted, pending'[d][j].name = pending'[b][i].name
          PROVE  pending'[d][j].section = pending'[b][i].section
      <3>1. PICK m \in DOMAIN pending[d] : pending'[d][j] = pending[d][m]
        BY <1>3
      <3> QED
        BY <1>2, <1>10, <2>1, <2>3, <3>1 DEF OneSection
    <2> QED
      BY <2>2, <2>3
  <1>11. OneSection'
    BY <1>9, <1>10 DEF OneSection
  <1> QED
    BY <1>1, <1>4, <1>5, <1>6, <1>7, <1>11, BeforeAlign DEF IInv

(* The loops are at a section.                                             *)
LEMMA CurrentSection ==
  ASSUME TypeOK
  PROVE  /\ cur.section \in SectionNumbers /\ cur.symbol \in Nat
         /\ cur.section \in Nat
         /\ section \in Sections /\ section = considered_sections[cur.section]
         /\ \A k \in SectionNumbers : considered_sections[k] = section => k = cur.section
  <1>1. cur.section \in SectionNumbers /\ cur.symbol \in Nat
    BY DEF TypeOK
  <1>2. cur.section \in Nat
    BY <1>1, SectionFacts
  <1> QED
    BY <1>1, <1>2, SectionFacts DEF section

(* The list of a section is ordered: its symbols are still in it, each in  *)
(* one place.                                                              *)
LEMMA OrderInv ==
  ASSUME IInv, orderSymbolList
  PROVE  IInv'
  <1>1. TypeOK /\ WorkOK /\ OneSection /\ Merge /\ Unmet
    BY DEF IInv
  <1> DEFINE c0 == section
             w == work[c0]
             last == cur.section = Len(considered_sections)
  <1>2. c0 \in Sections
    BY <1>1, CurrentSection
  <1>3. PICK p \in [DOMAIN w -> DOMAIN w] :
          Ordered(w, p) /\ work' = [work EXCEPT ![c0] = [i \in DOMAIN w |-> w[p[i]]]]
    BY DEF orderSymbolList
  <1>4. /\ w \in Seq(SymbolRecords) /\ Len(w) \in Nat /\ DOMAIN w = 1 .. Len(w)
        /\ \A i \in DOMAIN w : w[i] \in SymbolRecords
    BY <1>1, <1>2, WorkFacts DEF TypeOK
  <1> HIDE DEF c0
  <1>5. /\ work'[c0] = [i \in DOMAIN w |-> w[p[i]]]
        /\ \A c \in Sections \ {c0} : work'[c] = work[c]
    BY <1>1, <1>2, <1>3 DEF TypeOK
  <1> HIDE DEF w
  <1>6. \A i, j \in DOMAIN w : i # j => p[i] # p[j]
    <2> SUFFICES ASSUME NEW i \in DOMAIN w, NEW j \in DOMAIN w, i < j PROVE p[i] # p[j]
      BY <1>4
    <2>1. PICK m \in Nat : m = p[i]
      BY <1>4
    <2>2. PICK n \in Nat : n = p[j]
      BY <1>4
    <2>3. \/ Cardinality(Referenced(w[m])) > Cardinality(Referenced(w[n]))
          \/ Cardinality(Referenced(w[m])) = Cardinality(Referenced(w[n])) /\ m < n
      BY <1>3, <2>1, <2>2 DEF Ordered
    <2>4. Cardinality(Referenced(w[m])) \in Nat /\ Cardinality(Referenced(w[n])) \in Nat
      <3>1. Referenced(w[m]) \in SUBSET Archs /\ Referenced(w[n]) \in SUBSET Archs
        BY DEF Referenced
      <3> QED
        BY <3>1, ArchsFinite
    <2>5. m # n
      BY <2>3, <2>4
    <2> QED
      BY <2>1, <2>2, <2>5
  <1>7. ASSUME NEW c \in Sections, NEW i \in DOMAIN work'[c]
        PROVE  \E j \in DOMAIN work[c] : work'[c][i] = work[c][j]
    <2>1. CASE c = c0
      BY <1>3, <1>5, <2>1 DEF w
    <2>2. CASE c # c0
      BY <1>5, <2>2
    <2> QED
      BY <2>1, <2>2
  <1>8. TypeOK'
    <2>1. [i \in DOMAIN w |-> w[p[i]]] \in Seq(SymbolRecords)
      BY <1>3, <1>4
    <2>2. work' \in [Sections -> Seq(SymbolRecords)]
      BY <1>1, <1>2, <1>3, <2>1 DEF TypeOK, w
    <2>3. cur' \in [section : SectionNumbers, symbol : Nat]
      <3>1. (IF last THEN 1 ELSE cur.section + 1) \in SectionNumbers
        BY <1>1, CurrentSection, SectionFacts
      <3> QED
        BY <3>1 DEF orderSymbolList
    <2>4. phase' \in {"collect", "align"}
      BY DEF orderSymbolList
    <2> QED
      BY <1>1, <2>2, <2>3, <2>4 DEF TypeOK, orderSymbolList
  <1>9. WorkOK'
    <2>1. \A c \in Sections : \A i \in DOMAIN work'[c] : SymbolOK(work'[c][i])
      BY <1>1, <1>7 DEF WorkOK
    <2>2. \A c \in Sections : \A i \in DOMAIN work'[c] : SymbolOK(work[c][i])'
      BY <2>1 DEF SymbolOK
    <2> QED
      BY <2>2 DEF WorkOK
  <1>10. OneSection'
    <2>1. ASSUME NEW c \in Sections, NEW d \in Sections,
                 NEW i \in DOMAIN work'[c], NEW j \in DOMAIN work'[d],
                 work'[c][i].name = work'[d][j].name
          PROVE  c = d /\ i = j
      <3>1. PICK m \in DOMAIN work[c] : work'[c][i] = work[c][m]
        BY <1>7
      <3>2. PICK n \in DOMAIN work[d] : work'[d][j] = work[d][n]
        BY <1>7
      <3>3. work[c][m].name = work[d][n].name
        BY <2>1, <3>1, <3>2
      <3>4. c = d
        BY <1>1, <3>3 DEF OneSection
      <3>5. CASE c = c0
        <4>1. /\ i \in DOMAIN w /\ j \in DOMAIN w
              /\ work'[c][i] = w[p[i]] /\ work'[d][j] = w[p[j]]
          BY <1>5, <3>4, <3>5
        <4>2. \A x, y \in DOMAIN w : w[x].name = w[y].name => x = y
          BY <1>1, <1>2 DEF OneSection, w
        <4>3. p[i] = p[j]
          BY <1>3, <2>1, <4>1, <4>2
        <4> QED
          BY <1>6, <3>4, <4>1, <4>3
      <3>6. CASE c # c0
        <4>1. work'[c][i] = work[c][i] /\ work'[d][j] = work[d][j]
          BY <1>5, <3>4, <3>6
        <4>2. i \in DOMAIN work[c] /\ j \in DOMAIN work[d]
          BY <1>5, <3>4, <3>6
        <4>3. \A x \in DOMAIN work[c], y \in DOMAIN work[d] :
                work[c][x].name = work[d][y].name => c = d /\ x = y
          BY <1>1 DEF OneSection
        <4> QED
          BY <2>1, <4>1, <4>2, <4>3
      <3> QED
        BY <3>5, <3>6
    <2>2. pending' = pending /\ \A b \in Archs : DOMAIN pending[b] = {}
      BY DEF orderSymbolList
    <2> QED
      BY <2>1, <2>2 DEF OneSection
  <1>11. \A c \in Sections : \A i \in DOMAIN work'[c] : \A b \in Archs :
           work'[c][i].before[b] = 0 /\ work'[c][i].after[b] = 0
    <2>1. phase = "collect" /\ \A k, i : ~Met(k, i)
      BY DEF Met, orderSymbolList
    <2>2. \A c \in Sections : \A i \in DOMAIN work[c] : \A b \in Archs :
            work[c][i].before[b] = 0 /\ work[c][i].after[b] = 0
      BY <1>1, <2>1, SectionFacts DEF Unmet
    <2> QED
      BY <1>7, <2>2
  <1>12. Unmet'
    BY <1>11, SectionFacts DEF Unmet
  <1>13. at' = [a \in Archs |-> Nowhere] /\ cur'.symbol = 1 /\ address' = 0
    BY <1>1 DEF orderSymbolList, Merge
  <1>14. Merge'
    BY <1>13 DEF Merge, Nowhere
  <1>15. CASE phase' = "collect"
    BY <1>8, <1>9, <1>10, <1>12, <1>14, <1>15, BeforeAlign DEF IInv
  <1>16. CASE phase' # "collect"
    <2>1. phase' = "align" /\ cur' = [section |-> 1, symbol |-> 1]
      BY <1>16 DEF orderSymbolList
    <2>2. ASSUME NEW k \in SectionNumbers, NEW c \in Sections, NEW i \in DOMAIN work'[c]
          PROVE  ~(Met(k, i)') /\ ~(Placed(k, i)')
      <3>1. k >= 1 /\ k \in Int
        BY SectionFacts
      <3>2. i >= 1 /\ i \in Int
        <4>1. work'[c] \in Seq(SymbolRecords)
          BY <1>8 DEF TypeOK
        <4> QED
          BY <4>1
      <3> QED
        BY <2>1, <3>1, <3>2 DEF Met, Placed, Behind
    <2>3. Aligned' /\ Apart'
      BY <2>2, SectionFacts DEF Aligned, Apart
    <2>4. AlignLoop'
      <3>1. work'[section'] \in Seq(SymbolRecords)
        BY <1>8, <2>1, SectionFacts DEF TypeOK, section
      <3>2. Len(work'[section']) \in Nat /\ DOMAIN work'[section'] = 1 .. Len(work'[section'])
        BY <3>1
      <3>3. End(section, cur.symbol - 1)' = 0
        BY <2>1 DEF End
      <3> QED
        BY <1>13, <2>1, <3>2, <3>3 DEF AlignLoop
    <2>5. LinkLoop'
      BY <2>1 DEF LinkLoop
    <2>6. InPlace'
      <3>1. \A c \in Sections : \A i \in DOMAIN work'[c] : work'[c][i].name \in Symbols
        <4>1. \A c \in Sections : work'[c] \in Seq(SymbolRecords)
          BY <1>8 DEF TypeOK
        <4>2. \A c \in Sections : \A i \in DOMAIN work'[c] : work'[c][i] \in SymbolRecords
          BY <4>1
        <4> QED
          BY <4>2 DEF SymbolRecords
      <3>2. \A a \in Archs : \A s \in Symbols : at'[a][s] = -1
        BY <1>13 DEF Nowhere
      <3> QED
        BY <2>2, <3>1, <3>2, SectionFacts DEF InPlace
    <2> QED
      BY <1>8, <1>9, <1>10, <1>12, <1>14, <2>3, <2>4, <2>5, <2>6 DEF IInv
  <1> QED
    BY <1>15, <1>16

-----------------------------------------------------------------------------
(* align                                                                   *)

(* A step of align plans a symbol from where the iterator is, and changes  *)
(* no other symbol.                                                        *)
LEMMA AlignStep ==
  ASSUME IInv, align
  PROVE  /\ cur.symbol \in DOMAIN work[section]
         /\ symbol \in SymbolRecords /\ SymbolOK(symbol)
         /\ address = End(section, cur.symbol - 1)
         /\ work' \in [Sections -> Seq(SymbolRecords)]
         /\ planned' \in [Symbols -> Int] /\ address' \in Nat
         /\ \A c \in Sections : DOMAIN work'[c] = DOMAIN work[c] /\ Len(work'[c]) = Len(work[c])
         /\ work'[section][cur.symbol] = AlignedSymbol(symbol, address)
         /\ planned'[symbol.name] = address + PadTo(address, Largest(symbol.alignment))
         /\ address' = planned'[symbol.name] + Largest(symbol.size)
         /\ \A c \in Sections : \A i \in DOMAIN work[c] :
              c # section \/ i # cur.symbol =>
                /\ work'[c][i] = work[c][i]
                /\ planned'[work[c][i].name] = planned[work[c][i].name]
  <1> DEFINE c0 == section
             j == cur.symbol
             w == work[c0]
             s == w[j]
             m == Largest(s.alignment)
             t == AlignedSymbol(s, address)
             start == address + PadTo(address, m)
  <1>1. TypeOK /\ WorkOK /\ OneSection /\ AlignLoop
    BY DEF IInv
  <1>2. phase = "align" /\ j <= Len(w)
    BY DEF align, AtSymbol
  <1>3. c0 \in Sections /\ j \in Nat
    BY <1>1, CurrentSection
  <1>4. /\ w \in Seq(SymbolRecords) /\ Len(w) \in Nat /\ DOMAIN w = 1 .. Len(w)
        /\ \A i \in DOMAIN w : w[i] \in SymbolRecords
    BY <1>1, <1>3, WorkFacts DEF TypeOK
  <1>5. j \in DOMAIN w /\ address = End(c0, j - 1) /\ address \in Nat
    BY <1>1, <1>2, <1>3, <1>4 DEF AlignLoop, TypeOK
  <1>6. s \in SymbolRecords /\ SymbolOK(s)
    BY <1>1, <1>3, <1>4, <1>5 DEF WorkOK
  <1>7. m \in Nat \ {0} /\ Largest(s.size) \in Nat
    BY <1>6, SymbolFacts
  <1>8. t \in SymbolRecords
    BY <1>5, <1>6, AlignedSymbolFacts
  <1>9. PadTo(address, m) \in Nat
    <2>1. PICK n \in Int : n = address
      BY <1>5
    <2>2. PICK q \in Nat \ {0} : q = m
      BY <1>7
    <2>3. PadTo(n, q) \in Nat
      BY Padding
    <2> QED
      BY <2>1, <2>2, <2>3
  <1>10. s = symbol
    BY DEF symbol
  <1>11. /\ work' = [work EXCEPT ![c0] = [w EXCEPT ![j] = t]]
         /\ planned' = [planned EXCEPT ![s.name] = start]
         /\ address' = start + Largest(s.size)
    BY <1>10 DEF align
  <1>12. start \in Nat /\ s.name \in Symbols
    BY <1>5, <1>6, <1>9 DEF SymbolRecords
  <1> HIDE DEF c0, w, s, m, t, start
  <1>13. /\ [w EXCEPT ![j] = t] \in Seq(SymbolRecords)
         /\ Len([w EXCEPT ![j] = t]) = Len(w) /\ DOMAIN [w EXCEPT ![j] = t] = DOMAIN w
         /\ \A i \in DOMAIN w : [w EXCEPT ![j] = t][i] = IF i = j THEN t ELSE w[i]
    BY <1>4, <1>5, <1>8
  <1>14. /\ work'[c0] = [w EXCEPT ![j] = t] /\ \A c \in Sections \ {c0} : work'[c] = work[c]
         /\ work' \in [Sections -> Seq(SymbolRecords)]
    BY <1>1, <1>3, <1>11, <1>13 DEF TypeOK
  <1>15. /\ planned' \in [Symbols -> Int] /\ planned'[s.name] = start
         /\ \A n \in Symbols \ {s.name} : planned'[n] = planned[n]
    BY <1>1, <1>11, <1>12 DEF TypeOK
  <1>16. \A c \in Sections : DOMAIN work'[c] = DOMAIN work[c] /\ Len(work'[c]) = Len(work[c])
    BY <1>13, <1>14 DEF w
  <1>17. ASSUME NEW c \in Sections, NEW i \in DOMAIN work[c], c # c0 \/ i # j
         PROVE  /\ work'[c][i] = work[c][i]
                /\ planned'[work[c][i].name] = planned[work[c][i].name]
    <2>1. work'[c][i] = work[c][i]
      <3>1. CASE c = c0
        BY <1>13, <1>14, <1>17, <3>1 DEF w
      <3>2. CASE c # c0
        BY <1>14, <3>2
      <3> QED
        BY <3>1, <3>2
    <2>2. work[c][i] \in SymbolRecords
      BY <1>1, WorkFacts
    <2>3. work[c][i].name \in Symbols
      BY <2>2 DEF SymbolRecords
    <2>4. work[c][i].name # s.name
      <3>1. \A x \in DOMAIN work[c], y \in DOMAIN work[c0] :
              work[c][x].name = work[c0][y].name => c = c0 /\ x = y
        BY <1>1, <1>3 DEF OneSection
      <3> QED
        BY <1>5, <1>17, <3>1 DEF s, w
    <2> QED
      BY <1>15, <2>1, <2>3, <2>4
  <1>18. work'[c0][j] = t
    BY <1>5, <1>13, <1>14
  <1>19. address' \in Nat /\ address' = planned'[s.name] + Largest(s.size)
    BY <1>7, <1>11, <1>12, <1>15
  <1> QED
    BY <1>5, <1>6, <1>10, <1>14, <1>15, <1>16, <1>17, <1>18, <1>19 DEF c0, w, t, m, start

(* ... so that the invariant is extended by that symbol.                   *)
LEMMA AlignInv ==
  ASSUME IInv, align
  PROVE  IInv'
  <1>1. TypeOK /\ WorkOK /\ OneSection /\ Merge /\ Unmet /\ AlignLoop /\ Aligned /\ Apart /\ InPlace
    BY DEF IInv
  <1>2. /\ phase = "align" /\ phase' = "align" /\ cur' = [cur EXCEPT !.symbol = @ + 1]
        /\ pending' = pending /\ common' = common /\ rest' = rest
        /\ dot' = dot /\ base' = base /\ at' = at
    BY DEF align
  <1>c. PICK c0 \in Sections : c0 = section
    BY <1>1, CurrentSection
  <1>k. PICK k0 \in SectionNumbers : k0 = cur.section
    BY <1>1, CurrentSection
  <1>j. PICK j \in Nat : j = cur.symbol
    BY <1>1, CurrentSection
  <1>s. PICK s \in SymbolRecords : s = symbol
    BY AlignStep
  <1>n. PICK n0 \in Nat : n0 = address
    BY <1>1 DEF TypeOK
  <1> DEFINE t == AlignedSymbol(s, n0)
  <1>3. /\ c0 = considered_sections[k0] /\ k0 \in Nat
        /\ \A k \in SectionNumbers : considered_sections[k] = c0 => k = k0
    BY <1>1, <1>c, <1>k, CurrentSection
  <1>4. /\ cur' \in [section : SectionNumbers, symbol : Nat] /\ cur'.section = k0
        /\ cur'.symbol = j + 1
    <2>1. cur \in [section : SectionNumbers, symbol : Nat]
      BY <1>1 DEF TypeOK
    <2> QED
      BY <1>2, <1>k, <1>j, <2>1
  <1>5. section' = c0
    BY <1>3, <1>4 DEF section
  <1>6. /\ j \in DOMAIN work[c0] /\ s = work[c0][j]
        /\ SymbolOK(s)
        /\ n0 = End(c0, j - 1)
        /\ work' \in [Sections -> Seq(SymbolRecords)]
        /\ planned' \in [Symbols -> Int] /\ address' \in Nat
        /\ \A c \in Sections : DOMAIN work'[c] = DOMAIN work[c] /\ Len(work'[c]) = Len(work[c])
        /\ work'[c0][j] = t
        /\ planned'[s.name] = n0 + PadTo(n0, Largest(s.alignment))
        /\ address' = planned'[s.name] + Largest(s.size)
        /\ \A c \in Sections : \A i \in DOMAIN work[c] :
             c # c0 \/ i # j => /\ work'[c][i] = work[c][i]
                                /\ planned'[work[c][i].name] = planned[work[c][i].name]
    BY <1>c, <1>j, <1>s, <1>n, AlignStep DEF symbol
  <1>7. /\ t \in SymbolRecords /\ t.name = s.name /\ t.size = s.size
        /\ Referenced(t) = Referenced(s) /\ SymbolOK(t)
        /\ Largest(t.alignment) = Largest(s.alignment)
        /\ \A a \in Archs :
             IF a \in Referenced(s)
             THEN /\ t.alignment[a] = Largest(s.alignment)
                  /\ t.after[a] = s.after[a] + Largest(s.size) - s.size[a]
             ELSE /\ t.before[a] = s.before[a] + PadTo(n0, Largest(s.alignment))
                  /\ t.after[a] = s.after[a] + Largest(s.size)
    <2>1. n0 \in Int /\ SymbolOK(s)
      BY <1>6
    <2> QED
      BY <2>1, AlignedSymbolFacts
  <1> HIDE DEF t
  <1>8. TypeOK'
    BY <1>1, <1>2, <1>4, <1>6 DEF TypeOK
  <1>9. \A c \in Sections : \A i \in DOMAIN work[c] :
          work'[c][i] = IF c = c0 /\ i = j THEN t ELSE work[c][i]
    BY <1>6
  <1>10. \A c \in Sections : \A i \in DOMAIN work[c] :
           /\ work'[c][i].name = work[c][i].name /\ work'[c][i].size = work[c][i].size
           /\ Referenced(work'[c][i]) = Referenced(work[c][i])
           /\ SymbolOK(work'[c][i])
    BY <1>1, <1>6, <1>7, <1>9 DEF WorkOK
  <1>11. WorkOK'
    <2>1. \A c \in Sections : \A i \in DOMAIN work'[c] : SymbolOK(work[c][i])'
      BY <1>6, <1>10 DEF SymbolOK
    <2> QED
      BY <2>1 DEF WorkOK
  <1>12. OneSection'
    <2>a. \A c \in Sections : DOMAIN work'[c] = DOMAIN work[c]
      BY <1>6
    <2>b. \A c \in Sections : \A i \in DOMAIN work[c] : work'[c][i].name = work[c][i].name
      BY <1>10
    <2>c. /\ \A c, d \in Sections : \A i \in DOMAIN work[c], m \in DOMAIN work[d] :
               work[c][i].name = work[d][m].name => c = d /\ i = m
          /\ \A a \in Archs : \A i \in DOMAIN pending[a] : ~pending[a][i].blacklisted =>
               \A c \in Sections : \A m \in DOMAIN work[c] :
                 work[c][m].name = pending[a][i].name => c = pending[a][i].section
      BY <1>1 DEF OneSection
    <2>1. \A c, d \in Sections : \A i \in DOMAIN work'[c], m \in DOMAIN work'[d] :
            work'[c][i].name = work'[d][m].name => c = d /\ i = m
      BY <2>a, <2>b, <2>c
    <2>2. \A a \in Archs : \A i \in DOMAIN pending[a] : ~pending[a][i].blacklisted =>
            \A c \in Sections : \A m \in DOMAIN work'[c] :
              work'[c][m].name = pending[a][i].name => c = pending[a][i].section
      BY <2>a, <2>b, <2>c
    <2>3. \A a, b \in Archs : \A i \in DOMAIN pending[a], m \in DOMAIN pending[b] :
            ~pending[a][i].blacklisted /\ ~pending[b][m].blacklisted
              /\ pending[b][m].name = pending[a][i].name
                => pending[b][m].section = pending[a][i].section
      BY <1>1 DEF OneSection
    <2> QED
      BY <1>2, <2>1, <2>2, <2>3 DEF OneSection
  <1>13. Merge' /\ LinkLoop'
    BY <1>2 DEF Merge, LinkLoop
  <1>14. \A c \in Sections : DOMAIN work[c] = 1 .. Len(work[c]) /\ Len(work[c]) \in Nat
    BY <1>1, WorkFacts
  <1>15. ASSUME NEW k \in SectionNumbers, NEW i \in Int
         PROVE  Met(k, i)' <=> (Met(k, i) \/ (k = k0 /\ i = j))
    <2>1. k \in Int
      BY SectionFacts
    <2> QED
      BY <1>2, <1>3, <1>4, <1>k, <1>j, <2>1 DEF Met, Behind
  <1>16. ASSUME NEW c \in Sections, NEW i \in 0 .. Len(work[c]), c # c0 \/ i # j
         PROVE  End(c, i)' = End(c, i)
    <2>1. CASE i = 0
      BY <2>1 DEF End
    <2>2. CASE i # 0
      <3>1. i \in DOMAIN work[c]
        BY <1>14, <2>2
      <3>2. /\ work'[c][i] = work[c][i]
            /\ planned'[work[c][i].name] = planned[work[c][i].name]
        BY <1>6, <1>16, <3>1
      <3> QED
        BY <2>2, <3>2 DEF End
    <2> QED
      BY <2>1, <2>2
  <1>17. End(c0, j)' = address' /\ End(c0, j - 1)' = n0
    <2>1. j # 0 /\ j - 1 \in 0 .. Len(work[c0]) /\ j - 1 # j
      BY <1>3, <1>6, <1>14
    <2>2. End(c0, j)' = planned'[work'[c0][j].name] + Largest(work'[c0][j].size)
      BY <2>1 DEF End
    <2>3. End(c0, j - 1)' = End(c0, j - 1)
      BY <1>3, <1>16, <2>1
    <2> QED
      BY <1>6, <1>7, <2>2, <2>3
  <1>18. Unmet'
    <2>1. ASSUME NEW k \in SectionNumbers, NEW i \in DOMAIN work'[considered_sections[k]],
                 ~(Met(k, i)')
          PROVE  \A a \in Archs : /\ work'[considered_sections[k]][i].before[a] = 0
                                  /\ work'[considered_sections[k]][i].after[a] = 0
      <3>1. considered_sections[k] \in Sections
        BY SectionFacts
      <3>2. i \in DOMAIN work[considered_sections[k]] /\ i \in Int
        BY <1>6, <1>14, <3>1
      <3>3. ~Met(k, i) /\ ~(k = k0 /\ i = j)
        BY <1>15, <2>1, <3>2
      <3>4. work'[considered_sections[k]][i] = work[considered_sections[k]][i]
        BY <1>3, <1>6, <3>1, <3>2, <3>3
      <3> QED
        BY <1>1, <1>2, <3>2, <3>3, <3>4 DEF Unmet
    <2> QED
      BY <2>1 DEF Unmet
  <1>19. /\ planned'[s.name] \in Nat /\ address' \in Nat
         /\ n0 <= planned'[s.name] /\ n0 <= address'
    <2>1. Largest(s.alignment) \in Nat \ {0} /\ Largest(s.size) \in Nat
      BY <1>6, SymbolFacts
    <2>2. PICK m \in Nat \ {0} : m = Largest(s.alignment)
      BY <2>1
    <2>3. PadTo(n0, m) \in Nat
      BY <2>1, Padding
    <2> QED
      BY <1>6, <2>1, <2>2, <2>3
  <1>20. ASSUME NEW k \in SectionNumbers, NEW i \in Int, Met(k, i)
         PROVE  k # k0 \/ i < j
    <2>1. k \in Int
      BY SectionFacts
    <2> QED
      BY <1>2, <1>3, <1>20, <1>k, <1>j, <2>1 DEF Met, Behind
  <1>21. ASSUME NEW i \in DOMAIN work[c0], i < j
         PROVE  End(c0, i)' = End(c0, i) /\ End(c0, i) \in Int /\ End(c0, i) <= n0
    <2>1. i \in 0 .. Len(work[c0]) /\ i # j
      BY <1>3, <1>14, <1>21
    <2>2. End(c0, i)' = End(c0, i)
      BY <1>3, <1>16, <2>1
    <2>3. End(c0, i) \in Int
      BY <1>1, <1>3, <2>1, EndFacts
    <2>4. End(c0, i) <= n0
      BY <1>1, <1>2, <1>21, <1>c, <1>j, <1>n DEF AlignLoop
    <2> QED
      BY <2>2, <2>3, <2>4
  <1>22. AlignLoop'
    <2>1. cur'.symbol \in 1 .. Len(work'[c0]) + 1 /\ cur'.symbol - 1 = j
      BY <1>3, <1>4, <1>6, <1>14
    <2>2. End(section, cur.symbol - 1)' = address'
      <3>1. End(section, cur.symbol - 1)' = End(c0, j)'
        BY <1>5, <2>1 DEF End
      <3> QED
        BY <1>17, <3>1
    <2>3. ASSUME NEW i \in DOMAIN work'[c0], i < cur'.symbol
          PROVE  End(c0, i)' <= address'
      <3>1. i \in DOMAIN work[c0] /\ i \in Int
        BY <1>3, <1>6, <1>14
      <3>2. CASE i = j
        BY <1>17, <1>19, <3>2
      <3>3. CASE i # j
        <4>1. i < j
          BY <1>3, <1>4, <2>3, <3>1, <3>3
        <4>2. End(c0, i)' = End(c0, i) /\ End(c0, i) \in Int /\ End(c0, i) <= n0
          BY <1>21, <3>1, <4>1
        <4> QED
          BY <1>19, <4>2
      <3> QED
        BY <3>2, <3>3
    <2>4. \A i \in DOMAIN work'[section'] : i < cur'.symbol => End(section, i)' <= address'
      <3>1. \A i : End(section, i)' = End(c0, i)'
        BY <1>5 DEF End
      <3> QED
        BY <1>5, <2>3, <3>1
    <2> QED
      BY <1>5, <2>1, <2>2, <2>4 DEF AlignLoop
  <1>23. Aligned'
    <2>1. ASSUME NEW k \in SectionNumbers, NEW i \in DOMAIN work'[considered_sections[k]],
                 Met(k, i)'
          PROVE  AlignedAt(considered_sections[k], i)'
      <3> DEFINE c == considered_sections[k]
      <3>1. c \in Sections
        BY SectionFacts
      <3>2. i \in DOMAIN work[c] /\ i \in Int /\ i - 1 \in 0 .. Len(work[c])
        BY <1>6, <1>14, <3>1
      <3>3. CASE Met(k, i)
        <4>a. k # k0 \/ i < j
          BY <1>20, <3>2, <3>3
        <4>b. k # k0 => c # c0
          BY <1>3
        <4>1. c # c0 \/ (i # j /\ i - 1 # j)
          BY <3>2, <4>a, <4>b
        <4>2. AlignedAt(c, i)
          BY <1>1, <3>2, <3>3 DEF Aligned
        <4>3. /\ work'[c][i] = work[c][i]
              /\ planned'[work[c][i].name] = planned[work[c][i].name]
          BY <1>6, <3>1, <3>2, <4>1
        <4>4. End(c, i - 1)' = End(c, i - 1)
          BY <1>16, <3>1, <3>2, <4>1
        <4> HIDE DEF c
        <4>5. AlignedAs(work'[c][i], End(c, i - 1)', planned'[work'[c][i].name])
          BY <4>2, <4>3, <4>4 DEF AlignedAt
        <4>6. AlignedAt(c, i)'
          BY <4>5 DEF AlignedAt, AlignedAs, Referenced
        <4> QED
          BY <4>6 DEF c
      <3>4. CASE ~Met(k, i)
        <4>1. k = k0 /\ i = j /\ c = c0
          BY <1>3, <1>15, <2>1, <3>2, <3>4
        <4>2. \A a \in Archs : s.before[a] = 0 /\ s.after[a] = 0
          BY <1>1, <1>2, <1>6, <3>2, <3>4, <4>1 DEF Unmet
        <4>3. /\ Largest(s.alignment) \in Nat \ {0} /\ Largest(s.size) \in Nat
              /\ \A a \in Archs : s.size[a] \in Int
          BY <1>6, SymbolFacts
        <4>4. PICK m \in Nat \ {0} : m = Largest(s.alignment)
          BY <4>3
        <4>a. n0 \in Int
          OBVIOUS
        <4>5. PadTo(n0, m) \in Nat
          BY <4>a, Padding
        <4>6. \A a \in Archs :
                IF a \in Referenced(t)
                THEN /\ t.alignment[a] = Largest(t.alignment)
                     /\ t.after[a] = Largest(t.size) - t.size[a]
                ELSE t.before[a] = PadTo(n0, Largest(t.alignment)) /\ t.after[a] = Largest(t.size)
          BY <1>7, <4>2, <4>3, <4>4, <4>5
        <4>b. planned'[t.name] = n0 + PadTo(n0, Largest(t.alignment))
          BY <1>6, <1>7
        <4>7. AlignedAs(t, n0, planned'[t.name])
          BY <4>6, <4>b DEF AlignedAs
        <4>8. AlignedAs(work'[c0][j], End(c0, j - 1)', planned'[work'[c0][j].name])
          BY <1>6, <1>7, <1>17, <4>7
        <4>9. AlignedAt(c0, j)'
          BY <4>8 DEF AlignedAt, AlignedAs, Referenced
        <4> QED
          BY <4>1, <4>9
      <3> QED
        BY <3>3, <3>4
    <2> QED
      BY <2>1 DEF Aligned
  <1>24. Apart'
    <2>1. ASSUME NEW k \in SectionNumbers, NEW i \in DOMAIN work'[considered_sections[k]],
                 NEW n \in DOMAIN work'[considered_sections[k]], Met(k, n)', i < n
          PROVE  End(considered_sections[k], i)' <= planned'[work'[considered_sections[k]][n].name]
      <3> DEFINE c == considered_sections[k]
      <3>1. c \in Sections
        BY SectionFacts
      <3>2. /\ i \in DOMAIN work[c] /\ n \in DOMAIN work[c] /\ i \in Int /\ n \in Int
            /\ i \in 0 .. Len(work[c])
        BY <1>6, <1>14, <3>1
      <3>3. CASE Met(k, n)
        <4>1. c # c0 \/ (i # j /\ n # j)
          <5>1. k # k0 \/ n < j
            BY <1>20, <3>2, <3>3
          <5>2. c = c0 => k = k0
            BY <1>3
          <5> HIDE DEF c
          <5>3. n < j => i # j /\ n # j
            BY <2>1, <3>2
          <5> QED
            BY <5>1, <5>2, <5>3
        <4>2. End(c, i) <= planned[work[c][n].name]
          BY <1>1, <2>1, <3>2, <3>3 DEF Apart
        <4>3. /\ work'[c][n] = work[c][n]
              /\ planned'[work[c][n].name] = planned[work[c][n].name]
          BY <1>6, <3>1, <3>2, <4>1
        <4>4. End(c, i)' = End(c, i)
          BY <1>16, <3>1, <3>2, <4>1
        <4> QED
          BY <4>2, <4>3, <4>4
      <3>4. CASE ~Met(k, n)
        <4>1. k = k0 /\ n = j /\ c = c0
          BY <1>3, <1>15, <2>1, <3>2, <3>4
        <4>2. End(c0, i)' = End(c0, i) /\ End(c0, i) \in Int /\ End(c0, i) <= n0
          BY <1>21, <2>1, <3>2, <4>1
        <4>3. work'[c0][j].name = s.name
          BY <1>6, <1>7
        <4> HIDE DEF c
        <4>4. End(c, i)' <= planned'[work'[c][n].name]
          BY <1>19, <4>1, <4>2, <4>3
        <4> QED
          BY <4>4 DEF c
      <3> QED
        BY <3>3, <3>4
    <2> QED
      BY <2>1 DEF Apart
  <1>25. InPlace'
    <2>1. \A k, i : ~(Placed(k, i)')
      BY <1>2 DEF Placed
    <2>2. ASSUME NEW k \in SectionNumbers, NEW i \in DOMAIN work'[considered_sections[k]],
                 NEW a \in Archs \ Referenced(work'[considered_sections[k]][i])
          PROVE  at'[a][work'[considered_sections[k]][i].name] = -1
      <3>1. considered_sections[k] \in Sections
        BY SectionFacts
      <3>2. i \in DOMAIN work[considered_sections[k]]
        BY <1>6, <3>1
      <3>3. /\ work'[considered_sections[k]][i].name = work[considered_sections[k]][i].name
            /\ a \notin Referenced(work[considered_sections[k]][i])
        BY <1>10, <2>2, <3>1, <3>2
      <3> QED
        BY <1>1, <1>2, <3>2, <3>3 DEF InPlace
    <2>3. \A k \in SectionNumbers : \A i \in DOMAIN work'[considered_sections[k]] :
            \A a \in Archs \ (Referenced(work[considered_sections[k]][i])') :
              at'[a][work'[considered_sections[k]][i].name] = -1
      BY <2>2 DEF Referenced
    <2> QED
      BY <2>1, <2>3 DEF InPlace
  <1> QED
    BY <1>8, <1>11, <1>12, <1>13, <1>18, <1>22, <1>23, <1>24, <1>25 DEF IInv

(* What does not depend on the rest of the state                           *)
LEMMA Kept ==
  ASSUME WorkOK, OneSection, pending' = pending, work' = work, planned' = planned
  PROVE  /\ WorkOK' /\ OneSection'
         /\ \A c, i : End(c, i)' = End(c, i)
         /\ \A c, i : AlignedAt(c, i)' <=> AlignedAt(c, i)
  <1>1. WorkOK'
    BY DEF WorkOK, SymbolOK
  <1>2. OneSection'
    BY DEF OneSection
  <1>3. \A c, i : End(c, i)' = End(c, i)
    BY DEF End
  <1>4. \A c, i : AlignedAt(c, i)' <=> AlignedAt(c, i)
    <2>1. \A c, i : AlignedAt(c, i)' <=>
            AlignedAs(work'[c][i], End(c, i - 1)', planned'[work'[c][i].name])
      BY DEF AlignedAt, AlignedAs, Referenced
    <2> QED
      BY <1>3, <2>1 DEF AlignedAt
  <1> QED
    BY <1>1, <1>2, <1>3, <1>4

(* ... or only on which symbols align has met                              *)
LEMMA KeptAligned ==
  ASSUME TypeOK, WorkOK, OneSection, Aligned, Apart,
         pending' = pending, work' = work, planned' = planned,
         \A k \in SectionNumbers : \A i \in DOMAIN work[considered_sections[k]] :
           Met(k, i)' => Met(k, i)
  PROVE  Aligned' /\ Apart'
  <1>1. /\ \A c, i : End(c, i)' = End(c, i)
        /\ \A c, i : AlignedAt(c, i)' <=> AlignedAt(c, i)
    BY Kept
  <1>2. Aligned'
    BY <1>1 DEF Aligned
  <1>3. Apart'
    BY <1>1 DEF Apart
  <1> QED
    BY <1>2, <1>3

(* The next section: align has met all symbols of this one.                *)
LEMMA NextSectionInv ==
  ASSUME IInv, AlignNextSection
  PROVE  IInv'
  <1>1. TypeOK /\ WorkOK /\ OneSection /\ Merge /\ Unmet /\ AlignLoop /\ Aligned /\ Apart /\ InPlace
    BY DEF IInv
  <1>2. /\ phase = "align" /\ phase' \in {"align", "link"} /\ address' = 0
        /\ pending' = pending /\ common' = common /\ work' = work /\ rest' = rest
        /\ planned' = planned /\ dot' = dot /\ base' = base /\ at' = at
    BY DEF AlignNextSection
  <1>k. PICK k0 \in SectionNumbers : k0 = cur.section
    BY <1>1, CurrentSection
  <1>j. PICK j \in Nat : j = cur.symbol
    BY <1>1, CurrentSection
  <1>n. PICK n \in Nat \ {0} : n = Len(considered_sections)
    BY SectionFacts
  <1>3. k0 \in 1 .. n /\ SectionNumbers = 1 .. n
    BY <1>n, SectionFacts
  <1>4. \/ /\ k0 = n /\ phase' = "link" /\ cur' = [section |-> 1, symbol |-> 0]
        \/ /\ k0 # n /\ phase' = "align" /\ cur' = [section |-> k0 + 1, symbol |-> 1]
    BY <1>2, <1>k, <1>n DEF AlignNextSection
  <1>5. TypeOK'
    <2>1. cur' \in [section : SectionNumbers, symbol : Nat]
      BY <1>3, <1>4
    <2> QED
      BY <1>1, <1>2, <2>1 DEF TypeOK
  <1>6. \A c \in Sections : DOMAIN work[c] = 1 .. Len(work[c]) /\ Len(work[c]) \in Nat
    BY <1>1, WorkFacts
  <1>7. ASSUME NEW k \in SectionNumbers, NEW i \in DOMAIN work[considered_sections[k]]
        PROVE  (Met(k, i)' <=> Met(k, i)) /\ ~(Placed(k, i)')
    <2>1. considered_sections[k] \in Sections /\ k \in Int /\ k >= 1 /\ k <= n
      BY <1>3, SectionFacts
    <2>2. i \in Int /\ i >= 1 /\ i <= Len(work[considered_sections[k]])
      BY <1>6, <2>1
    <2>3. k = k0 => i < j
      <3>1. ~(j <= Len(work[section])) /\ section = considered_sections[k0]
        BY <1>j, <1>k DEF AlignNextSection, AtSymbol, section
      <3> QED
        BY <1>6, <2>1, <2>2, <3>1
    <2>4. Met(k, i) <=> (k < k0 \/ k = k0)
      BY <1>2, <1>k, <1>j, <2>3 DEF Met, Behind
    <2>5. CASE k0 = n
      BY <1>3, <1>4, <2>1, <2>2, <2>4, <2>5 DEF Met, Placed, Behind
    <2>6. CASE k0 # n
      <3>1. phase' = "align" /\ cur'.section = k0 + 1 /\ cur'.symbol = 1
        BY <1>4, <2>6
      <3> QED
        BY <1>3, <2>1, <2>2, <2>4, <3>1 DEF Met, Placed, Behind
    <2> QED
      BY <2>5, <2>6
  <1>8. WorkOK' /\ OneSection'
    BY <1>1, <1>2, Kept
  <1>9. Aligned' /\ Apart'
    BY <1>1, <1>2, <1>7, KeptAligned
  <1>10. Unmet'
    BY <1>1, <1>2, <1>7 DEF Unmet
  <1>11. Merge'
    BY <1>2 DEF Merge
  <1>12. AlignLoop'
    <2> SUFFICES ASSUME phase' = "align" PROVE AlignLoop'
      BY DEF AlignLoop
    <2>1. cur'.symbol = 1
      BY <1>4
    <2>2. section' \in Sections
      BY <1>5, SectionFacts DEF TypeOK, section
    <2>3. DOMAIN work'[section'] = 1 .. Len(work'[section']) /\ Len(work'[section']) \in Nat
      BY <1>2, <1>6, <2>2
    <2>4. End(section, cur.symbol - 1)' = 0
      BY <2>1 DEF End
    <2> QED
      BY <1>2, <2>1, <2>3, <2>4 DEF AlignLoop
  <1>13. LinkLoop'
    <2> SUFFICES ASSUME phase' = "link" PROVE LinkLoop'
      BY DEF LinkLoop
    <2>1. cur'.symbol = 0
      BY <1>4
    <2>2. section' \in Sections
      BY <1>5, SectionFacts DEF TypeOK, section
    <2>3. Len(work'[section']) \in Nat
      BY <1>2, <1>6, <2>2
    <2> QED
      BY <2>1, <2>3 DEF LinkLoop
  <1>14. InPlace'
    <2>1. \A s : Referenced(s)' = Referenced(s)
      BY DEF Referenced
    <2>2. \A k \in SectionNumbers : \A i \in DOMAIN work[considered_sections[k]] :
            \A a \in Archs \ Referenced(work[considered_sections[k]][i]) :
              at[a][work[considered_sections[k]][i].name] = -1
      BY <1>1 DEF InPlace
    <2> QED
      BY <1>2, <1>7, <2>2 DEF InPlace, Referenced
  <1> QED
    BY <1>5, <1>8, <1>9, <1>10, <1>11, <1>12, <1>13, <1>14 DEF IInv

-----------------------------------------------------------------------------
(* The linker                                                              *)

(* A symbol that align has met at n of its section is linked at the start  *)
(* that align planned, and the next one is where align went on.            *)
LEMMA PlaceFacts ==
  ASSUME NEW s \in SymbolRecords, SymbolOK(s), NEW n \in Int, NEW start \in Int,
         AlignedAs(s, n, start), NEW b \in Int, b % PAGE_ALIGN = 0, NEW a \in Archs
  PROVE  /\ Place(s, a, b + n) = b + start
         /\ Place(s, a, b + n) + s.after[a] + (IF a \in Referenced(s) THEN s.size[a] ELSE 0)
              = b + start + Largest(s.size)
  <1>1. /\ Largest(s.alignment) \in Nat \ {0} /\ PAGE_ALIGN % Largest(s.alignment) = 0
        /\ Largest(s.size) \in Nat /\ s.size[a] \in Int
    BY SymbolFacts
  <1>2. PICK m \in Nat \ {0} : m = Largest(s.alignment)
    BY <1>1
  <1>3. PICK p \in Nat \ {0} : p = PAGE_ALIGN
    BY AlignAssumption
  <1>4. b % m = 0
    BY <1>1, <1>2, <1>3, Transitive
  <1>5. PadTo(b + n, m) = PadTo(n, m)
    BY <1>4, PaddingShift
  <1>6. PICK q \in Nat : q = PadTo(n, m)
    BY Padding
  <1>7. /\ start = n + q
        /\ IF a \in Referenced(s)
           THEN s.alignment[a] = m /\ s.after[a] = Largest(s.size) - s.size[a]
           ELSE s.before[a] = q /\ s.after[a] = Largest(s.size)
    BY <1>2, <1>6 DEF AlignedAs
  <1>8. PICK z \in Nat : z = Largest(s.size)
    BY <1>1
  <1>9. CASE a \in Referenced(s)
    <2>1. Place(s, a, b + n) = b + n + q
      BY <1>5, <1>6, <1>7, <1>9 DEF Place, AlignUp
    <2>2. s.after[a] = z - s.size[a]
      BY <1>7, <1>8, <1>9
    <2> QED
      BY <1>1, <1>7, <1>8, <1>9, <2>1, <2>2
  <1>10. CASE a \notin Referenced(s)
    <2>1. Place(s, a, b + n) = b + n + q
      BY <1>7, <1>10 DEF Place
    <2>2. s.after[a] = z
      BY <1>7, <1>8, <1>10
    <2> QED
      BY <1>7, <1>8, <1>10, <2>1, <2>2
  <1> QED
    BY <1>9, <1>10

(* A section is opened at a multiple of a page.                            *)
LEMMA OpenInv ==
  ASSUME IInv, OpenSection
  PROVE  IInv'
  <1>1. /\ TypeOK /\ WorkOK /\ OneSection /\ Merge /\ Unmet /\ AlignLoop /\ Aligned /\ Apart
        /\ LinkLoop /\ InPlace
    BY DEF IInv
  <1> DEFINE first(a) ==
               AlignUp(AlignUp(dot[a], SECTION_ALIGN) + common[a][section] + 1, PAGE_ALIGN)
  <1>2. /\ phase = "link" /\ phase' = "link" /\ cur.symbol = 0
        /\ cur' = [cur EXCEPT !.symbol = 1]
        /\ dot' = [a \in Archs |-> first(a)]
        /\ base' = [a \in Archs |-> [base[a] EXCEPT ![section] = first(a)]]
        /\ pending' = pending /\ common' = common /\ work' = work /\ rest' = rest
        /\ address' = address /\ planned' = planned /\ at' = at
    BY DEF OpenSection
  <1>k. PICK k0 \in SectionNumbers : k0 = cur.section
    BY <1>1, CurrentSection
  <1>c. PICK c0 \in Sections : c0 = section
    BY <1>1, CurrentSection
  <1>3. /\ c0 = considered_sections[k0] /\ k0 \in Nat
        /\ \A k \in SectionNumbers : considered_sections[k] = c0 => k = k0
    BY <1>1, <1>c, <1>k, CurrentSection
  <1>4. cur' \in [section : SectionNumbers, symbol : Nat] /\ cur'.section = k0 /\ cur'.symbol = 1
    <2>1. cur \in [section : SectionNumbers, symbol : Nat]
      BY <1>1 DEF TypeOK
    <2> QED
      BY <1>2, <1>k, <2>1
  <1>5. section' = c0
    BY <1>3, <1>4 DEF section
  <1>6. ASSUME NEW a \in Archs PROVE first(a) \in Int /\ first(a) % PAGE_ALIGN = 0
    <2>1. PICK d \in Int : d = dot[a]
      BY <1>1 DEF TypeOK
    <2>2. PICK h \in Nat : h = common[a][section]
      BY <1>1, <1>c DEF TypeOK
    <2>3. PICK m \in Nat \ {0} : m = SECTION_ALIGN
      BY AlignAssumption
    <2>4. PICK p \in Nat \ {0} : p = PAGE_ALIGN
      BY AlignAssumption
    <2>5. PadTo(d, m) \in Nat
      BY Padding
    <2>6. PICK x \in Int : x = AlignUp(d, m) + h + 1
      BY <2>5 DEF AlignUp
    <2>7. PadTo(x, p) \in Nat /\ (x + PadTo(x, p)) % p = 0
      BY Padding
    <2>8. AlignUp(x, p) \in Int /\ AlignUp(x, p) % p = 0
      BY <2>7 DEF AlignUp
    <2>9. first(a) = AlignUp(x, p)
      BY <2>1, <2>2, <2>3, <2>4, <2>6
    <2> QED
      BY <2>4, <2>8, <2>9
  <1> HIDE DEF first
  <1>7. /\ dot' \in [Archs -> Int] /\ base' \in [Archs -> [Sections -> Int]]
        /\ \A a \in Archs : dot'[a] = first(a) /\ base'[a][c0] = first(a)
        /\ \A a \in Archs : \A c \in Sections \ {c0} : base'[a][c] = base[a][c]
    <2>1. base \in [Archs -> [Sections -> Int]]
      BY <1>1 DEF TypeOK
    <2> QED
      BY <1>2, <1>6, <1>c, <2>1
  <1>8. TypeOK'
    BY <1>1, <1>2, <1>4, <1>7 DEF TypeOK
  <1>9. WorkOK' /\ OneSection'
    BY <1>1, <1>2, Kept
  <1>10. Merge' /\ Unmet' /\ AlignLoop'
    BY <1>2 DEF Merge, Unmet, AlignLoop
  <1>11. \A k, i : Met(k, i)
    BY <1>2 DEF Met
  <1>12. Aligned' /\ Apart'
    BY <1>1, <1>2, <1>11, KeptAligned
  <1>13. \A c \in Sections : DOMAIN work[c] = 1 .. Len(work[c]) /\ Len(work[c]) \in Nat
    BY <1>1, WorkFacts
  <1>14. LinkLoop'
    <2>1. End(section, cur.symbol - 1)' = 0
      BY <1>4 DEF End
    <2>2. \A a \in Archs : base'[a][c0] % PAGE_ALIGN = 0 /\ dot'[a] = base'[a][c0] + 0
      BY <1>6, <1>7
    <2>3. cur'.symbol \in 0 .. Len(work'[c0]) + 1
      BY <1>2, <1>4, <1>13
    <2> QED
      BY <1>5, <2>1, <2>2, <2>3 DEF LinkLoop
  <1>15. InPlace'
    <2>1. ASSUME NEW k \in SectionNumbers, NEW i \in DOMAIN work[considered_sections[k]],
                 Placed(k, i)', NEW a \in Referenced(work[considered_sections[k]][i])
          PROVE  at[a][work[considered_sections[k]][i].name] =
                   base'[a][considered_sections[k]] + planned[work[considered_sections[k]][i].name]
      <3> DEFINE c == considered_sections[k]
      <3>1. c \in Sections /\ k \in Int
        BY SectionFacts
      <3>2. i \in Int /\ i >= 1
        BY <1>13, <3>1
      <3>3. k < k0
        BY <1>2, <1>3, <1>4, <2>1, <3>1, <3>2 DEF Placed, Behind
      <3>4. Placed(k, i) /\ c # c0
        BY <1>2, <1>3, <1>k, <3>1, <3>3 DEF Placed, Behind
      <3>5. at[a][work[c][i].name] = base[a][c] + planned[work[c][i].name]
        BY <1>1, <2>1, <3>4 DEF InPlace
      <3>6. a \in Archs
        BY <2>1 DEF Referenced
      <3>7. base'[a][c] = base[a][c]
        BY <1>7, <3>1, <3>4, <3>6
      <3> QED
        BY <3>5, <3>7
    <2>2. \A k \in SectionNumbers : \A i \in DOMAIN work[considered_sections[k]] :
            \A a \in Archs \ Referenced(work[considered_sections[k]][i]) :
              at[a][work[considered_sections[k]][i].name] = -1
      BY <1>1 DEF InPlace
    <2>3. \A c, i : Referenced(work[c][i])' = Referenced(work[c][i])
      BY <1>2 DEF Referenced
    <2>4. \A k \in SectionNumbers : \A i \in DOMAIN work[considered_sections[k]] :
            /\ Placed(k, i)' => \A a \in Referenced(work[considered_sections[k]][i]) :
                 at[a][work[considered_sections[k]][i].name] =
                   base'[a][considered_sections[k]] + planned[work[considered_sections[k]][i].name]
            /\ \A a \in Archs \ Referenced(work[considered_sections[k]][i]) :
                 at[a][work[considered_sections[k]][i].name] = -1
      BY <2>1, <2>2
    <2>5. work' = work /\ planned' = planned /\ at' = at
      BY <1>2
    <2> QED
      BY <2>3, <2>4, <2>5 DEF InPlace
  <1> QED
    BY <1>8, <1>9, <1>10, <1>12, <1>14, <1>15 DEF IInv

(* The linker passes the residues at the end of a section.                 *)
LEMMA CloseInv ==
  ASSUME IInv, CloseSection
  PROVE  IInv'
  <1>1. /\ TypeOK /\ WorkOK /\ OneSection /\ Merge /\ Unmet /\ AlignLoop /\ Aligned /\ Apart
        /\ LinkLoop /\ InPlace
    BY DEF IInv
  <1>2. /\ phase = "link" /\ phase' \in {"link", "linked"}
        /\ dot' = [a \in Archs |-> dot[a] + rest[a][section]]
        /\ pending' = pending /\ common' = common /\ work' = work /\ rest' = rest
        /\ address' = address /\ planned' = planned /\ base' = base /\ at' = at
    BY DEF CloseSection
  <1>k. PICK k0 \in SectionNumbers : k0 = cur.section
    BY <1>1, CurrentSection
  <1>j. PICK j \in Nat : j = cur.symbol
    BY <1>1, CurrentSection
  <1>n. PICK n \in Nat \ {0} : n = Len(considered_sections)
    BY SectionFacts
  <1>3. k0 \in 1 .. n /\ SectionNumbers = 1 .. n
    BY <1>n, SectionFacts
  <1>4. \/ k0 = n /\ phase' = "linked" /\ cur' = [section |-> 1, symbol |-> 0]
        \/ k0 # n /\ phase' = "link" /\ cur' = [section |-> k0 + 1, symbol |-> 0]
    BY <1>2, <1>k, <1>n DEF CloseSection
  <1>5. TypeOK'
    <2>1. cur' \in [section : SectionNumbers, symbol : Nat]
      BY <1>3, <1>4
    <2>2. dot' \in [Archs -> Int]
      <3>1. \A a \in Archs : dot[a] \in Int /\ rest[a][section] \in Int
        BY <1>1, CurrentSection DEF TypeOK
      <3> QED
        BY <1>2, <3>1
    <2> QED
      BY <1>1, <1>2, <2>1, <2>2 DEF TypeOK
  <1>6. \A c \in Sections : DOMAIN work[c] = 1 .. Len(work[c]) /\ Len(work[c]) \in Nat
    BY <1>1, WorkFacts
  <1>7. ASSUME NEW k \in SectionNumbers, NEW i \in DOMAIN work[considered_sections[k]],
               Placed(k, i)'
        PROVE  Placed(k, i)
    <2>1. considered_sections[k] \in Sections /\ k \in Int /\ k >= 1 /\ k <= n
      BY <1>3, SectionFacts
    <2>2. i \in Int /\ i >= 1 /\ i <= Len(work[considered_sections[k]])
      BY <1>6, <2>1
    <2>3. k = k0 => i < j
      <3>1. ~(j <= Len(work[section])) /\ section = considered_sections[k0]
        BY <1>j, <1>k DEF CloseSection, AtSymbol, section
      <3> QED
        BY <1>6, <2>1, <2>2, <3>1
    <2>4. k <= k0
      <3>1. CASE k0 = n
        BY <2>1, <3>1
      <3>2. CASE k0 # n
        <4>1. phase' = "link" /\ cur'.section = k0 + 1 /\ cur'.symbol = 0
          BY <1>4, <3>2
        <4> QED
          BY <1>3, <1>7, <2>1, <2>2, <4>1 DEF Placed, Behind
      <3> QED
        BY <3>1, <3>2
    <2>5. k < k0 \/ k = k0
      BY <1>3, <2>1, <2>4
    <2> QED
      BY <1>2, <1>k, <1>j, <2>3, <2>5 DEF Placed, Behind
  <1>8. WorkOK' /\ OneSection'
    BY <1>1, <1>2, Kept
  <1>9. Merge' /\ Unmet' /\ AlignLoop'
    BY <1>2 DEF Merge, Unmet, AlignLoop
  <1>10. \A k, i : Met(k, i)
    BY <1>2 DEF Met
  <1>11. Aligned' /\ Apart'
    BY <1>1, <1>2, <1>10, KeptAligned
  <1>12. LinkLoop'
    <2>1. cur'.symbol = 0
      BY <1>4
    <2>2. section' \in Sections
      BY <1>5, SectionFacts DEF TypeOK, section
    <2>3. Len(work'[section']) \in Nat
      BY <1>2, <1>6, <2>2
    <2> QED
      BY <2>1, <2>3 DEF LinkLoop
  <1>13. InPlace'
    <2>1. \A k \in SectionNumbers : \A i \in DOMAIN work[considered_sections[k]] :
            /\ Placed(k, i)' => \A a \in Referenced(work[considered_sections[k]][i]) :
                 at[a][work[considered_sections[k]][i].name] =
                   base[a][considered_sections[k]] + planned[work[considered_sections[k]][i].name]
            /\ \A a \in Archs \ Referenced(work[considered_sections[k]][i]) :
                 at[a][work[considered_sections[k]][i].name] = -1
      BY <1>1, <1>7 DEF InPlace
    <2> QED
      BY <1>2, <2>1 DEF InPlace, Referenced
  <1> QED
    BY <1>5, <1>8, <1>9, <1>11, <1>12, <1>13 DEF IInv

(* The linker places a symbol where align planned it.                      *)
LEMMA LinkInv ==
  ASSUME IInv, LinkSymbol
  PROVE  IInv'
  <1>1. /\ TypeOK /\ WorkOK /\ OneSection /\ Merge /\ Unmet /\ AlignLoop /\ Aligned /\ Apart
        /\ LinkLoop /\ InPlace
    BY DEF IInv
  <1>k. PICK k0 \in SectionNumbers : k0 = cur.section
    BY <1>1, CurrentSection
  <1>c. PICK c0 \in Sections : c0 = section
    BY <1>1, CurrentSection
  <1>j. PICK j \in Nat : j = cur.symbol
    BY <1>1, CurrentSection
  <1>2. /\ phase = "link" /\ phase' = "link" /\ j # 0 /\ j <= Len(work[c0])
        /\ cur' = [cur EXCEPT !.symbol = @ + 1]
        /\ pending' = pending /\ common' = common /\ work' = work /\ rest' = rest
        /\ address' = address /\ planned' = planned /\ base' = base
    BY <1>c, <1>j DEF LinkSymbol, AtSymbol
  <1>3. /\ c0 = considered_sections[k0] /\ k0 \in Nat
        /\ \A k \in SectionNumbers : considered_sections[k] = c0 => k = k0
    BY <1>1, <1>c, <1>k, CurrentSection
  <1>4. /\ cur' \in [section : SectionNumbers, symbol : Nat] /\ cur'.section = k0
        /\ cur'.symbol = j + 1
    <2>1. cur \in [section : SectionNumbers, symbol : Nat]
      BY <1>1 DEF TypeOK
    <2> QED
      BY <1>2, <1>k, <1>j, <2>1
  <1>5. section' = c0
    BY <1>3, <1>4 DEF section
  <1>6. /\ \A c \in Sections : DOMAIN work[c] = 1 .. Len(work[c]) /\ Len(work[c]) \in Nat
        /\ \A c \in Sections : \A i \in DOMAIN work[c] : work[c][i] \in SymbolRecords
    BY <1>1, WorkFacts
  <1>7. j \in DOMAIN work[c0]
    BY <1>2, <1>6
  <1>s. PICK s \in SymbolRecords : s = work[c0][j]
    BY <1>6, <1>7
  <1>8. SymbolOK(s) /\ s.name \in Symbols /\ s = symbol
    BY <1>1, <1>7, <1>c, <1>j, <1>s DEF WorkOK, SymbolRecords, symbol
  <1>e. PICK n \in Int : n = End(c0, j - 1)
    <2>1. j - 1 \in 0 .. Len(work[c0])
      BY <1>2, <1>6
    <2> QED
      BY <1>1, <2>1, EndFacts
  <1>p. PICK start \in Int : start = planned[s.name]
    BY <1>1, <1>8 DEF TypeOK
  <1>9. AlignedAs(s, n, start)
    <2>1. Met(k0, j)
      BY <1>2 DEF Met
    <2>2. AlignedAt(c0, j)
      BY <1>1, <1>3, <1>7, <2>1 DEF Aligned
    <2> QED
      BY <1>e, <1>p, <1>s, <2>2 DEF AlignedAt
  <1>10. ASSUME NEW a \in Archs
         PROVE  /\ base[a][c0] \in Int /\ base[a][c0] % PAGE_ALIGN = 0
                /\ Place(s, a, dot[a]) = base[a][c0] + start
                /\ Place(s, a, dot[a]) + s.after[a] + (IF a \in Referenced(s) THEN s.size[a] ELSE 0)
                     = base[a][c0] + start + Largest(s.size)
    <2>1. PICK b \in Int : b = base[a][c0]
      BY <1>1 DEF TypeOK
    <2>2. b % PAGE_ALIGN = 0 /\ dot[a] = b + n
      BY <1>1, <1>2, <1>c, <1>j, <1>e, <2>1 DEF LinkLoop
    <2>3. /\ Place(s, a, b + n) = b + start
          /\ Place(s, a, b + n) + s.after[a] + (IF a \in Referenced(s) THEN s.size[a] ELSE 0)
               = b + start + Largest(s.size)
      BY <1>8, <1>9, <2>2, PlaceFacts
    <2> QED
      BY <2>1, <2>2, <2>3
  <1>11. Largest(s.size) \in Nat
    BY <1>8, SymbolFacts
  <1>12. /\ dot' \in [Archs -> Int]
         /\ \A a \in Archs : dot'[a] = base[a][c0] + start + Largest(s.size)
    <2>1. dot' = [a \in Archs |->
                    Place(s, a, dot[a]) + s.after[a] + (IF a \in Referenced(s) THEN s.size[a] ELSE 0)]
      BY <1>8 DEF LinkSymbol
    <2>2. \A a \in Archs : dot'[a] = base[a][c0] + start + Largest(s.size)
      BY <1>10, <2>1
    <2>3. \A a \in Archs : base[a][c0] + start + Largest(s.size) \in Int
      BY <1>10, <1>11
    <2> QED
      BY <2>1, <2>2, <2>3
  <1>13. at' = [a \in Archs |->
                  IF a \in Referenced(s)
                  THEN [at[a] EXCEPT ![s.name] = base[a][c0] + start] ELSE at[a]]
    <2>1. at' = [a \in Archs |->
                   IF a \in Referenced(s)
                   THEN [at[a] EXCEPT ![s.name] = Place(s, a, dot[a])] ELSE at[a]]
      BY <1>8 DEF LinkSymbol
    <2> QED
      BY <1>10, <2>1
  <1>14. /\ at' \in [Archs -> [Symbols -> Int]]
         /\ \A a \in Referenced(s) : at'[a][s.name] = base[a][c0] + start
         /\ \A a \in Archs : \A m \in Symbols : m # s.name => at'[a][m] = at[a][m]
         /\ \A a \in Archs \ Referenced(s) : at'[a] = at[a]
    <2>1. at \in [Archs -> [Symbols -> Int]]
      BY <1>1 DEF TypeOK
    <2>2. Referenced(s) \subseteq Archs
      BY DEF Referenced
    <2>3. \A a \in Archs : base[a][c0] + start \in Int
      BY <1>10
    <2> QED
      BY <1>8, <1>13, <2>1, <2>2, <2>3
  <1>15. TypeOK'
    BY <1>1, <1>2, <1>4, <1>12, <1>14 DEF TypeOK
  <1>16. WorkOK' /\ OneSection' /\ \A c, i : End(c, i)' = End(c, i)
    BY <1>1, <1>2, Kept
  <1>17. Merge' /\ Unmet' /\ AlignLoop'
    BY <1>2 DEF Merge, Unmet, AlignLoop
  <1>18. \A k, i : Met(k, i)
    BY <1>2 DEF Met
  <1>19. Aligned' /\ Apart'
    BY <1>1, <1>2, <1>18, KeptAligned
  <1>20. LinkLoop'
    <2>1. End(c0, j) = start + Largest(s.size)
      BY <1>2, <1>p, <1>s DEF End
    <2>2. End(section, cur.symbol - 1)' = End(c0, j)
      <3>1. section' = c0 /\ cur'.symbol - 1 = j
        BY <1>4, <1>5
      <3> QED
        BY <1>2, <3>1 DEF End
    <2>3. cur'.symbol \in 0 .. Len(work'[c0]) + 1
      BY <1>2, <1>4, <1>6
    <2>4. \A a \in Archs : base'[a][c0] % PAGE_ALIGN = 0 /\ dot'[a] = base'[a][c0] + End(c0, j)
      BY <1>2, <1>10, <1>11, <1>12, <2>1
    <2> QED
      BY <1>5, <2>2, <2>3, <2>4 DEF LinkLoop
  <1>21. ASSUME NEW k \in SectionNumbers, NEW i \in DOMAIN work[considered_sections[k]]
         PROVE  /\ Placed(k, i)' => \A a \in Referenced(work[considered_sections[k]][i]) :
                     at'[a][work[considered_sections[k]][i].name] =
                       base[a][considered_sections[k]] + planned[work[considered_sections[k]][i].name]
                /\ \A a \in Archs \ Referenced(work[considered_sections[k]][i]) :
                     at'[a][work[considered_sections[k]][i].name] = -1
    <2>c. PICK c \in Sections : c = considered_sections[k]
      BY SectionFacts
    <2>r. PICK r \in SymbolRecords : r = work[c][i]
      BY <1>6, <2>c
    <2>1. r.name \in Symbols /\ k \in Int /\ i \in Int
      BY <1>6, <2>c, SectionFacts DEF SymbolRecords
    <2>2. \A a \in Archs \ Referenced(r) : at[a][r.name] = -1
      BY <1>1, <2>c, <2>r DEF InPlace
    <2>3. Referenced(r) \subseteq Archs
      BY DEF Referenced
    <2>4. CASE k = k0 /\ i = j
      <3>1. r = s /\ c = c0
        BY <1>3, <1>s, <2>4, <2>c, <2>r
      <3>2. \A a \in Referenced(r) : at'[a][r.name] = base[a][c] + planned[r.name]
        BY <1>14, <1>p, <3>1
      <3>3. \A a \in Archs \ Referenced(r) : at'[a][r.name] = -1
        BY <1>14, <2>2, <3>1
      <3> QED
        BY <2>c, <2>r, <3>2, <3>3
    <2>5. CASE ~(k = k0 /\ i = j)
      <3>1. r.name # s.name
        <4>1. \A x \in DOMAIN work[c], y \in DOMAIN work[c0] :
                work[c][x].name = work[c0][y].name => c = c0 /\ x = y
          BY <1>1 DEF OneSection
        <4>2. c = c0 => k = k0
          BY <1>3, <2>c
        <4> QED
          BY <1>7, <1>s, <2>5, <2>c, <2>r, <4>1, <4>2
      <3>2. \A a \in Archs : at'[a][r.name] = at[a][r.name]
        BY <1>14, <2>1, <3>1
      <3>3. Placed(k, i)' => Placed(k, i)
        BY <1>2, <1>3, <1>4, <1>k, <1>j, <2>1, <2>5 DEF Placed, Behind
      <3>4. Placed(k, i) => \A a \in Referenced(r) : at[a][r.name] = base[a][c] + planned[r.name]
        BY <1>1, <2>c, <2>r DEF InPlace
      <3>5. Placed(k, i)' => \A a \in Referenced(r) : at'[a][r.name] = base[a][c] + planned[r.name]
        BY <2>3, <3>2, <3>3, <3>4
      <3>6. \A a \in Archs \ Referenced(r) : at'[a][r.name] = -1
        BY <2>2, <3>2
      <3> QED
        BY <2>c, <2>r, <3>5, <3>6
    <2> QED
      BY <2>4, <2>5
  <1>22. InPlace'
    <2>1. \A c, i : Referenced(work[c][i])' = Referenced(work[c][i])
      BY <1>2 DEF Referenced
    <2> QED
      BY <1>2, <1>21, <2>1 DEF InPlace
  <1> QED
    BY <1>15, <1>16, <1>17, <1>19, <1>20, <1>22 DEF IInv

-----------------------------------------------------------------------------
(* The theorem                                                             *)

(* What the invariant says once all is linked                              *)
LEMMA AlignedAtEnd == IInv => AlignedAcrossArchs
  <1> SUFFICES ASSUME IInv, phase = "linked", NEW c \in Sections, SameBase(c)
               PROVE  /\ AtPlanned(c)
                      /\ \A i, j \in DOMAIN work[c] :
                           \A a \in Referenced(work[c][i]), b \in Referenced(work[c][j]) :
                             IF i = j THEN at[a][work[c][i].name] = at[b][work[c][i].name]
                             ELSE Bytes(a, work[c][i]) \cap Bytes(b, work[c][j]) = {}
    BY DEF AlignedAcrossArchs
  <1>1. TypeOK /\ WorkOK /\ Apart /\ InPlace
    BY DEF IInv
  <1>2. PICK k \in SectionNumbers : c = considered_sections[k]
    BY SectionFacts
  <1>3. \A i \in DOMAIN work[c] :
          /\ \A a \in Referenced(work[c][i]) :
               at[a][work[c][i].name] = base[a][c] + planned[work[c][i].name]
          /\ \A a \in Archs \ Referenced(work[c][i]) : at[a][work[c][i].name] = -1
    BY <1>1, <1>2 DEF InPlace, Placed
  <1>4. AtPlanned(c)
    BY <1>3 DEF AtPlanned
  <1>5. /\ DOMAIN work[c] = 1 .. Len(work[c]) /\ Len(work[c]) \in Nat
        /\ \A i \in DOMAIN work[c] : work[c][i] \in SymbolRecords /\ SymbolOK(work[c][i])
    BY <1>1, WorkFacts DEF WorkOK
  <1>6. ASSUME NEW i \in DOMAIN work[c], NEW j \in DOMAIN work[c], i < j,
               NEW a \in Referenced(work[c][i]), NEW b \in Referenced(work[c][j])
        PROVE  Bytes(a, work[c][i]) \cap Bytes(b, work[c][j]) = {}
    <2>1. PICK s \in SymbolRecords : s = work[c][i]
      BY <1>5
    <2>2. PICK t \in SymbolRecords : t = work[c][j]
      BY <1>5
    <2>3. SymbolOK(s) /\ SymbolOK(t) /\ s.name \in Symbols /\ t.name \in Symbols
      BY <1>5, <2>1, <2>2 DEF SymbolRecords
    <2>4. a \in Archs /\ b \in Archs
      BY DEF Referenced
    <2>5. PICK x \in Int : x = planned[s.name]
      BY <1>1, <2>3 DEF TypeOK
    <2>6. PICK y \in Int : y = planned[t.name]
      BY <1>1, <2>3 DEF TypeOK
    <2>7. PICK z \in Int : z = base[a][c]
      BY <1>1, <2>4 DEF TypeOK
    <2>8. base[b][c] = z
      BY <2>4, <2>7 DEF SameBase
    <2>9. at[a][s.name] = z + x /\ at[b][t.name] = z + y
      BY <1>3, <1>6, <2>1, <2>2, <2>5, <2>6, <2>7, <2>8
    <2>10. Largest(s.size) \in Nat /\ s.size[a] \in Int /\ s.size[a] <= Largest(s.size)
      BY <2>3, <2>4, SymbolFacts
    <2>11. t.size[b] \in Int
      BY <2>3, <2>4, SymbolFacts
    <2>12. x + Largest(s.size) <= y
      <3>1. Met(k, j)
        BY DEF Met
      <3>2. End(c, i) <= planned[work[c][j].name]
        BY <1>1, <1>2, <1>6, <3>1 DEF Apart
      <3>3. i # 0
        BY <1>5
      <3>4. End(c, i) = x + Largest(s.size)
        BY <2>1, <2>5, <3>3 DEF End
      <3> QED
        BY <2>2, <2>6, <3>2, <3>4
    <2>13. Bytes(a, s) = (z + x) .. (z + x + s.size[a] - 1)
      BY <2>9 DEF Bytes
    <2>14. Bytes(b, t) = (z + y) .. (z + y + t.size[b] - 1)
      BY <2>9 DEF Bytes
    <2>15. PICK u \in Int : u = s.size[a] /\ x + u <= y
      BY <2>10, <2>12
    <2>16. PICK v \in Int : v = t.size[b]
      BY <2>11
    <2>17. ((z + x) .. (z + x + u - 1)) \cap ((z + y) .. (z + y + v - 1)) = {}
      BY <2>15
    <2> QED
      BY <2>1, <2>2, <2>13, <2>14, <2>15, <2>16, <2>17
  <1>7. ASSUME NEW i \in DOMAIN work[c], NEW j \in DOMAIN work[c],
               NEW a \in Referenced(work[c][i]), NEW b \in Referenced(work[c][j])
        PROVE  IF i = j THEN at[a][work[c][i].name] = at[b][work[c][i].name]
               ELSE Bytes(a, work[c][i]) \cap Bytes(b, work[c][j]) = {}
    <2>1. CASE i = j
      <3>1. a \in Archs /\ b \in Archs
        BY DEF Referenced
      <3>2. base[a][c] = base[b][c]
        BY <3>1 DEF SameBase
      <3>3. /\ at[a][work[c][i].name] = base[a][c] + planned[work[c][i].name]
            /\ at[b][work[c][i].name] = base[b][c] + planned[work[c][i].name]
        BY <1>3, <2>1
      <3> QED
        BY <2>1, <3>2, <3>3
    <2>2. CASE i < j
      <3>1. i # j
        BY <1>5, <2>2
      <3> QED
        BY <1>6, <2>2, <3>1
    <2>3. CASE j < i
      <3>1. Bytes(b, work[c][j]) \cap Bytes(a, work[c][i]) = {}
        BY <1>6, <2>3
      <3>2. i # j
        BY <1>5, <2>3
      <3> QED
        BY <3>1, <3>2
    <2>4. i \in Int /\ j \in Int
      BY <1>5
    <2>5. i = j \/ i < j \/ j < i
      BY <2>4
    <2> QED
      BY <2>1, <2>2, <2>3, <2>5
  <1> QED
    BY <1>4, <1>7

(* Every step of pyalign and the linker keeps the invariant.               *)
LEMMA InvNext == IInv /\ [AlignNext]_alignVars => IInv'
  <1> SUFFICES ASSUME IInv, [AlignNext]_alignVars PROVE IInv'
    OBVIOUS
  <1>1. CASE \E a \in Archs : pending[a] # << >> /\
               LET e == Head(pending[a])
               IN  SkipBlacklisted(a, e) \/ AlreadyReferenced(a, e) \/ updateSymbolsList(a, e)
    <2>1. PICK a \in Archs : \/ SkipBlacklisted(a, Head(pending[a]))
                             \/ AlreadyReferenced(a, Head(pending[a]))
                             \/ updateSymbolsList(a, Head(pending[a]))
      BY <1>1
    <2>2. CASE SkipBlacklisted(a, Head(pending[a]))
      BY <2>2, SkipInv
    <2>3. CASE AlreadyReferenced(a, Head(pending[a]))
      BY <2>3, FailInv
    <2>4. CASE updateSymbolsList(a, Head(pending[a]))
      BY <2>4, UpdateInv
    <2> QED
      BY <2>1, <2>2, <2>3, <2>4
  <1>2. CASE orderSymbolList
    BY <1>2, OrderInv
  <1>3. CASE align
    BY <1>3, AlignInv
  <1>4. CASE AlignNextSection
    BY <1>4, NextSectionInv
  <1>5. CASE OpenSection
    BY <1>5, OpenInv
  <1>6. CASE LinkSymbol
    BY <1>6, LinkInv
  <1>7. CASE CloseSection
    BY <1>7, CloseInv
  <1>8. CASE UNCHANGED alignVars
    <2>a. TypeOK' /\ Merge'
      BY <1>8 DEF alignVars, IInv, TypeOK, Merge, Nowhere
    <2>b. WorkOK'
      BY <1>8 DEF alignVars, IInv, WorkOK, SymbolOK
    <2>c. OneSection'
      BY <1>8 DEF alignVars, IInv, OneSection
    <2>1. TypeOK' /\ WorkOK' /\ OneSection' /\ Merge'
      BY <2>a, <2>b, <2>c
    <2>2. \A k, i : (Met(k, i)' <=> Met(k, i)) /\ (Placed(k, i)' <=> Placed(k, i))
      BY <1>8 DEF alignVars, Met, Placed, Behind
    <2>3. \A c, i : End(c, i)' = End(c, i) /\ (AlignedAt(c, i)' <=> AlignedAt(c, i))
      BY <1>8 DEF alignVars, End, AlignedAt, AlignedAs, Referenced
    <2>4. Unmet' /\ Aligned' /\ Apart' /\ InPlace'
      BY <1>8, <2>2, <2>3 DEF alignVars, IInv, Unmet, Aligned, Apart, InPlace, Referenced
    <2>5. AlignLoop' /\ LinkLoop'
      BY <1>8, <2>3 DEF alignVars, IInv, AlignLoop, LinkLoop, section, End
    <2> QED
      BY <2>1, <2>4, <2>5 DEF IInv
  <1> QED
    BY <1>1, <1>2, <1>3, <1>4, <1>5, <1>6, <1>7, <1>8 DEF AlignNext

(* A symbol has one address on all architectures that have it, and its     *)
(* memory no other symbol on any of them: for every list of architectures  *)
(* and of sections, all map files (__main__.py:94-186, Linker.py:35-101).  *)
THEOREM SymbolsAligned == AlignSpec => []AlignedAcrossArchs
  BY InvInit, InvNext, AlignedAtEnd, PTL DEF AlignSpec

(* The whole build is a build of pyalign's: what gen-stackinfo does to a   *)
(* binary, or pyalign giving up, leaves the symbols where they are         *)
(* (write.c:204-291).                                                      *)
THEOREM BuildIsAligned == BuildSpec => AlignSpec
  <1>1. BuildInit => AlignInit /\ MapFiles
    BY DEF BuildInit, Started
  <1>2. [Next]_vars => [AlignNext]_alignVars
    BY DEF Next, Build, PostProcess, Done, vars
  <1> QED
    BY <1>1, <1>2, PTL DEF BuildSpec, AlignSpec

(* So in every pair of binaries that is built a symbol has one address.    *)
COROLLARY BuiltSymbolsAligned == BuildSpec => []AlignedAcrossArchs
  BY BuildIsAligned, SymbolsAligned, PTL

-----------------------------------------------------------------------------
(* Sums, sequences and searches                                            *)

(* f is defined by recursion over 0 .. n.                                  *)
Recursive(f, n, V, v0, step) ==
  /\ f \in [0 .. n -> V]
  /\ f[0] = v0
  /\ \A i \in 1 .. n : f[i] = step[i][f[i - 1]]

RecursionTo(n, V, v0, step) == \E f : Recursive(f, n, V, v0, step)

(* Such a function exists: otherwise there would be a smallest n for which *)
(* it does not.                                                            *)
LEMMA RecursionExists ==
  ASSUME NEW n \in Nat, NEW V, NEW v0 \in V, NEW step \in [1 .. n -> [V -> V]]
  PROVE  \E f : Recursive(f, n, V, v0, step)
  <1> DEFINE Bad == {m \in 0 .. n : ~RecursionTo(m, V, v0, step)}
  <1>1. SUFFICES ASSUME Bad # {} PROVE FALSE
    BY DEF RecursionTo
  <1>2. Bad \in SUBSET Nat
    OBVIOUS
  <1>3. PICK m \in Bad : \A k \in Bad : m <= k
    <2> HIDE DEF Bad
    <2> QED
      BY <1>1, <1>2, SmallestOf
  <1>4. m # 0
    <2> DEFINE z == [x \in 0 .. 0 |-> v0]
    <2>1. Recursive(z, 0, V, v0, step)
      BY DEF Recursive
    <2>2. RecursionTo(0, V, v0, step)
      BY <2>1 DEF RecursionTo
    <2> QED
      BY <1>3, <2>2
  <1>5. m \in 1 .. n /\ m - 1 \in 0 .. n /\ m - 1 \notin Bad
    <2> HIDE DEF Bad
    <2>1. m \in 0 .. n
      BY DEF Bad
    <2> QED
      BY <2>1, <1>3, <1>4
  <1>6. PICK f : Recursive(f, m - 1, V, v0, step)
    BY <1>5 DEF RecursionTo
  <1> DEFINE g == [x \in 0 .. m |-> IF x = m THEN step[m][f[m - 1]] ELSE f[x]]
  <1>7. g \in [0 .. m -> V]
    <2>1. f[m - 1] \in V
      BY <1>5, <1>6 DEF Recursive
    <2>2. step[m][f[m - 1]] \in V
      BY <1>5, <2>1
    <2>3. \A x \in 0 .. m : x # m => f[x] \in V
      BY <1>5, <1>6 DEF Recursive
    <2> QED
      BY <2>2, <2>3
  <1>8. g[0] = v0
    BY <1>5, <1>6 DEF Recursive
  <1>9. \A i \in 1 .. m : g[i] = step[i][g[i - 1]]
    BY <1>5, <1>6 DEF Recursive
  <1>10. Recursive(g, m, V, v0, step)
    BY <1>7, <1>8, <1>9 DEF Recursive
  <1>11. RecursionTo(m, V, v0, step)
    BY <1>10 DEF RecursionTo
  <1> QED
    BY <1>3, <1>11

(* The sums of the beginnings of a sequence of numbers.                    *)
LEMMA SumFacts ==
  ASSUME NEW ns \in Seq(Int)
  PROVE  /\ SumOf(ns, 0) = 0
         /\ \A i \in 1 .. Len(ns) : SumOf(ns, i) = SumOf(ns, i - 1) + ns[i]
         /\ \A i \in 0 .. Len(ns) : SumOf(ns, i) \in Int
  <1> DEFINE n == Len(ns)
             step == [i \in 1 .. n |-> [v \in Int |-> v + ns[i]]]
             Is(sum) == sum = [j \in 0 .. Len(ns) |-> IF j = 0 THEN 0 ELSE sum[j - 1] + ns[j]]
  <1>1. n \in Nat /\ \A i \in 1 .. n : ns[i] \in Int
    OBVIOUS
  <1>2. step \in [1 .. n -> [Int -> Int]]
    BY <1>1
  <1>3. PICK f : Recursive(f, n, Int, 0, step)
    <2>1. n \in Nat /\ 0 \in Int
      OBVIOUS
    <2> HIDE DEF n, step
    <2> QED
      BY <2>1, <1>2, RecursionExists, Zenon
  <1>4. \A i \in 1 .. n : f[i] = f[i - 1] + ns[i]
    <2> SUFFICES ASSUME NEW i \in 1 .. n PROVE f[i] = f[i - 1] + ns[i]
      OBVIOUS
    <2>1. f[i - 1] \in Int /\ f[i] = step[i][f[i - 1]]
      <3> HIDE DEF step
      <3> QED
        BY <1>1, <1>3 DEF Recursive
    <2>2. step[i][f[i - 1]] = f[i - 1] + ns[i]
      BY <2>1
    <2> QED
      BY <2>1, <2>2
  <1>5. Is(f)
    BY <1>1, <1>3, <1>4 DEF Recursive
  <1> DEFINE sum == CHOOSE s : Is(s)
  <1>6. Is(sum)
    <2> HIDE DEF Is
    <2> QED
      BY <1>5
  <1>7. \A i : SumOf(ns, i) = sum[i]
    BY DEF SumOf
  <1>8. sum[0] = 0 /\ \A i \in 1 .. n : sum[i] = sum[i - 1] + ns[i]
    <2> HIDE DEF sum
    <2> QED
      BY <1>1, <1>6
  <1>9. \A i \in 0 .. n : sum[i] \in Int
    <2> HIDE DEF sum
    <2> DEFINE Bad == {i \in 0 .. n : sum[i] \notin Int}
    <2>1. SUFFICES ASSUME Bad # {} PROVE FALSE
      OBVIOUS
    <2>2. PICK m \in Bad : \A k \in Bad : m <= k
      <3>1. Bad \in SUBSET Nat
        BY <1>1
      <3> HIDE DEF Bad
      <3> QED
        BY <3>1, <2>1, SmallestOf
    <2>3. m # 0 /\ m - 1 \notin Bad
      BY <1>1, <1>8, <2>2
    <2> QED
      BY <1>1, <1>8, <2>2, <2>3
  <1> QED
    BY <1>7, <1>8, <1>9

(* Induction over 0 .. n.                                                  *)
LEMMA UpToN ==
  ASSUME NEW n \in Nat, NEW S, 0 \in S, \A i \in 1 .. n : i - 1 \in S => i \in S
  PROVE  \A i \in 0 .. n : i \in S
  <1> DEFINE Bad == (0 .. n) \ S
  <1>1. SUFFICES ASSUME Bad # {} PROVE FALSE
    OBVIOUS
  <1>2. Bad \in SUBSET Nat
    OBVIOUS
  <1>3. PICK m \in Bad : \A k \in Bad : m <= k
    <2> HIDE DEF Bad
    <2> QED
      BY <1>1, <1>2, SmallestOf
  <1> QED
    BY <1>3

(* Sums of natural numbers grow.                                           *)
LEMMA SumsGrow ==
  ASSUME NEW ns \in Seq(Nat)
  PROVE  /\ SumOf(ns, 0) = 0
         /\ \A i \in 1 .. Len(ns) : SumOf(ns, i) = SumOf(ns, i - 1) + ns[i]
         /\ \A i \in 0 .. Len(ns) : SumOf(ns, i) \in Nat
         /\ \A i, j \in 0 .. Len(ns) : i <= j => SumOf(ns, i) <= SumOf(ns, j)
  <1>1. ns \in Seq(Int) /\ Len(ns) \in Nat /\ \A i \in 1 .. Len(ns) : ns[i] \in Nat
    OBVIOUS
  <1>2. /\ SumOf(ns, 0) = 0
        /\ \A i \in 1 .. Len(ns) : SumOf(ns, i) = SumOf(ns, i - 1) + ns[i]
        /\ \A i \in 0 .. Len(ns) : SumOf(ns, i) \in Int
    BY <1>1, SumFacts
  <1> DEFINE S == {j \in 0 .. Len(ns) :
                     SumOf(ns, j) >= 0 /\ \A i \in 0 .. j : SumOf(ns, i) <= SumOf(ns, j)}
  <1>3. 0 \in S
    BY <1>1, <1>2
  <1>4. \A j \in 1 .. Len(ns) : j - 1 \in S => j \in S
    <2> SUFFICES ASSUME NEW j \in 1 .. Len(ns), j - 1 \in S PROVE j \in S
      OBVIOUS
    <2>1. j \in 0 .. Len(ns) /\ j - 1 \in 0 .. Len(ns)
      BY <1>1
    <2>2. SumOf(ns, j) = SumOf(ns, j - 1) + ns[j] /\ ns[j] \in Nat
      BY <1>1, <1>2
    <2>3. SumOf(ns, j - 1) \in Int /\ SumOf(ns, j) \in Int /\ SumOf(ns, j - 1) >= 0
      BY <1>2, <2>1
    <2>4. ASSUME NEW i \in 0 .. j PROVE SumOf(ns, i) <= SumOf(ns, j)
      <3>1. CASE i = j
        BY <3>1, <2>3
      <3>2. CASE i # j
        <4>1. i \in 0 .. (j - 1) /\ i \in 0 .. Len(ns)
          BY <3>2, <2>1
        <4>2. SumOf(ns, i) <= SumOf(ns, j - 1) /\ SumOf(ns, i) \in Int
          BY <4>1, <1>2
        <4> QED
          BY <4>2, <2>2, <2>3
      <3> QED
        BY <3>1, <3>2
    <2> QED
      BY <2>1, <2>2, <2>3, <2>4
  <1>5. \A j \in 0 .. Len(ns) : j \in S
    <2>1. Len(ns) \in Nat
      BY <1>1
    <2> HIDE DEF S
    <2> QED
      BY <2>1, <1>3, <1>4, UpToN
  <1>6. \A j \in 0 .. Len(ns) : SumOf(ns, j) >= 0
    BY <1>5
  <1>7. \A i, j \in 0 .. Len(ns) : i <= j => SumOf(ns, i) <= SumOf(ns, j)
    <2> SUFFICES ASSUME NEW i \in 0 .. Len(ns), NEW j \in 0 .. Len(ns), i <= j
                 PROVE  SumOf(ns, i) <= SumOf(ns, j)
      OBVIOUS
    <2>1. j \in S /\ i \in 0 .. j
      BY <1>5
    <2> QED
      BY <2>1
  <1> QED
    BY <1>2, <1>6, <1>7

(* Where the parts of FlattenSeq(ss) begin.                                *)
Lens(ss) == [i \in DOMAIN ss |-> Len(ss[i])]
Begin(ss, i) == SumOf(Lens(ss), i - 1)

(* Every part begins where the one before it ends.                         *)
LEMMA BeginFacts ==
  ASSUME NEW V, NEW ss \in Seq(Seq(V))
  PROVE  /\ Len(ss) \in Nat /\ DOMAIN ss = 1 .. Len(ss)
         /\ \A i \in 1 .. Len(ss) : ss[i] \in Seq(V) /\ Len(ss[i]) \in Nat
         /\ Begin(ss, 1) = 0
         /\ \A i \in 1 .. Len(ss) : Begin(ss, i + 1) = Begin(ss, i) + Len(ss[i])
         /\ \A i \in 1 .. (Len(ss) + 1) : Begin(ss, i) \in Nat
         /\ \A i, j \in 1 .. (Len(ss) + 1) : i <= j => Begin(ss, i) <= Begin(ss, j)
  <1>1. /\ Len(ss) \in Nat /\ DOMAIN ss = 1 .. Len(ss)
        /\ \A i \in 1 .. Len(ss) : ss[i] \in Seq(V) /\ Len(ss[i]) \in Nat
    OBVIOUS
  <1> DEFINE ns == Lens(ss)
  <1>2. ns \in Seq(Nat) /\ Len(ns) = Len(ss) /\ \A i \in 1 .. Len(ss) : ns[i] = Len(ss[i])
    BY <1>1 DEF Lens
  <1> HIDE DEF ns
  <1>3. /\ SumOf(ns, 0) = 0
        /\ \A i \in 1 .. Len(ns) : SumOf(ns, i) = SumOf(ns, i - 1) + ns[i]
        /\ \A i \in 0 .. Len(ns) : SumOf(ns, i) \in Nat
        /\ \A i, j \in 0 .. Len(ns) : i <= j => SumOf(ns, i) <= SumOf(ns, j)
    BY <1>2, SumsGrow
  <1>4. \A i : Begin(ss, i) = SumOf(ns, i - 1)
    BY DEF Begin, ns
  <1>5. Begin(ss, 1) = 0
    BY <1>3, <1>4
  <1>6. ASSUME NEW i \in 1 .. Len(ss)
        PROVE  Begin(ss, i + 1) = Begin(ss, i) + Len(ss[i])
    <2>1. Begin(ss, i + 1) = SumOf(ns, (i + 1) - 1) /\ (i + 1) - 1 = i
      BY <1>4
    <2>2. Begin(ss, i + 1) = SumOf(ns, i)
      BY <2>1
    <2> QED
      BY <1>2, <1>3, <1>4, <2>2
  <1>7. ASSUME NEW i \in 1 .. (Len(ss) + 1)
        PROVE  Begin(ss, i) \in Nat
    <2>1. i - 1 \in 0 .. Len(ns)
      BY <1>1, <1>2
    <2> QED
      BY <1>3, <1>4, <2>1
  <1>8. ASSUME NEW i \in 1 .. (Len(ss) + 1), NEW j \in 1 .. (Len(ss) + 1), i <= j
        PROVE  Begin(ss, i) <= Begin(ss, j)
    <2>1. i - 1 \in 0 .. Len(ns) /\ j - 1 \in 0 .. Len(ns) /\ i - 1 <= j - 1
      BY <1>1, <1>2, <1>8
    <2> QED
      BY <1>3, <1>4, <2>1
  <1> QED
    BY <1>1, <1>5, <1>6, <1>7, <1>8

(* The first i parts of ss are in t, one after the other.                  *)
InParts(t, ss, i) ==
  /\ Len(t) = Begin(ss, i + 1)
  /\ \A j \in 1 .. i : \A k \in 1 .. Len(ss[j]) :
       Begin(ss, j) + k \in 1 .. Len(t) /\ t[Begin(ss, j) + k] = ss[j][k]

(* One more part goes to the end.                                          *)
LEMMA NextPart ==
  ASSUME NEW V, NEW ss \in Seq(Seq(V)), NEW i \in 1 .. Len(ss), NEW t \in Seq(V),
         InParts(t, ss, i - 1)
  PROVE  InParts(t \o ss[i], ss, i)
  <1> DEFINE u == t \o ss[i]
  <1>0. /\ Len(ss) \in Nat /\ DOMAIN ss = 1 .. Len(ss)
        /\ \A j \in 1 .. Len(ss) : ss[j] \in Seq(V) /\ Len(ss[j]) \in Nat
        /\ \A j \in 1 .. Len(ss) : Begin(ss, j + 1) = Begin(ss, j) + Len(ss[j])
        /\ \A j \in 1 .. (Len(ss) + 1) : Begin(ss, j) \in Nat
    BY BeginFacts
  <1>1. ss[i] \in Seq(V) /\ Len(ss[i]) \in Nat /\ Len(t) \in Nat
    BY <1>0
  <1>2. /\ Len(u) = Len(t) + Len(ss[i])
        /\ \A m \in 1 .. Len(t) + Len(ss[i]) :
             u[m] = IF m <= Len(t) THEN t[m] ELSE ss[i][m - Len(t)]
    BY <1>1, ConcatProperties
  <1> HIDE DEF u
  <1>3. (i - 1) + 1 = i
    OBVIOUS
  <1>4. Len(t) = Begin(ss, i)
    BY <1>3 DEF InParts
  <1>5. Len(u) = Begin(ss, i + 1)
    BY <1>0, <1>2, <1>4
  <1>6. ASSUME NEW j \in 1 .. i, NEW k \in 1 .. Len(ss[j])
        PROVE  Begin(ss, j) + k \in 1 .. Len(u) /\ u[Begin(ss, j) + k] = ss[j][k]
    <2>0. Begin(ss, j) \in Nat /\ Len(ss[j]) \in Nat
      BY <1>0
    <2>1. CASE j = i
      <3>1. Begin(ss, j) + k \in 1 .. Len(u) /\ ~(Begin(ss, j) + k <= Len(t))
            /\ (Begin(ss, j) + k) - Len(t) = k
        BY <1>1, <1>2, <1>4, <2>0, <2>1
      <3>2. u[Begin(ss, j) + k] = ss[i][(Begin(ss, j) + k) - Len(t)]
        BY <1>2, <3>1
      <3> QED
        BY <2>1, <3>1, <3>2
    <2>2. CASE j # i
      <3>1. j \in 1 .. (i - 1)
        BY <2>2
      <3>2. Begin(ss, j) + k \in 1 .. Len(t) /\ t[Begin(ss, j) + k] = ss[j][k]
        BY <3>1 DEF InParts
      <3> DEFINE m == Begin(ss, j) + k
      <3>3. m \in 1 .. Len(t) /\ t[m] = ss[j][k]
        BY <3>2
      <3> HIDE DEF m
      <3>4. m \in 1 .. Len(t) + Len(ss[i]) /\ m <= Len(t) /\ m \in 1 .. Len(u)
        BY <1>1, <1>2, <3>3
      <3>5. u[m] = t[m]
        BY <1>2, <3>4
      <3> QED
        BY <3>3, <3>4, <3>5 DEF m
    <2> QED
      BY <2>1, <2>2
  <1>7. InParts(u, ss, i)
    BY <1>5, <1>6 DEF InParts
  <1> QED
    BY <1>7 DEF u

(* FlattenSeq(ss) is the parts of ss one after the other.                  *)
LEMMA FlattenFacts ==
  ASSUME NEW V, NEW ss \in Seq(Seq(V))
  PROVE  FlattenSeq(ss) \in Seq(V) /\ InParts(FlattenSeq(ss), ss, Len(ss))
  <1> DEFINE n == Len(ss)
             step == [i \in 1 .. n |-> [v \in Seq(V) |-> v \o ss[i]]]
             Is(flatten) ==
               flatten = [i \in 1 .. Len(ss) |-> IF i = 1 THEN ss[i] ELSE flatten[i - 1] \o ss[i]]
  <1>0. /\ Len(ss) \in Nat /\ DOMAIN ss = 1 .. Len(ss)
        /\ \A j \in 1 .. Len(ss) : ss[j] \in Seq(V) /\ Len(ss[j]) \in Nat
        /\ Begin(ss, 1) = 0
    BY BeginFacts
  <1>1. CASE n = 0
    <2>1. FlattenSeq(ss) = ss /\ ss = << >>
      BY <1>1, <1>0 DEF FlattenSeq
    <2>2. << >> \in Seq(V) /\ Len(<< >>) = 0
      OBVIOUS
    <2>3. InParts(<< >>, ss, 0)
      BY <1>0, <2>2 DEF InParts
    <2> QED
      BY <1>1, <2>1, <2>2, <2>3
  <1>2. CASE n # 0
    <2>1. step \in [1 .. n -> [Seq(V) -> Seq(V)]]
      <3>1. ASSUME NEW i \in 1 .. n, NEW v \in Seq(V) PROVE v \o ss[i] \in Seq(V)
        BY <1>0, ConcatProperties
      <3> QED
        BY <3>1
    <2>2. PICK f : Recursive(f, n, Seq(V), << >>, step)
      <3>1. n \in Nat /\ << >> \in Seq(V)
        BY <1>0
      <3> HIDE DEF n, step
      <3> QED
        BY <3>1, <2>1, RecursionExists, Zenon
    <2>3. f \in [0 .. n -> Seq(V)] /\ f[0] = << >>
      BY <2>2 DEF Recursive
    <2>4. \A i \in 1 .. n : f[i] = f[i - 1] \o ss[i]
      <3> SUFFICES ASSUME NEW i \in 1 .. n PROVE f[i] = f[i - 1] \o ss[i]
        OBVIOUS
      <3>1. f[i - 1] \in Seq(V)
        <4>1. i - 1 \in 0 .. n
          BY <1>0
        <4> DEFINE W == Seq(V)
        <4>2. f \in [0 .. n -> W]
          BY <2>3
        <4> HIDE DEF W, n
        <4>3. f[i - 1] \in W
          BY <4>1, <4>2
        <4> QED
          BY <4>3 DEF W
      <3>2. f[i] = step[i][f[i - 1]]
        BY <2>2 DEF Recursive
      <3> QED
        BY <3>1, <3>2
    <2> DEFINE g == [i \in 1 .. n |-> f[i]]
    <2>5. Is(g)
      <3>1. f[1] = ss[1]
        <4>0. 1 \in 1 .. n /\ 1 - 1 = 0
          BY <1>0, <1>2
        <4>1. f[1] = f[1 - 1] \o ss[1] /\ ss[1] \in Seq(V)
          BY <1>0, <4>0, <2>4
        <4>2. f[1 - 1] = << >>
          BY <4>0, <2>3
        <4> QED
          BY <4>1, <4>2, ConcatEmptySeq
      <3>2. ASSUME NEW i \in 1 .. n
            PROVE  g[i] = IF i = 1 THEN ss[i] ELSE g[i - 1] \o ss[i]
        <4>1. CASE i = 1
          BY <3>1, <4>1
        <4>2. CASE i # 1
          <5>1. i - 1 \in 1 .. n /\ i \in 1 .. n
            BY <4>2, <1>0
          <5>2. g[i] = f[i] /\ g[i - 1] = f[i - 1]
            <6> HIDE DEF n
            <6> QED
              BY <5>1
          <5> HIDE DEF g
          <5>3. g[i] = g[i - 1] \o ss[i]
            BY <5>2, <2>4
          <5> QED
            BY <4>2, <5>3
        <4> QED
          BY <4>1, <4>2
      <3> QED
        BY <3>2
    <2> DEFINE h == CHOOSE s : Is(s)
    <2>6. Is(h)
      <3> HIDE DEF Is, g
      <3> QED
        BY <2>5
    <2>7. FlattenSeq(ss) = h[n]
      BY <1>2 DEF FlattenSeq
    <2>8. \A i \in 1 .. n : h[i] = IF i = 1 THEN ss[i] ELSE h[i - 1] \o ss[i]
      <3> HIDE DEF h
      <3> QED
        BY <2>6
    <2> HIDE DEF h, Is, g
    <2> DEFINE S == {i \in 0 .. n : i # 0 => h[i] \in Seq(V) /\ InParts(h[i], ss, i)}
    <2>9. \A i \in 1 .. n : i - 1 \in S => i \in S
      <3> SUFFICES ASSUME NEW i \in 1 .. n, i - 1 \in S PROVE i \in S
        OBVIOUS
      <3>1. CASE i = 1
        <4>1. << >> \in Seq(V) /\ Len(<< >>) = 0
          OBVIOUS
        <4>2. InParts(<< >>, ss, 0)
          BY <1>0, <4>1 DEF InParts
        <4>3. InParts(<< >> \o ss[i], ss, i)
          <5>1. i - 1 = 0 /\ i \in 1 .. Len(ss)
            BY <3>1
          <5>2. InParts(<< >>, ss, i - 1)
            BY <4>2, <5>1
          <5> QED
            BY <4>1, <5>1, <5>2, NextPart
        <4>4. << >> \o ss[i] = ss[i] /\ ss[i] \in Seq(V)
          BY <1>0, ConcatEmptySeq
        <4>5. h[i] = ss[i]
          BY <2>8, <3>1
        <4> QED
          BY <1>0, <4>3, <4>4, <4>5
      <3>2. CASE i # 1
        <4>1. h[i - 1] \in Seq(V) /\ InParts(h[i - 1], ss, i - 1)
          BY <3>2, <1>0
        <4>2. h[i] = h[i - 1] \o ss[i]
          BY <2>8, <3>2
        <4>3. InParts(h[i - 1] \o ss[i], ss, i)
          BY <4>1, NextPart
        <4>4. h[i - 1] \o ss[i] \in Seq(V)
          BY <1>0, <4>1, ConcatProperties
        <4>5. h[i] \in Seq(V) /\ InParts(h[i], ss, i)
          BY <4>2, <4>3, <4>4
        <4> QED
          BY <1>0, <4>5
      <3> QED
        BY <3>1, <3>2
    <2>10. 0 \in S /\ n \in Nat
      BY <1>0
    <2>11. n \in S
      <3>1. n \in 0 .. n
        BY <1>0
      <3> HIDE DEF S, n
      <3> QED
        BY <2>9, <2>10, <3>1, UpToN
    <2> QED
      BY <1>2, <2>7, <2>11
  <1> QED
    BY <1>1, <1>2

(* Every element of FlattenSeq(ss) is from a part.                         *)
LEMMA FlattenOrigin ==
  ASSUME NEW V, NEW ss \in Seq(Seq(V)), NEW m \in 1 .. Len(FlattenSeq(ss))
  PROVE  \E i \in 1 .. Len(ss) : \E k \in 1 .. Len(ss[i]) : m = Begin(ss, i) + k
  <1>0. /\ Len(ss) \in Nat /\ DOMAIN ss = 1 .. Len(ss)
        /\ \A j \in 1 .. Len(ss) : ss[j] \in Seq(V) /\ Len(ss[j]) \in Nat
        /\ Begin(ss, 1) = 0
        /\ \A j \in 1 .. Len(ss) : Begin(ss, j + 1) = Begin(ss, j) + Len(ss[j])
        /\ \A j \in 1 .. (Len(ss) + 1) : Begin(ss, j) \in Nat
    BY BeginFacts
  <1>1. m \in Nat /\ 1 <= m /\ m <= Begin(ss, Len(ss) + 1)
    <2>1. Len(FlattenSeq(ss)) = Begin(ss, Len(ss) + 1)
      BY FlattenFacts DEF InParts
    <2>2. Begin(ss, Len(ss) + 1) \in Nat
      BY <1>0
    <2> QED
      BY <2>1, <2>2
  <1> DEFINE S == {i \in 1 .. (Len(ss) + 1) : m <= Begin(ss, i)}
  <1>2. S \in SUBSET Nat /\ S # {}
    <2>1. Len(ss) + 1 \in S
      BY <1>0, <1>1
    <2> QED
      BY <2>1
  <1>3. PICK j \in S : \A k \in S : j <= k
    <2> HIDE DEF S
    <2> QED
      BY <1>2, SmallestOf
  <1>4. j # 1
    BY <1>0, <1>1, <1>3
  <1>5. j - 1 \in 1 .. Len(ss) /\ j - 1 \notin S
    BY <1>0, <1>3, <1>4
  <1>6. ~(m <= Begin(ss, j - 1)) /\ Begin(ss, j - 1) \in Nat
    BY <1>0, <1>5
  <1>7. (j - 1) + 1 = j /\ Begin(ss, j) = Begin(ss, j - 1) + Len(ss[j - 1]) /\ m <= Begin(ss, j)
    <2>1. (j - 1) + 1 = j
      BY <1>3
    <2>2. Begin(ss, (j - 1) + 1) = Begin(ss, j - 1) + Len(ss[j - 1])
      BY <1>0, <1>5
    <2> QED
      BY <2>1, <2>2, <1>3
  <1>8. m - Begin(ss, j - 1) \in 1 .. Len(ss[j - 1])
    BY <1>0, <1>1, <1>5, <1>6, <1>7
  <1>9. m = Begin(ss, j - 1) + (m - Begin(ss, j - 1))
    BY <1>1, <1>6
  <1> QED
    BY <1>5, <1>8, <1>9

(* t holds the elements of S among the first i of s, in their order: from  *)
(* gives where each was.                                                   *)
KeptOf(t, s, S, i) ==
  /\ \A k \in 1 .. Len(t) : \E j \in 1 .. i : t[k] = s[j] /\ s[j] \in S
  /\ \A j \in 1 .. i : s[j] \in S => \E k \in 1 .. Len(t) : t[k] = s[j]
  /\ (\A j, l \in 1 .. Len(s) : s[j] = s[l] => j = l) =>
       \A k, l \in 1 .. Len(t) : t[k] = t[l] => k = l

(* One more element is kept or left out.                                   *)
LEMMA KeepNext ==
  ASSUME NEW V, NEW s \in Seq(V), NEW S, NEW i \in 1 .. Len(s), NEW t \in Seq(V),
         KeptOf(t, s, S, i - 1)
  PROVE  /\ s[i] \in S => KeptOf(Append(t, s[i]), s, S, i)
         /\ s[i] \notin S => KeptOf(t, s, S, i)
  <1>0. Len(s) \in Nat /\ Len(t) \in Nat /\ s[i] \in V /\ i \in Nat
    OBVIOUS
  <1>1. /\ \A k \in 1 .. Len(t) : \E j \in 1 .. (i - 1) : t[k] = s[j] /\ s[j] \in S
        /\ \A j \in 1 .. (i - 1) : s[j] \in S => \E k \in 1 .. Len(t) : t[k] = s[j]
        /\ (\A j, l \in 1 .. Len(s) : s[j] = s[l] => j = l) =>
             \A k, l \in 1 .. Len(t) : t[k] = t[l] => k = l
    BY DEF KeptOf
  <1>2. ASSUME s[i] \notin S PROVE KeptOf(t, s, S, i)
    <2>1. \A k \in 1 .. Len(t) : \E j \in 1 .. i : t[k] = s[j] /\ s[j] \in S
      BY <1>0, <1>1
    <2>2. \A j \in 1 .. i : s[j] \in S => \E k \in 1 .. Len(t) : t[k] = s[j]
      BY <1>0, <1>1, <1>2
    <2> QED
      BY <1>1, <2>1, <2>2 DEF KeptOf
  <1>3. ASSUME s[i] \in S PROVE KeptOf(Append(t, s[i]), s, S, i)
    <2> DEFINE u == Append(t, s[i])
    <2>1. /\ u \in Seq(V) /\ Len(u) = Len(t) + 1 /\ u[Len(t) + 1] = s[i]
          /\ \A k \in 1 .. Len(t) : u[k] = t[k]
      BY <1>0
    <2> HIDE DEF u
    <2>2. \A k \in 1 .. Len(u) : k \in 1 .. Len(t) \/ k = Len(t) + 1
      BY <1>0, <2>1
    <2>3. \A k \in 1 .. Len(t) : k \in 1 .. Len(u)
      BY <1>0, <2>1
    <2>4. \A j \in 1 .. (i - 1) : j \in 1 .. i /\ j \in 1 .. Len(s) /\ j # i
      BY <1>0
    <2>5. \A k \in 1 .. Len(u) : \E j \in 1 .. i : u[k] = s[j] /\ s[j] \in S
      <3> SUFFICES ASSUME NEW k \in 1 .. Len(u)
                   PROVE  \E j \in 1 .. i : u[k] = s[j] /\ s[j] \in S
        OBVIOUS
      <3>1. CASE k \in 1 .. Len(t)
        BY <3>1, <2>1, <2>4, <1>1
      <3>2. CASE k = Len(t) + 1
        BY <3>2, <2>1, <1>0, <1>3
      <3> QED
        BY <2>2, <3>1, <3>2
    <2>6. \A j \in 1 .. i : s[j] \in S => \E k \in 1 .. Len(u) : u[k] = s[j]
      <3> SUFFICES ASSUME NEW j \in 1 .. i, s[j] \in S
                   PROVE  \E k \in 1 .. Len(u) : u[k] = s[j]
        OBVIOUS
      <3>1. CASE j = i
        <4>1. Len(t) + 1 \in 1 .. Len(u)
          BY <1>0, <2>1
        <4> QED
          BY <3>1, <4>1, <2>1
      <3>2. CASE j # i
        <4>1. j \in 1 .. (i - 1)
          BY <1>0, <3>2
        <4>2. PICK k \in 1 .. Len(t) : t[k] = s[j]
          BY <4>1, <1>1
        <4> QED
          BY <4>2, <2>1, <2>3
      <3> QED
        BY <3>1, <3>2
    <2>7. ASSUME \A j, l \in 1 .. Len(s) : s[j] = s[l] => j = l
          PROVE  \A k, l \in 1 .. Len(u) : u[k] = u[l] => k = l
      <3>1. ASSUME NEW k \in 1 .. Len(t) PROVE u[k] # s[i]
        <4>1. PICK j \in 1 .. (i - 1) : t[k] = s[j]
          BY <1>1
        <4>2. s[j] # s[i]
          BY <2>4, <2>7
        <4> QED
          BY <4>1, <4>2, <2>1
      <3> SUFFICES ASSUME NEW k \in 1 .. Len(u), NEW l \in 1 .. Len(u), u[k] = u[l]
                   PROVE  k = l
        OBVIOUS
      <3>2. CASE k = Len(t) + 1 /\ l = Len(t) + 1
        BY <3>2
      <3>3. CASE k \in 1 .. Len(t) /\ l = Len(t) + 1
        BY <3>1, <3>3, <2>1
      <3>4. CASE l \in 1 .. Len(t) /\ k = Len(t) + 1
        BY <3>1, <3>4, <2>1
      <3>5. CASE k \in 1 .. Len(t) /\ l \in 1 .. Len(t)
        <4>1. t[k] = t[l]
          BY <3>5, <2>1
        <4> QED
          BY <3>5, <4>1, <2>7, <1>1
      <3> QED
        BY <2>2, <3>2, <3>3, <3>4, <3>5
    <2>8. KeptOf(u, s, S, i)
      BY <2>5, <2>6, <2>7 DEF KeptOf
    <2> QED
      BY <2>8 DEF u
  <1> QED
    BY <1>2, <1>3

(* What Keep keeps.                                                        *)
LEMMA KeepFacts ==
  ASSUME NEW V, NEW s \in Seq(V), NEW S
  PROVE  Keep(s, S) \in Seq(V) /\ KeptOf(Keep(s, S), s, S, Len(s))
  <1> DEFINE n == Len(s)
             W == Seq(V)
             step == [i \in 1 .. n |-> [v \in W |-> IF s[i] \in S THEN Append(v, s[i]) ELSE v]]
             Is(keep) ==
               keep = [j \in 0 .. Len(s) |->
                         IF j = 0 THEN << >>
                         ELSE IF s[j] \in S THEN Append(keep[j - 1], s[j]) ELSE keep[j - 1]]
  <1>0. n \in Nat /\ << >> \in W /\ Len(<< >>) = 0 /\ \A i \in 1 .. n : s[i] \in V
    OBVIOUS
  <1>1. step \in [1 .. n -> [W -> W]]
    <2>1. ASSUME NEW i \in 1 .. n, NEW v \in W
          PROVE  (IF s[i] \in S THEN Append(v, s[i]) ELSE v) \in W
      BY <1>0
    <2> HIDE DEF W, n
    <2> QED
      BY <2>1
  <1>2. PICK f : Recursive(f, n, W, << >>, step)
    <2> HIDE DEF n, step, W
    <2> QED
      BY <1>0, <1>1, RecursionExists, Zenon
  <1>3. f \in [0 .. n -> W] /\ f[0] = << >>
    BY <1>2 DEF Recursive
  <1>4. \A i \in 1 .. n : f[i] = IF s[i] \in S THEN Append(f[i - 1], s[i]) ELSE f[i - 1]
    <2> SUFFICES ASSUME NEW i \in 1 .. n
                 PROVE  f[i] = IF s[i] \in S THEN Append(f[i - 1], s[i]) ELSE f[i - 1]
      OBVIOUS
    <2>1. i - 1 \in 0 .. n
      BY <1>0
    <2>2. f[i - 1] \in W
      <3> HIDE DEF W, n
      <3> QED
        BY <1>3, <2>1
    <2>3. f[i] = step[i][f[i - 1]]
      BY <1>2 DEF Recursive
    <2> HIDE DEF W, n
    <2> QED
      BY <2>2, <2>3
  <1>5. Is(f)
    <2>1. \A j \in 0 .. n : j = 0 \/ j \in 1 .. n
      BY <1>0
    <2>2. f = [j \in 0 .. n |-> f[j]]
      <3> HIDE DEF W
      <3> QED
        BY <1>3
    <2>3. \A j \in 0 .. n : f[j] = IF j = 0 THEN << >>
                                  ELSE IF s[j] \in S THEN Append(f[j - 1], s[j]) ELSE f[j - 1]
      BY <1>3, <1>4, <2>1
    <2> QED
      BY <2>2, <2>3
  <1> DEFINE h == CHOOSE k : Is(k)
  <1>6. Is(h)
    <2> HIDE DEF Is
    <2> QED
      BY <1>5
  <1>7. Keep(s, S) = h[n]
    BY DEF Keep
  <1>8. h[0] = << >> /\ \A i \in 1 .. n :
           h[i] = IF s[i] \in S THEN Append(h[i - 1], s[i]) ELSE h[i - 1]
    <2> DEFINE body(j) == IF j = 0 THEN << >>
                          ELSE IF s[j] \in S THEN Append(h[j - 1], s[j]) ELSE h[j - 1]
    <2>1. h = [j \in 0 .. n |-> body(j)]
      <3> HIDE DEF h
      <3> QED
        BY <1>6
    <2>2. \A j \in 0 .. n : h[j] = body(j)
      <3> HIDE DEF h, body, n
      <3> QED
        BY <2>1
    <2>3. 0 \in 0 .. n /\ \A i \in 1 .. n : i \in 0 .. n /\ i # 0
      BY <1>0
    <2> HIDE DEF h
    <2> QED
      BY <2>2, <2>3
  <1> HIDE DEF h, Is
  <1> DEFINE T == {i \in 0 .. n : h[i] \in Seq(V) /\ KeptOf(h[i], s, S, i)}
  <1>9. 0 \in T
    <2>1. KeptOf(<< >>, s, S, 0)
      BY <1>0 DEF KeptOf
    <2>2. h[0] \in Seq(V) /\ KeptOf(h[0], s, S, 0)
      BY <1>8, <2>1
    <2> QED
      BY <1>0, <2>2
  <1>10. \A i \in 1 .. n : i - 1 \in T => i \in T
    <2> SUFFICES ASSUME NEW i \in 1 .. n, i - 1 \in T PROVE i \in T
      OBVIOUS
    <2>1. h[i - 1] \in Seq(V) /\ KeptOf(h[i - 1], s, S, i - 1)
      OBVIOUS
    <2>2. CASE s[i] \in S
      <3>1. h[i] = Append(h[i - 1], s[i])
        BY <1>8, <2>2
      <3>2. Append(h[i - 1], s[i]) \in Seq(V)
        BY <1>0, <2>1
      <3>3. KeptOf(Append(h[i - 1], s[i]), s, S, i)
        BY <2>1, <2>2, KeepNext
      <3>4. h[i] \in Seq(V) /\ KeptOf(h[i], s, S, i)
        BY <3>1, <3>2, <3>3
      <3> QED
        BY <1>0, <3>4
    <2>3. CASE s[i] \notin S
      <3>1. h[i] = h[i - 1]
        BY <1>8, <2>3
      <3>2. KeptOf(h[i - 1], s, S, i)
        BY <2>1, <2>3, KeepNext
      <3>3. h[i] \in Seq(V) /\ KeptOf(h[i], s, S, i)
        BY <2>1, <3>1, <3>2
      <3> QED
        BY <1>0, <3>3
    <2> QED
      BY <2>2, <2>3
  <1>11. n \in T
    <2>1. n \in 0 .. n
      BY <1>0
    <2> HIDE DEF T, n
    <2> QED
      BY <1>0, <1>9, <1>10, <2>1, UpToN
  <1> QED
    BY <1>7, <1>11

(* i comes before j when the elements are sorted.                          *)
Earlier(keys, i, j) == keys[i] < keys[j] \/ (keys[i] = keys[j] /\ i < j)

(* The elements up to the i-th are finitely many, and the i-th has more of *)
(* them than any earlier one.                                              *)
LEMMA UptoFacts ==
  ASSUME NEW n \in Nat, NEW keys \in [1 .. n -> Int]
  PROVE  /\ \A i \in 1 .. n : Cardinality(Upto(keys, i)) \in 1 .. n
         /\ \A i, j \in 1 .. n : Earlier(keys, i, j) =>
              Cardinality(Upto(keys, i)) < Cardinality(Upto(keys, j))
  <1>1. IsFiniteSet(1 .. n) /\ Cardinality(1 .. n) = n
    <2>1. 1 \in Int /\ n \in Int
      OBVIOUS
    <2>2. IsFiniteSet(1 .. n) /\ Cardinality(1 .. n) = IF 1 > n THEN 0 ELSE n - 1 + 1
      BY <2>1, FS_Interval
    <2> QED
      BY <2>2
  <1>2. ASSUME NEW i \in 1 .. n
        PROVE  /\ Upto(keys, i) \in SUBSET (1 .. n)
               /\ IsFiniteSet(Upto(keys, i)) /\ Cardinality(Upto(keys, i)) \in 1 .. n
    <2>1. Upto(keys, i) \in SUBSET (1 .. n) /\ i \in Upto(keys, i)
      BY DEF Upto
    <2>2. IsFiniteSet(Upto(keys, i)) /\ Cardinality(Upto(keys, i)) <= n
      BY <1>1, <2>1, FS_Subset
    <2>3. Cardinality(Upto(keys, i)) \in Nat
      BY <2>2, FS_CardinalityType
    <2>4. Cardinality(Upto(keys, i)) # 0
      BY <2>1, <2>2, FS_EmptySet
    <2> QED
      BY <2>1, <2>2, <2>3, <2>4
  <1>3. ASSUME NEW i \in 1 .. n, NEW j \in 1 .. n, Earlier(keys, i, j)
        PROVE  Cardinality(Upto(keys, i)) < Cardinality(Upto(keys, j))
    <2>1. keys[i] \in Int /\ keys[j] \in Int /\ \A k \in 1 .. n : keys[k] \in Int
      OBVIOUS
    <2>2. j \in Upto(keys, j) /\ j \notin Upto(keys, i)
      BY <1>3, <2>1 DEF Upto, Earlier
    <2>3. Upto(keys, i) \subseteq Upto(keys, j)
      <3> SUFFICES ASSUME NEW k \in Upto(keys, i) PROVE k \in Upto(keys, j)
        OBVIOUS
      <3>1. k \in 1 .. n /\ (keys[k] < keys[i] \/ (keys[k] = keys[i] /\ k <= i))
        BY DEF Upto
      <3>2. keys[k] < keys[j] \/ (keys[k] = keys[j] /\ k <= j)
        BY <1>3, <2>1, <3>1 DEF Earlier
      <3> QED
        BY <3>1, <3>2 DEF Upto
    <2> DEFINE ci == Cardinality(Upto(keys, i))
               cj == Cardinality(Upto(keys, j))
    <2>4. ci <= cj /\ (cj = ci => Upto(keys, j) = Upto(keys, i))
      BY <1>2, <2>3, FS_Subset
    <2>5. ci \in 1 .. n /\ cj \in 1 .. n
      BY <1>2
    <2>6. ci # cj
      BY <2>2, <2>4
    <2> HIDE DEF ci, cj
    <2>7. ci < cj
      BY <2>4, <2>5, <2>6
    <2> QED
      BY <2>7 DEF ci, cj
  <1> QED
    BY <1>2, <1>3

(* Sorting is a permutation that puts the keys in order.                   *)
LEMMA SortFacts ==
  ASSUME NEW n \in Nat, NEW keys \in [1 .. n -> Int]
  PROVE  /\ \A k \in 1 .. n : Nth(keys, k) \in 1 .. n
         /\ \A i \in 1 .. n : \E k \in 1 .. n : Nth(keys, k) = i
         /\ \A k, l \in 1 .. n : Nth(keys, k) = Nth(keys, l) => k = l
         /\ \A k, l \in 1 .. n : k <= l => keys[Nth(keys, k)] <= keys[Nth(keys, l)]
  <1> DEFINE rank == [i \in 1 .. n |-> Cardinality(Upto(keys, i))]
  <1>1. rank \in [1 .. n -> 1 .. n]
    BY UptoFacts
  <1>2. \A i, j \in 1 .. n : Earlier(keys, i, j) => rank[i] < rank[j]
    BY UptoFacts
  <1>3. \A i, j \in 1 .. n : i = j \/ Earlier(keys, i, j) \/ Earlier(keys, j, i)
    BY DEF Earlier
  <1>4. \A k : Nth(keys, k) = CHOOSE i \in 1 .. n : rank[i] = k
    <2> SUFFICES ASSUME NEW k PROVE Nth(keys, k) = CHOOSE i \in 1 .. n : rank[i] = k
      OBVIOUS
    <2>1. DOMAIN keys = 1 .. n
      OBVIOUS
    <2>2. \A i \in 1 .. n : rank[i] = Cardinality(Upto(keys, i))
      OBVIOUS
    <2> HIDE DEF rank
    <2> QED
      BY <2>1, <2>2 DEF Nth
  <1> HIDE DEF rank
  <1>5. \A i, j \in 1 .. n : rank[i] = rank[j] => i = j
    <2> SUFFICES ASSUME NEW i \in 1 .. n, NEW j \in 1 .. n, rank[i] = rank[j], i # j PROVE FALSE
      OBVIOUS
    <2>1. rank[i] < rank[j] \/ rank[j] < rank[i]
      BY <1>2, <1>3
    <2>2. rank[i] \in Int /\ rank[j] \in Int
      BY <1>1
    <2> QED
      BY <2>1, <2>2
  <1>6. \A k \in 1 .. n : \E i \in 1 .. n : rank[i] = k
    <2>1. rank \in Injection(1 .. n, 1 .. n)
      BY <1>1, <1>5 DEF Injection, IsInjective
    <2>2. IsFiniteSet(1 .. n)
      <3>1. 1 \in Int /\ n \in Int
        OBVIOUS
      <3> QED
        BY <3>1, FS_Interval
    <2>3. rank \in Surjection(1 .. n, 1 .. n)
      BY <2>1, <2>2, FS_Injection
    <2> QED
      BY <2>3 DEF Surjection
  <1>7. \A k \in 1 .. n : Nth(keys, k) \in 1 .. n /\ rank[Nth(keys, k)] = k
    <2> SUFFICES ASSUME NEW k \in 1 .. n PROVE Nth(keys, k) \in 1 .. n /\ rank[Nth(keys, k)] = k
      OBVIOUS
    <2>1. \E i \in 1 .. n : rank[i] = k
      BY <1>6
    <2>2. Nth(keys, k) = CHOOSE i \in 1 .. n : rank[i] = k
      BY <1>4
    <2> QED
      BY <2>1, <2>2, Zenon
  <1>8. \A i \in 1 .. n : \E k \in 1 .. n : Nth(keys, k) = i
    <2> SUFFICES ASSUME NEW i \in 1 .. n PROVE \E k \in 1 .. n : Nth(keys, k) = i
      OBVIOUS
    <2>1. rank[i] \in 1 .. n
      BY <1>1
    <2>2. Nth(keys, rank[i]) \in 1 .. n /\ rank[Nth(keys, rank[i])] = rank[i]
      BY <1>7, <2>1
    <2>3. Nth(keys, rank[i]) = i
      BY <1>5, <2>2
    <2> QED
      BY <2>1, <2>3
  <1>9. \A k, l \in 1 .. n : k <= l => keys[Nth(keys, k)] <= keys[Nth(keys, l)]
    <2> SUFFICES ASSUME NEW k \in 1 .. n, NEW l \in 1 .. n, k <= l
                 PROVE  keys[Nth(keys, k)] <= keys[Nth(keys, l)]
      OBVIOUS
    <2> DEFINE i == Nth(keys, k)
               j == Nth(keys, l)
    <2>1. i \in 1 .. n /\ j \in 1 .. n /\ rank[i] = k /\ rank[j] = l
      BY <1>7
    <2> HIDE DEF i, j
    <2>2. keys[i] \in Int /\ keys[j] \in Int
      BY <2>1
    <2>3. ~Earlier(keys, j, i)
      BY <1>2, <2>1
    <2>4. keys[i] <= keys[j]
      BY <2>2, <2>3 DEF Earlier
    <2> QED
      BY <2>4 DEF i, j
  <1> QED
    BY <1>7, <1>8, <1>9

(* A binary search over n elements: it stops at the ranges of Stop with    *)
(* the result res, and goes on to the right at those of Right.             *)
Ranges(n) == (0 .. n) \X (-1 .. (n - 1))
Mid(p) == (p[2] + p[1]) \div 2
Step(f, p, Stop, res, Right) ==
  IF p[2] < p[1] THEN NULL
  ELSE IF p \in Stop THEN res[p]
  ELSE IF p \in Right THEN f[<<Mid(p) + 1, p[2]>>]
  ELSE f[<<p[1], Mid(p) - 1>>]
Halving(f, n, Stop, res, Right) == f = [p \in Ranges(n) |-> Step(f, p, Stop, res, Right)]

(* The two halves of a range are smaller.                                  *)
Size(p) == p[2] - p[1] + 1

(* The loops of the binary searches make progress.                         *)
LEMMA Halves ==
  ASSUME NEW n \in Nat, NEW p \in Ranges(n), ~(p[2] < p[1])
  PROVE  /\ Mid(p) \in 0 .. (n - 1) /\ p[1] <= Mid(p) /\ Mid(p) <= p[2]
         /\ <<Mid(p) + 1, p[2]>> \in Ranges(n) /\ Size(<<Mid(p) + 1, p[2]>>) < Size(p)
         /\ <<p[1], Mid(p) - 1>> \in Ranges(n) /\ Size(<<p[1], Mid(p) - 1>>) < Size(p)
  <1> DEFINE lo == p[1]
             hi == p[2]
             mid == Mid(p)
  <1>1. lo \in 0 .. n /\ hi \in -1 .. (n - 1) /\ lo <= hi
    BY DEF Ranges
  <1>2. mid = (hi + lo) \div 2
    BY DEF Mid
  <1> HIDE DEF lo, hi, mid
  <1>3. mid \in Int /\ lo <= mid /\ mid <= hi
    BY <1>1, <1>2
  <1>4. mid \in 0 .. (n - 1) /\ mid + 1 \in 0 .. n /\ mid - 1 \in -1 .. (n - 1)
    BY <1>1, <1>3
  <1>5. <<mid + 1, hi>> \in Ranges(n) /\ <<lo, mid - 1>> \in Ranges(n)
    BY <1>1, <1>4 DEF Ranges
  <1>6. Size(<<mid + 1, hi>>) = hi - (mid + 1) + 1 /\ Size(<<lo, mid - 1>>) = (mid - 1) - lo + 1
    BY DEF Size
  <1>7. Size(p) = hi - lo + 1
    BY DEF Size, lo, hi
  <1>8. Size(<<mid + 1, hi>>) < Size(p) /\ Size(<<lo, mid - 1>>) < Size(p)
    BY <1>1, <1>3, <1>6, <1>7
  <1> QED
    BY <1>3, <1>4, <1>5, <1>8 DEF lo, hi, mid

(* The number of elements of a range.                                      *)
LEMMA SizeFacts ==
  ASSUME NEW n \in Nat, NEW p \in Ranges(n)
  PROVE  Size(p) \in Int /\ Size(p) <= n /\ (Size(p) <= 0 => p[2] < p[1])
  BY DEF Ranges, Size

(* The search is defined: for the ranges of at most m elements, for any m. *)
LEMMA HalvingExists ==
  ASSUME NEW n \in Nat, NEW Stop, NEW res, NEW Right
  PROVE  \E f : Halving(f, n, Stop, res, Right)
  <1> DEFINE Solves(f, m) ==
               \A p \in Ranges(n) : Size(p) <= m => f[p] = Step(f, p, Stop, res, Right)
             S == {m \in 0 .. n : \E f : Solves(f, m)}
  <1>1. 0 \in S
    <2> DEFINE f == [p \in Ranges(n) |-> NULL]
    <2>1. ASSUME NEW p \in Ranges(n), Size(p) <= 0
          PROVE  f[p] = Step(f, p, Stop, res, Right)
      <3>1. p[2] < p[1]
        BY <2>1, SizeFacts
      <3>2. f[p] = NULL
        OBVIOUS
      <3> HIDE DEF f
      <3> QED
        BY <3>1, <3>2 DEF Step
    <2>2. Solves(f, 0)
      BY <2>1
    <2> QED
      BY <2>2
  <1>2. \A m \in 1 .. n : m - 1 \in S => m \in S
    <2> SUFFICES ASSUME NEW m \in 1 .. n, m - 1 \in S PROVE m \in S
      OBVIOUS
    <2>1. PICK f : Solves(f, m - 1)
      OBVIOUS
    <2> DEFINE g == [p \in Ranges(n) |-> Step(f, p, Stop, res, Right)]
    <2>2. \A p \in Ranges(n) : g[p] = Step(f, p, Stop, res, Right)
      OBVIOUS
    <2> HIDE DEF g
    <2>3. \A q \in Ranges(n) : Size(q) <= m - 1 => g[q] = f[q]
      BY <2>1, <2>2
    <2>4. ASSUME NEW p \in Ranges(n), Size(p) <= m
          PROVE  g[p] = Step(g, p, Stop, res, Right)
      <3>1. CASE p[2] < p[1]
        BY <2>2, <3>1 DEF Step
      <3>2. CASE ~(p[2] < p[1])
        <4> DEFINE r == <<Mid(p) + 1, p[2]>>
                   l == <<p[1], Mid(p) - 1>>
        <4>1. r \in Ranges(n) /\ l \in Ranges(n) /\ Size(r) < Size(p) /\ Size(l) < Size(p)
          BY <3>2, Halves
        <4>2. Size(r) \in Int /\ Size(l) \in Int /\ Size(p) \in Int
          BY <4>1, SizeFacts
        <4>3. g[p] = Step(f, p, Stop, res, Right)
          BY <2>2
        <4>4. /\ Step(f, p, Stop, res, Right) =
                   IF p \in Stop THEN res[p] ELSE IF p \in Right THEN f[r] ELSE f[l]
              /\ Step(g, p, Stop, res, Right) =
                   IF p \in Stop THEN res[p] ELSE IF p \in Right THEN g[r] ELSE g[l]
          BY <3>2 DEF Step
        <4> HIDE DEF r, l
        <4>5. Size(r) <= m - 1 /\ Size(l) <= m - 1
          BY <4>1, <4>2, <2>4
        <4>6. g[r] = f[r] /\ g[l] = f[l]
          BY <4>1, <4>5, <2>3
        <4> QED
          BY <4>3, <4>4, <4>6
      <3> QED
        BY <3>1, <3>2
    <2>5. Solves(g, m)
      BY <2>4
    <2> QED
      BY <2>5
  <1>3. n \in S
    <2>1. n \in 0 .. n
      OBVIOUS
    <2> HIDE DEF S
    <2> QED
      BY <1>1, <1>2, <2>1, UpToN
  <1>4. PICK f : Solves(f, n)
    BY <1>3
  <1> DEFINE g == [p \in Ranges(n) |-> f[p]]
  <1>5. \A p \in Ranges(n) : g[p] = f[p]
    OBVIOUS
  <1>6. ASSUME NEW p \in Ranges(n) PROVE f[p] = Step(g, p, Stop, res, Right)
    <2>1. f[p] = Step(f, p, Stop, res, Right)
      BY <1>4, SizeFacts
    <2> HIDE DEF g
    <2>2. CASE p[2] < p[1]
      BY <2>1, <2>2 DEF Step
    <2>3. CASE ~(p[2] < p[1])
      <3> DEFINE r == <<Mid(p) + 1, p[2]>>
                 l == <<p[1], Mid(p) - 1>>
      <3>1. g[r] = f[r] /\ g[l] = f[l]
        BY <2>3, <1>5, Halves
      <3> QED
        BY <2>1, <2>3, <3>1 DEF Step
    <2> QED
      BY <2>2, <2>3
  <1>7. g = [p \in Ranges(n) |-> Step(g, p, Stop, res, Right)]
    BY <1>6
  <1>8. Halving(g, n, Stop, res, Right)
    <2> HIDE DEF g
    <2> QED
      BY <1>7 DEF Halving
  <1> QED
    BY <1>8

(* It finds the target when it stops there, and looks for it on the right  *)
(* side of every other place.                                              *)
LEMMA HalvingFinds ==
  ASSUME NEW n \in Nat, NEW Stop, NEW res, NEW Right, NEW f, Halving(f, n, Stop, res, Right),
         NEW target \in 0 .. (n - 1),
         \A p \in Ranges(n) : p[1] <= target /\ target <= p[2] =>
           /\ Mid(p) = target => p \in Stop /\ res[p] = target
           /\ Mid(p) < target => p \notin Stop /\ p \in Right
           /\ Mid(p) > target => p \notin Stop /\ p \notin Right
  PROVE  f[<<0, n - 1>>] = target
  <1> DEFINE In(p) == p[1] <= target /\ target <= p[2]
             S == {m \in 0 .. n : \A p \in Ranges(n) : Size(p) <= m /\ In(p) => f[p] = target}
  <1>0. \A p \in Ranges(n) : f[p] = Step(f, p, Stop, res, Right)
    BY DEF Halving
  <1>1. 0 \in S
    <2>1. ASSUME NEW p \in Ranges(n), Size(p) <= 0, In(p) PROVE FALSE
      <3>1. p[2] < p[1] /\ p[1] \in Int /\ p[2] \in Int
        BY <2>1, SizeFacts DEF Ranges
      <3> QED
        BY <2>1, <3>1
    <2> QED
      BY <2>1
  <1>2. \A m \in 1 .. n : m - 1 \in S => m \in S
    <2> SUFFICES ASSUME NEW m \in 1 .. n, m - 1 \in S, NEW p \in Ranges(n), Size(p) <= m, In(p)
                 PROVE  f[p] = target
      OBVIOUS
    <2>1. p[1] \in Int /\ p[2] \in Int /\ ~(p[2] < p[1])
      BY DEF Ranges
    <2> DEFINE r == <<Mid(p) + 1, p[2]>>
               l == <<p[1], Mid(p) - 1>>
    <2>2. /\ Mid(p) \in 0 .. (n - 1)
          /\ r \in Ranges(n) /\ l \in Ranges(n) /\ Size(r) < Size(p) /\ Size(l) < Size(p)
      BY <2>1, Halves
    <2>3. Size(r) <= m - 1 /\ Size(l) <= m - 1
      <3>1. Size(r) \in Int /\ Size(l) \in Int /\ Size(p) \in Int
        BY <2>2, SizeFacts
      <3> HIDE DEF r, l
      <3> QED
        BY <3>1, <2>2
    <2>4. f[p] = IF p \in Stop THEN res[p] ELSE IF p \in Right THEN f[r] ELSE f[l]
      <3>1. f[p] = Step(f, p, Stop, res, Right)
        BY <1>0
      <3> QED
        BY <2>1, <3>1 DEF Step
    <2>5. /\ Mid(p) = target => p \in Stop /\ res[p] = target
          /\ Mid(p) < target => p \notin Stop /\ p \in Right
          /\ Mid(p) > target => p \notin Stop /\ p \notin Right
      OBVIOUS
    <2>6. CASE Mid(p) = target
      BY <2>4, <2>5, <2>6
    <2>7. CASE Mid(p) < target
      <3>1. In(r)
        BY <2>2, <2>7
      <3>2. f[r] = target
        <4> HIDE DEF r, In
        <4> QED
          BY <2>2, <2>3, <3>1
      <3> QED
        BY <3>2, <2>4, <2>5, <2>7
    <2>8. CASE Mid(p) > target
      <3>1. In(l)
        BY <2>2, <2>8
      <3>2. f[l] = target
        <4> HIDE DEF l, In
        <4> QED
          BY <2>2, <2>3, <3>1
      <3> QED
        BY <3>2, <2>4, <2>5, <2>8
    <2> QED
      BY <2>2, <2>6, <2>7, <2>8
  <1>3. n \in S
    <2>1. n \in 0 .. n
      OBVIOUS
    <2> HIDE DEF S
    <2> QED
      BY <1>1, <1>2, <2>1, UpToN
  <1> DEFINE p == <<0, n - 1>>
  <1>4. p \in Ranges(n) /\ In(p)
    BY DEF Ranges
  <1>5. Size(p) <= n
    BY <1>4, SizeFacts
  <1>6. \A q \in Ranges(n) : Size(q) <= n /\ In(q) => f[q] = target
    BY <1>3
  <1> HIDE DEF p, In, S
  <1>7. f[p] = target
    BY <1>4, <1>5, <1>6
  <1> QED
    BY <1>7 DEF p

(* It finds nothing when it never stops.                                   *)
LEMMA HalvingMisses ==
  ASSUME NEW n \in Nat, NEW Stop, NEW res, NEW Right, NEW f, Halving(f, n, Stop, res, Right),
         \A p \in Ranges(n) : ~(p[2] < p[1]) => p \notin Stop
  PROVE  f[<<0, n - 1>>] = NULL
  <1> DEFINE S == {m \in 0 .. n : \A p \in Ranges(n) : Size(p) <= m => f[p] = NULL}
  <1>0. \A p \in Ranges(n) : f[p] = Step(f, p, Stop, res, Right)
    BY DEF Halving
  <1>1. 0 \in S
    <2>1. ASSUME NEW p \in Ranges(n), Size(p) <= 0 PROVE f[p] = NULL
      <3>1. p[2] < p[1]
        BY <2>1, SizeFacts
      <3> QED
        BY <1>0, <3>1 DEF Step
    <2> QED
      BY <2>1
  <1>2. \A m \in 1 .. n : m - 1 \in S => m \in S
    <2> SUFFICES ASSUME NEW m \in 1 .. n, m - 1 \in S, NEW p \in Ranges(n), Size(p) <= m
                 PROVE  f[p] = NULL
      OBVIOUS
    <2>0. f[p] = Step(f, p, Stop, res, Right)
      BY <1>0
    <2>1. CASE p[2] < p[1]
      BY <2>0, <2>1 DEF Step
    <2>2. CASE ~(p[2] < p[1])
      <3> DEFINE r == <<Mid(p) + 1, p[2]>>
                 l == <<p[1], Mid(p) - 1>>
      <3>2. r \in Ranges(n) /\ l \in Ranges(n) /\ Size(r) < Size(p) /\ Size(l) < Size(p)
        BY <2>2, Halves
      <3>4. f[p] = IF p \in Right THEN f[r] ELSE f[l]
        BY <2>0, <2>2 DEF Step
      <3>5. Size(r) \in Int /\ Size(l) \in Int /\ Size(p) \in Int
        BY <3>2, SizeFacts
      <3> HIDE DEF r, l
      <3>6. Size(r) <= m - 1 /\ Size(l) <= m - 1
        BY <3>5, <3>2
      <3>7. f[r] = NULL /\ f[l] = NULL
        BY <3>2, <3>6
      <3> QED
        BY <3>4, <3>7
    <2> QED
      BY <2>1, <2>2
  <1>3. n \in S
    <2>1. n \in 0 .. n
      OBVIOUS
    <2> HIDE DEF S
    <2> QED
      BY <1>1, <1>2, <2>1, UpToN
  <1> DEFINE p == <<0, n - 1>>
  <1>4. p \in Ranges(n)
    BY DEF Ranges
  <1>5. Size(p) <= n
    BY <1>4, SizeFacts
  <1>6. \A q \in Ranges(n) : Size(q) <= n => f[q] = NULL
    BY <1>3
  <1> HIDE DEF p, S
  <1>7. f[p] = NULL
    BY <1>4, <1>5, <1>6
  <1> QED
    BY <1>7 DEF p

(* Binary search in keys that are all different and in order.              *)
Increasing(keys) == \A i, j \in 1 .. Len(keys) : i < j => keys[i] < keys[j]

(* The search of get_site_by_addr and get_site_by_id finds a key that      *)
(* there is, and no other one (util.c:113-171).                            *)
LEMMA SearchFacts ==
  ASSUME NEW keys \in Seq(Int), Increasing(keys), NEW want \in Int
  PROVE  /\ \A k \in 1 .. Len(keys) : keys[k] = want => Search(keys, want) = k - 1
         /\ (\A k \in 1 .. Len(keys) : keys[k] # want) => Search(keys, want) = NULL
  <1> DEFINE n == Len(keys)
             Stop == {p \in Ranges(n) : keys[Mid(p) + 1] = want}
             res == [p \in Ranges(n) |-> Mid(p)]
             Right == {p \in Ranges(n) : want > keys[Mid(p) + 1]}
             Is(f) == f = [p \in (0 .. n) \X (-1 .. (n - 1)) |->
                             IF p[2] < p[1] THEN NULL
                             ELSE IF keys[(p[2] + p[1]) \div 2 + 1] = want THEN (p[2] + p[1]) \div 2
                             ELSE IF want > keys[(p[2] + p[1]) \div 2 + 1]
                                  THEN f[<<(p[2] + p[1]) \div 2 + 1, p[2]>>]
                             ELSE f[<<p[1], (p[2] + p[1]) \div 2 - 1>>]]
  <1>0. n \in Nat /\ \A k \in 1 .. n : keys[k] \in Int
    OBVIOUS
  <1>1. ASSUME NEW f PROVE Is(f) <=> Halving(f, n, Stop, res, Right)
    <2>1. ASSUME NEW p \in Ranges(n)
          PROVE  Step(f, p, Stop, res, Right) =
                   IF p[2] < p[1] THEN NULL
                   ELSE IF keys[(p[2] + p[1]) \div 2 + 1] = want THEN (p[2] + p[1]) \div 2
                   ELSE IF want > keys[(p[2] + p[1]) \div 2 + 1]
                        THEN f[<<(p[2] + p[1]) \div 2 + 1, p[2]>>]
                   ELSE f[<<p[1], (p[2] + p[1]) \div 2 - 1>>]
      <3>1. p \in Stop <=> keys[Mid(p) + 1] = want
        OBVIOUS
      <3>2. p \in Right <=> want > keys[Mid(p) + 1]
        OBVIOUS
      <3>3. res[p] = Mid(p)
        OBVIOUS
      <3> HIDE DEF Stop, Right, res, n
      <3> QED
        BY <3>1, <3>2, <3>3 DEF Step, Mid
    <2> HIDE DEF Stop, Right, res
    <2>2. Halving(f, n, Stop, res, Right) <=>
            f = [p \in Ranges(n) |-> Step(f, p, Stop, res, Right)]
      BY DEF Halving
    <2> QED
      BY <2>1, <2>2, Zenon DEF Ranges
  <1> DEFINE f == CHOOSE g : Is(g)
  <1>2. Search(keys, want) = f[<<0, n - 1>>]
    BY DEF Search
  <1>3. Halving(f, n, Stop, res, Right)
    <2> HIDE DEF Is, n, Stop, res, Right
    <2>1. \E g : Is(g)
      BY <1>0, <1>1, HalvingExists
    <2>2. Is(f)
      BY <2>1
    <2> QED
      BY <1>1, <2>2
  <1> HIDE DEF f, Is
  <1>4. ASSUME NEW k \in 1 .. n, keys[k] = want PROVE Search(keys, want) = k - 1
    <2> DEFINE target == k - 1
    <2>1. target \in 0 .. (n - 1)
      BY <1>0
    <2>2. ASSUME NEW p \in Ranges(n), p[1] <= target, target <= p[2]
          PROVE  /\ Mid(p) = target => p \in Stop /\ res[p] = target
                 /\ Mid(p) < target => p \notin Stop /\ p \in Right
                 /\ Mid(p) > target => p \notin Stop /\ p \notin Right
      <3>1. p[1] \in Int /\ p[2] \in Int /\ ~(p[2] < p[1])
        BY <2>1, <2>2 DEF Ranges
      <3>2. Mid(p) \in 0 .. (n - 1)
        BY <1>0, <3>1, Halves
      <3> DEFINE c == Mid(p) + 1
      <3>3. c \in 1 .. n /\ keys[c] \in Int
        BY <1>0, <3>2
      <3>4. /\ Mid(p) = target <=> c = k
            /\ Mid(p) < target <=> c < k
            /\ Mid(p) > target <=> k < c
        BY <3>2
      <3>5. (p \in Stop <=> keys[c] = want) /\ (p \in Right <=> want > keys[c]) /\ res[p] = Mid(p)
        OBVIOUS
      <3> HIDE DEF c, Stop, Right, res, target
      <3>6. (c < k => keys[c] < keys[k]) /\ (k < c => keys[k] < keys[c])
        BY <3>3 DEF Increasing
      <3>7. (c < k => keys[c] < want) /\ (k < c => want < keys[c])
        BY <1>4, <3>6
      <3> QED
        BY <1>4, <3>3, <3>4, <3>5, <3>7
    <2>3. n \in Nat
      OBVIOUS
    <2> HIDE DEF n, Stop, Right, res, target
    <2>4. f[<<0, n - 1>>] = target
      BY <1>3, <2>1, <2>2, <2>3, HalvingFinds
    <2> QED
      BY <2>4, <1>2 DEF target
  <1>5. ASSUME \A k \in 1 .. n : keys[k] # want PROVE Search(keys, want) = NULL
    <2>1. ASSUME NEW p \in Ranges(n), ~(p[2] < p[1]) PROVE p \notin Stop
      <3>1. Mid(p) \in 0 .. (n - 1)
        BY <1>0, <2>1, Halves
      <3>2. Mid(p) + 1 \in 1 .. n
        BY <1>0, <3>1
      <3> QED
        BY <1>5, <3>2
    <2> HIDE DEF n, Stop, Right, res
    <2>2. f[<<0, n - 1>>] = NULL
      BY <1>0, <1>3, <2>1, HalvingMisses
    <2> QED
      BY <2>2, <1>2
  <1> QED
    BY <1>4, <1>5

(* The search for the record that an address is in finds it when the       *)
(* records have different addresses, in order.                             *)
LEMMA SearchRangeFacts ==
  ASSUME NEW addrs, NEW n \in Nat, Len(addrs) = n, \A k \in 1 .. n : addrs[k].addr \in Int,
         \A i, j \in 1 .. n : i < j => addrs[i].addr < addrs[j].addr,
         NEW addr \in Int, NEW k \in 1 .. n,
         addrs[k].addr <= addr, k < n => addr < addrs[k + 1].addr
  PROVE  SearchRange(addrs, addr) = k - 1
  <1> DEFINE here(p) == addrs[Mid(p) + 1].addr
             Stop == {p \in Ranges(n) :
                        \/ Mid(p) = n - 1
                        \/ here(p) <= addr /\ addr < addrs[Mid(p) + 2].addr}
             res == [p \in Ranges(n) |-> IF Mid(p) = n - 1
                                         THEN IF here(p) <= addr THEN Mid(p) ELSE NULL
                                         ELSE Mid(p)]
             Right == {p \in Ranges(n) : addr > here(p)}
             Body(f, p) ==
               IF p[2] < p[1] THEN NULL
               ELSE IF (p[2] + p[1]) \div 2 = n - 1
                    THEN IF addrs[(p[2] + p[1]) \div 2 + 1].addr <= addr
                         THEN (p[2] + p[1]) \div 2 ELSE NULL
               ELSE IF /\ addrs[(p[2] + p[1]) \div 2 + 1].addr <= addr
                       /\ addr < addrs[(p[2] + p[1]) \div 2 + 2].addr
                    THEN (p[2] + p[1]) \div 2
               ELSE IF addr > addrs[(p[2] + p[1]) \div 2 + 1].addr
                    THEN f[<<(p[2] + p[1]) \div 2 + 1, p[2]>>]
               ELSE f[<<p[1], (p[2] + p[1]) \div 2 - 1>>]
             Is(f) == f = [p \in (0 .. n) \X (-1 .. (n - 1)) |-> Body(f, p)]
  <1>1. ASSUME NEW f PROVE Is(f) <=> Halving(f, n, Stop, res, Right)
    <2>1. ASSUME NEW p \in Ranges(n)
          PROVE  Step(f, p, Stop, res, Right) = Body(f, p)
      <3>1. p \in Stop <=> \/ Mid(p) = n - 1
                           \/ here(p) <= addr /\ addr < addrs[Mid(p) + 2].addr
        OBVIOUS
      <3>2. p \in Right <=> addr > here(p)
        OBVIOUS
      <3>3. res[p] = IF Mid(p) = n - 1 THEN IF here(p) <= addr THEN Mid(p) ELSE NULL ELSE Mid(p)
        OBVIOUS
      <3> HIDE DEF Stop, Right, res
      <3> QED
        BY <3>1, <3>2, <3>3 DEF Step, Mid
    <2> HIDE DEF Stop, Right, res, Body
    <2>2. Halving(f, n, Stop, res, Right) <=>
            f = [p \in Ranges(n) |-> Step(f, p, Stop, res, Right)]
      BY DEF Halving
    <2> QED
      BY <2>1, <2>2, Zenon DEF Ranges
  <1> DEFINE f == CHOOSE g : Is(g)
  <1>2. SearchRange(addrs, addr) = f[<<0, n - 1>>]
    BY DEF SearchRange
  <1>3. Halving(f, n, Stop, res, Right)
    <2> HIDE DEF Is, Stop, res, Right
    <2>1. \E g : Is(g)
      BY <1>1, HalvingExists
    <2>2. Is(f)
      BY <2>1
    <2> QED
      BY <1>1, <2>2
  <1> HIDE DEF f, Is, Body
  <1> DEFINE target == k - 1
  <1>4. target \in 0 .. (n - 1)
    OBVIOUS
  <1>5. ASSUME NEW p \in Ranges(n), p[1] <= target, target <= p[2]
        PROVE  /\ Mid(p) = target => p \in Stop /\ res[p] = target
               /\ Mid(p) < target => p \notin Stop /\ p \in Right
               /\ Mid(p) > target => p \notin Stop /\ p \notin Right
    <2>1. p[1] \in 0 .. n /\ p[2] \in -1 .. (n - 1) /\ ~(p[2] < p[1])
      BY <1>4, <1>5 DEF Ranges
    <2>2. Mid(p) \in 0 .. (n - 1) /\ Mid(p) = (p[2] + p[1]) \div 2
      BY <2>1, Halves DEF Mid
    <2>3. Mid(p) = n - 1 => target = n - 1
      BY <1>4, <1>5, <2>1, <2>2
    <2> DEFINE c == Mid(p) + 1
               next == addrs[Mid(p) + 2].addr
    <2>4. c \in 1 .. n /\ addrs[c].addr \in Int
      BY <2>2
    <2>5. Mid(p) # n - 1 => c + 1 \in 1 .. n /\ next = addrs[c + 1].addr
      BY <2>2
    <2>6. /\ Mid(p) = target <=> c = k
          /\ Mid(p) < target <=> c < k
          /\ Mid(p) > target <=> k < c
          /\ Mid(p) = n - 1 <=> c = n
          /\ target = n - 1 <=> k = n
      <3>1. Mid(p) \in Int
        BY <2>2
      <3> QED
        BY <3>1
    <2>7. /\ p \in Stop <=> c = n \/ (addrs[c].addr <= addr /\ addr < next)
          /\ p \in Right <=> addr > addrs[c].addr
          /\ res[p] = IF c = n THEN IF addrs[c].addr <= addr THEN Mid(p) ELSE NULL ELSE Mid(p)
      BY <2>6
    <2> HIDE DEF c, next, Stop, Right, res, target
    <2>8. CASE c = k
      BY <2>4, <2>5, <2>6, <2>7, <2>8
    <2>9. CASE c < k
      <3>1. c # n /\ c + 1 \in 1 .. n /\ (c + 1 = k \/ c + 1 < k)
        BY <2>4, <2>9
      <3>2. addrs[c].addr < addrs[k].addr
        BY <2>4, <2>9
      <3>3. addrs[c + 1].addr <= addrs[k].addr
        BY <3>1
      <3>4. addrs[c].addr < addr /\ ~(addr < addrs[c + 1].addr)
        BY <2>4, <3>1, <3>2, <3>3
      <3> QED
        BY <2>4, <2>5, <2>6, <2>7, <2>9, <3>1, <3>4
    <2>10. CASE k < c
      <3>1. c # n
        BY <2>3, <2>6, <2>10
      <3>2. k < n /\ k + 1 \in 1 .. n /\ (c = k + 1 \/ k + 1 < c)
        BY <2>4, <2>10
      <3>3. addrs[k + 1].addr <= addrs[c].addr
        BY <2>4, <3>2
      <3>4. addr < addrs[c].addr
        BY <2>4, <3>2, <3>3
      <3> QED
        BY <2>4, <2>6, <2>7, <2>10, <3>1, <3>4
    <2> QED
      BY <2>4, <2>8, <2>9, <2>10
  <1> HIDE DEF Stop, Right, res, target
  <1>6. f[<<0, n - 1>>] = target
    BY <1>3, <1>4, <1>5, HalvingFinds
  <1> QED
    BY <1>2, <1>6 DEF target

-----------------------------------------------------------------------------
(* One binary                                                              *)

ObjectRecords == [recs : Seq(CallRecords), saved : Seq(SavedRegisters)]

(* The parts of the sections of a binary, and the sections.                *)
RecsOf(os) == [i \in DOMAIN os |-> os[i].recs]
RangesOf(os, t) == [i \in DOMAIN os |-> emitAddrRangeInfo(os[i], t)]
Recs(os) == Linked(RecsOf(os))
AddrRanges(os, t) == Linked(RangesOf(os, t))

(* The object files os, with the functions at t: what the proofs about one *)
(* binary need.  The code of two functions does not overlap.               *)
SavedOnce(os) ==
  /\ \A i \in DOMAIN os : \A k \in DOMAIN os[i].recs : \E l \in DOMAIN os[i].saved :
       /\ os[i].saved[l].func = os[i].recs[k].func
       /\ os[i].saved[l].num = os[i].recs[k].num_unwind
  /\ \A i, j \in DOMAIN os : \A k \in DOMAIN os[i].saved, l \in DOMAIN os[j].saved :
       os[i].saved[k].func = os[j].saved[l].func => i = j /\ k = l

CodeApart(rs, t) ==
  \A i, j \in DOMAIN rs : rs[i].func # rs[j].func =>
    \/ t[rs[i].func] + rs[i].offset < t[rs[j].func]
    \/ t[rs[j].func] + rs[j].offset < t[rs[i].func]

Binary(os, t) ==
  /\ os \in Seq(ObjectRecords)
  /\ t \in [Symbols -> Int]
  /\ SavedOnce(os)
  /\ CodeApart(Recs(os), t)

(* The stack maps of a binary are those of its object files, one after the *)
(* other.                                                                  *)
LEMMA RecsFacts ==
  ASSUME NEW os \in Seq(ObjectRecords)
  PROVE  /\ RecsOf(os) \in Seq(Seq(CallRecords))
         /\ Len(RecsOf(os)) = Len(os) /\ Len(os) \in Nat /\ DOMAIN os = 1 .. Len(os)
         /\ \A i \in 1 .. Len(os) : /\ RecsOf(os)[i] = os[i].recs /\ os[i] \in ObjectRecords
                                    /\ os[i].recs \in Seq(CallRecords)
                                    /\ os[i].saved \in Seq(SavedRegisters)
         /\ Recs(os) \in Seq(CallRecords)
         /\ \A m \in DOMAIN Recs(os) : \E i \in 1 .. Len(os) : \E k \in 1 .. Len(os[i].recs) :
              m = Begin(RecsOf(os), i) + k /\ Recs(os)[m] = os[i].recs[k]
         /\ \A i \in 1 .. Len(os) : \A k \in 1 .. Len(os[i].recs) :
              /\ Begin(RecsOf(os), i) + k \in DOMAIN Recs(os)
              /\ Recs(os)[Begin(RecsOf(os), i) + k] = os[i].recs[k]
  <1> DEFINE ss == RecsOf(os)
  <1>1. /\ Len(os) \in Nat /\ DOMAIN os = 1 .. Len(os)
        /\ \A i \in 1 .. Len(os) : os[i] \in ObjectRecords
    OBVIOUS
  <1>2. \A i \in 1 .. Len(os) :
          os[i].recs \in Seq(CallRecords) /\ os[i].saved \in Seq(SavedRegisters)
    BY <1>1 DEF ObjectRecords
  <1>3. ss \in Seq(Seq(CallRecords)) /\ Len(ss) = Len(os)
        /\ \A i \in 1 .. Len(os) : ss[i] = os[i].recs
    <2> DEFINE W == Seq(CallRecords)
               w(i) == os[i].recs
    <2>1. \A i \in 1 .. Len(os) : w(i) \in W
      BY <1>2
    <2>2. ss = [i \in 1 .. Len(os) |-> w(i)]
      BY <1>1 DEF RecsOf
    <2> HIDE DEF W, w, ss
    <2>3. ss \in Seq(W) /\ Len(ss) = Len(os) /\ \A i \in 1 .. Len(os) : ss[i] = w(i)
      BY <1>1, <2>1, <2>2
    <2> QED
      BY <2>3 DEF W, w
  <1> HIDE DEF ss
  <1>4. Recs(os) = FlattenSeq(ss)
    BY DEF Recs, Linked, ss
  <1>5. Recs(os) \in Seq(CallRecords) /\ InParts(Recs(os), ss, Len(ss))
    BY <1>3, <1>4, FlattenFacts
  <1>6. \A i \in 1 .. Len(os) : \A k \in 1 .. Len(os[i].recs) :
          Begin(ss, i) + k \in 1 .. Len(Recs(os)) /\ Recs(os)[Begin(ss, i) + k] = os[i].recs[k]
    <2> SUFFICES ASSUME NEW i \in 1 .. Len(os), NEW k \in 1 .. Len(os[i].recs)
                 PROVE  /\ Begin(ss, i) + k \in 1 .. Len(Recs(os))
                        /\ Recs(os)[Begin(ss, i) + k] = os[i].recs[k]
      OBVIOUS
    <2>1. i \in 1 .. Len(ss) /\ k \in 1 .. Len(ss[i]) /\ ss[i] = os[i].recs
      BY <1>3
    <2>2. \A j \in 1 .. Len(ss) : \A l \in 1 .. Len(ss[j]) :
            /\ Begin(ss, j) + l \in 1 .. Len(Recs(os))
            /\ Recs(os)[Begin(ss, j) + l] = ss[j][l]
      BY <1>5, Zenon DEF InParts
    <2> QED
      BY <2>1, <2>2, Zenon
  <1>7. DOMAIN Recs(os) = 1 .. Len(Recs(os))
    BY <1>5
  <1>8. \A m \in DOMAIN Recs(os) : \E i \in 1 .. Len(os) : \E k \in 1 .. Len(os[i].recs) :
          m = Begin(ss, i) + k /\ Recs(os)[m] = os[i].recs[k]
    <2> SUFFICES ASSUME NEW m \in DOMAIN Recs(os)
                 PROVE  \E i \in 1 .. Len(os) : \E k \in 1 .. Len(os[i].recs) :
                          m = Begin(ss, i) + k /\ Recs(os)[m] = os[i].recs[k]
      OBVIOUS
    <2>1. m \in 1 .. Len(FlattenSeq(ss))
      BY <1>4, <1>7
    <2>2. PICK i \in 1 .. Len(ss) : \E k \in 1 .. Len(ss[i]) : m = Begin(ss, i) + k
      BY <1>3, <2>1, FlattenOrigin
    <2>3. PICK k \in 1 .. Len(ss[i]) : m = Begin(ss, i) + k
      BY <2>2
    <2>4. i \in 1 .. Len(os) /\ k \in 1 .. Len(os[i].recs)
      BY <1>3, <2>2, <2>3
    <2> QED
      BY <1>6, <2>3, <2>4
  <1> QED
    BY <1>1, <1>2, <1>3, <1>5, <1>6, <1>7, <1>8 DEF ss

(* The registers an object file has are those of the functions with a      *)
(* stack map.                                                              *)
LEMMA SavedFacts ==
  ASSUME NEW o \in ObjectRecords,
         \A k, l \in DOMAIN o.saved : o.saved[k].func = o.saved[l].func => k = l
  PROVE  LET csr == FuncCalleeSaved(o)
         IN  /\ csr \in Seq(SavedRegisters)
             /\ \A k \in 1 .. Len(csr) :
                  /\ csr[k] \in SavedRegisters
                  /\ \E l \in DOMAIN o.saved : csr[k] = o.saved[l]
                  /\ hasStackMap(o, csr[k].func)
             /\ \A l \in DOMAIN o.saved : hasStackMap(o, o.saved[l].func) =>
                  \E k \in 1 .. Len(csr) : csr[k] = o.saved[l]
             /\ \A k, l \in 1 .. Len(csr) : csr[k].func = csr[l].func => k = l
  <1> DEFINE csr == FuncCalleeSaved(o)
             s == o.saved
             S == {e \in Range(o.saved) : hasStackMap(o, e.func)}
  <1>1. s \in Seq(SavedRegisters) /\ DOMAIN s = 1 .. Len(s)
    BY DEF ObjectRecords
  <1>2. csr = Keep(s, S)
    BY DEF FuncCalleeSaved
  <1>3. csr \in Seq(SavedRegisters) /\ KeptOf(csr, s, S, Len(s))
    <2> HIDE DEF csr, s, S
    <2> QED
      BY <1>1, <1>2, KeepFacts
  <1>4. \A l \in DOMAIN s : s[l] \in S <=> hasStackMap(o, s[l].func)
    BY DEF Range
  <1>5. \A k, l \in 1 .. Len(s) : s[k].func = s[l].func => k = l
    BY <1>1
  <1> HIDE DEF csr, s, S
  <1>6. /\ \A k \in 1 .. Len(csr) : \E j \in 1 .. Len(s) : csr[k] = s[j] /\ s[j] \in S
        /\ \A j \in 1 .. Len(s) : s[j] \in S => \E k \in 1 .. Len(csr) : csr[k] = s[j]
        /\ \A k, l \in 1 .. Len(csr) : csr[k] = csr[l] => k = l
    BY <1>3, <1>5 DEF KeptOf
  <1>7. ASSUME NEW k \in 1 .. Len(csr), NEW l \in 1 .. Len(csr), csr[k].func = csr[l].func
        PROVE  k = l
    <2>1. PICK i \in 1 .. Len(s) : csr[k] = s[i]
      BY <1>6
    <2>2. PICK j \in 1 .. Len(s) : csr[l] = s[j]
      BY <1>6
    <2>3. i = j
      BY <1>5, <1>7, <2>1, <2>2
    <2> QED
      BY <1>6, <2>1, <2>2, <2>3
  <1>8. \A k \in 1 .. Len(csr) : csr[k] \in SavedRegisters
    BY <1>3
  <1>9. \A k \in 1 .. Len(csr) :
          (\E l \in DOMAIN s : csr[k] = s[l]) /\ hasStackMap(o, csr[k].func)
    BY <1>1, <1>4, <1>6
  <1>10. \A l \in DOMAIN s : hasStackMap(o, s[l].func) => \E k \in 1 .. Len(csr) : csr[k] = s[l]
    BY <1>1, <1>4, <1>6
  <1> QED
    BY <1>3, <1>7, <1>8, <1>9, <1>10 DEF csr, s

UnwindAddr == [addr : Int, num_unwind : Nat, unwind_offset : Int]

(* The address ranges of one object file.                                  *)
LEMMA RangeFacts ==
  ASSUME NEW o \in ObjectRecords, NEW t \in [Symbols -> Int],
         \A k, l \in DOMAIN o.saved : o.saved[k].func = o.saved[l].func => k = l
  PROVE  /\ emitAddrRangeInfo(o, t) \in Seq(UnwindAddr)
         /\ Len(emitAddrRangeInfo(o, t)) = Len(FuncCalleeSaved(o))
         /\ \A k \in 1 .. Len(FuncCalleeSaved(o)) :
              /\ emitAddrRangeInfo(o, t)[k].addr = t[FuncCalleeSaved(o)[k].func]
              /\ emitAddrRangeInfo(o, t)[k].num_unwind = FuncCalleeSaved(o)[k].num
  <1> DEFINE csr == FuncCalleeSaved(o)
             ns == [j \in DOMAIN csr |-> csr[j].num]
             u == emitAddrRangeInfo(o, t)
             e(i) == [addr |-> t[csr[i].func], num_unwind |-> csr[i].num,
                      unwind_offset |-> SumOf(ns, i - 1)]
  <1>1. csr \in Seq(SavedRegisters)
    BY SavedFacts
  <1>2. u = [i \in DOMAIN csr |-> e(i)]
    BY DEF emitAddrRangeInfo
  <1> HIDE DEF csr, u
  <1>3. /\ DOMAIN csr = 1 .. Len(csr) /\ Len(csr) \in Nat
        /\ \A k \in 1 .. Len(csr) : csr[k].func \in Symbols /\ csr[k].num \in Nat
    <2>1. /\ DOMAIN csr = 1 .. Len(csr) /\ Len(csr) \in Nat
          /\ \A k \in 1 .. Len(csr) : csr[k] \in SavedRegisters
      BY <1>1
    <2> QED
      BY <2>1 DEF SavedRegisters
  <1>4. ns \in Seq(Nat) /\ Len(ns) = Len(csr)
    BY <1>3
  <1> HIDE DEF ns
  <1>5. \A i \in 1 .. Len(csr) : SumOf(ns, i - 1) \in Int
    <2> SUFFICES ASSUME NEW i \in 1 .. Len(csr) PROVE SumOf(ns, i - 1) \in Int
      OBVIOUS
    <2>1. i - 1 \in 0 .. Len(ns)
      BY <1>3, <1>4
    <2>2. SumOf(ns, i - 1) \in Nat
      BY <1>4, <2>1, SumsGrow
    <2> QED
      BY <2>2
  <1>6. \A i \in 1 .. Len(csr) : e(i) \in UnwindAddr
    <2> SUFFICES ASSUME NEW i \in 1 .. Len(csr) PROVE e(i) \in UnwindAddr
      OBVIOUS
    <2>1. t[csr[i].func] \in Int
      BY <1>3
    <2> QED
      BY <1>3, <1>5, <2>1 DEF UnwindAddr
  <1>7. \A i \in 1 .. Len(csr) : e(i).addr = t[csr[i].func] /\ e(i).num_unwind = csr[i].num
    OBVIOUS
  <1> HIDE DEF e
  <1>8. u \in Seq(UnwindAddr) /\ Len(u) = Len(csr) /\ \A i \in 1 .. Len(csr) : u[i] = e(i)
    <2>1. u = [i \in 1 .. Len(csr) |-> e(i)] /\ Len(csr) \in Nat
      BY <1>2, <1>3
    <2> HIDE DEF ns
    <2> QED
      BY <1>6, <2>1
  <1> QED
    BY <1>7, <1>8 DEF u, csr

(* Every address range is that of a function of an object file, ...        *)
EveryRange(os, t) ==
  \A m \in DOMAIN AddrRanges(os, t) :
    \E i \in 1 .. Len(os) : \E k \in 1 .. Len(FuncCalleeSaved(os[i])) :
      /\ m = Begin(RangesOf(os, t), i) + k
      /\ AddrRanges(os, t)[m].addr = t[FuncCalleeSaved(os[i])[k].func]
      /\ AddrRanges(os, t)[m].num_unwind = FuncCalleeSaved(os[i])[k].num

(* ... and every function with a stack map has one.                        *)
EveryFunction(os, t) ==
  \A i \in 1 .. Len(os) : \A k \in 1 .. Len(FuncCalleeSaved(os[i])) :
    /\ Begin(RangesOf(os, t), i) + k \in DOMAIN AddrRanges(os, t)
    /\ AddrRanges(os, t)[Begin(RangesOf(os, t), i) + k].addr
         = t[FuncCalleeSaved(os[i])[k].func]
    /\ AddrRanges(os, t)[Begin(RangesOf(os, t), i) + k].num_unwind
         = FuncCalleeSaved(os[i])[k].num

(* The address ranges of a binary, with the functions they are of.         *)
LEMMA AddrRangesFacts ==
  ASSUME NEW os, NEW t, Binary(os, t)
  PROVE  /\ RangesOf(os, t) \in Seq(Seq(UnwindAddr)) /\ Len(RangesOf(os, t)) = Len(os)
         /\ \A i \in 1 .. Len(os) : /\ RangesOf(os, t)[i] = emitAddrRangeInfo(os[i], t)
                                    /\ Len(RangesOf(os, t)[i]) = Len(FuncCalleeSaved(os[i]))
         /\ AddrRanges(os, t) \in Seq(UnwindAddr)
         /\ EveryRange(os, t) /\ EveryFunction(os, t)
  <1> DEFINE ss == RangesOf(os, t)
             raw == AddrRanges(os, t)
             csr(i) == FuncCalleeSaved(os[i])
             u(i) == emitAddrRangeInfo(os[i], t)
  <1>1. os \in Seq(ObjectRecords) /\ t \in [Symbols -> Int] /\ SavedOnce(os)
    BY DEF Binary
  <1>2. /\ Len(os) \in Nat /\ DOMAIN os = 1 .. Len(os)
        /\ \A i \in 1 .. Len(os) : os[i] \in ObjectRecords
    BY <1>1
  <1>3. \A i \in 1 .. Len(os) : /\ u(i) \in Seq(UnwindAddr) /\ Len(u(i)) = Len(csr(i))
                                /\ \A k \in 1 .. Len(csr(i)) : /\ u(i)[k].addr = t[csr(i)[k].func]
                                                               /\ u(i)[k].num_unwind = csr(i)[k].num
    <2> SUFFICES ASSUME NEW i \in 1 .. Len(os)
                 PROVE  /\ u(i) \in Seq(UnwindAddr) /\ Len(u(i)) = Len(csr(i))
                        /\ \A k \in 1 .. Len(csr(i)) : /\ u(i)[k].addr = t[csr(i)[k].func]
                                                       /\ u(i)[k].num_unwind = csr(i)[k].num
      OBVIOUS
    <2>1. \A k, l \in DOMAIN os[i].saved : os[i].saved[k].func = os[i].saved[l].func => k = l
      BY <1>1, <1>2 DEF SavedOnce
    <2> QED
      BY <1>1, <1>2, <2>1, RangeFacts
  <1>4. ss = [i \in 1 .. Len(os) |-> u(i)]
    BY <1>2 DEF RangesOf
  <1>5. ss \in Seq(Seq(UnwindAddr)) /\ Len(ss) = Len(os) /\ \A i \in 1 .. Len(os) : ss[i] = u(i)
    <2> DEFINE W == Seq(UnwindAddr)
    <2>1. \A i \in 1 .. Len(os) : u(i) \in W
      BY <1>3
    <2> HIDE DEF W, u, ss
    <2>2. ss \in Seq(W) /\ Len(ss) = Len(os) /\ \A i \in 1 .. Len(os) : ss[i] = u(i)
      BY <1>2, <1>4, <2>1
    <2> QED
      BY <2>2 DEF W
  <1>6. raw = FlattenSeq(ss)
    BY DEF AddrRanges, Linked
  <1> HIDE DEF ss, raw, u, csr
  <1>7. raw \in Seq(UnwindAddr) /\ InParts(raw, ss, Len(ss))
    BY <1>5, <1>6, FlattenFacts
  <1>8. DOMAIN raw = 1 .. Len(raw)
    BY <1>7
  <1>9. \A i \in 1 .. Len(os) : \A k \in 1 .. Len(csr(i)) :
          /\ Begin(ss, i) + k \in DOMAIN raw
          /\ raw[Begin(ss, i) + k].addr = t[csr(i)[k].func]
          /\ raw[Begin(ss, i) + k].num_unwind = csr(i)[k].num
    <2> SUFFICES ASSUME NEW i \in 1 .. Len(os), NEW k \in 1 .. Len(csr(i))
                 PROVE  /\ Begin(ss, i) + k \in DOMAIN raw
                        /\ raw[Begin(ss, i) + k].addr = t[csr(i)[k].func]
                        /\ raw[Begin(ss, i) + k].num_unwind = csr(i)[k].num
      OBVIOUS
    <2>1. i \in 1 .. Len(ss) /\ k \in 1 .. Len(ss[i]) /\ ss[i] = u(i)
      BY <1>3, <1>5
    <2>2. Begin(ss, i) + k \in 1 .. Len(raw) /\ raw[Begin(ss, i) + k] = ss[i][k]
      BY <1>7, <2>1 DEF InParts
    <2> QED
      BY <1>3, <1>8, <2>1, <2>2
  <1>10. \A m \in DOMAIN raw : \E i \in 1 .. Len(os) : \E k \in 1 .. Len(csr(i)) :
           m = Begin(ss, i) + k
    <2> SUFFICES ASSUME NEW m \in DOMAIN raw
                 PROVE  \E i \in 1 .. Len(os) : \E k \in 1 .. Len(csr(i)) : m = Begin(ss, i) + k
      OBVIOUS
    <2>1. m \in 1 .. Len(FlattenSeq(ss))
      BY <1>6, <1>8
    <2>2. PICK i \in 1 .. Len(ss) : \E k \in 1 .. Len(ss[i]) : m = Begin(ss, i) + k
      BY <1>5, <2>1, FlattenOrigin
    <2>3. PICK k \in 1 .. Len(ss[i]) : m = Begin(ss, i) + k
      BY <2>2
    <2>4. i \in 1 .. Len(os) /\ k \in 1 .. Len(csr(i))
      BY <1>3, <1>5, <2>2, <2>3
    <2> QED
      BY <2>3, <2>4
  <1>11. \A m \in DOMAIN raw : \E i \in 1 .. Len(os) : \E k \in 1 .. Len(csr(i)) :
           /\ m = Begin(ss, i) + k
           /\ raw[m].addr = t[csr(i)[k].func] /\ raw[m].num_unwind = csr(i)[k].num
    BY <1>9, <1>10
  <1> QED
    <2>1. EveryRange(os, t)
      BY <1>11 DEF EveryRange, ss, raw, csr
    <2>2. EveryFunction(os, t)
      BY <1>9 DEF EveryFunction, ss, raw, csr
    <2> QED
      BY <1>3, <1>5, <1>7, <2>1, <2>2 DEF ss, raw, u, csr

(* Every address range is that of the function of a call, every function   *)
(* with a call has one, and no two ranges begin at the same address.       *)
LEMMA RawFacts ==
  ASSUME NEW os, NEW t, Binary(os, t)
  PROVE  /\ \A m \in DOMAIN AddrRanges(os, t) : \E q \in DOMAIN Recs(os) :
              AddrRanges(os, t)[m].addr = t[Recs(os)[q].func]
         /\ \A q \in DOMAIN Recs(os) :
              \E i \in 1 .. Len(os) : \E k \in 1 .. Len(FuncCalleeSaved(os[i])) :
                /\ FuncCalleeSaved(os[i])[k].func = Recs(os)[q].func
                /\ FuncCalleeSaved(os[i])[k].num = Recs(os)[q].num_unwind
         /\ \A m, n \in DOMAIN AddrRanges(os, t) :
              AddrRanges(os, t)[m].addr = AddrRanges(os, t)[n].addr => m = n
  <1> DEFINE raw == AddrRanges(os, t)
             rs == Recs(os)
             csr(i) == FuncCalleeSaved(os[i])
  <1>1. os \in Seq(ObjectRecords) /\ t \in [Symbols -> Int] /\ SavedOnce(os) /\ CodeApart(rs, t)
    BY DEF Binary
  <1>2. /\ DOMAIN os = 1 .. Len(os)
        /\ \A i \in 1 .. Len(os) : /\ os[i] \in ObjectRecords
                                   /\ os[i].recs \in Seq(CallRecords)
                                   /\ os[i].saved \in Seq(SavedRegisters)
    BY <1>1, RecsFacts
  <1>3. rs \in Seq(CallRecords)
    BY <1>1, RecsFacts
  <1>4. \A m \in DOMAIN rs : \E i \in 1 .. Len(os) : \E k \in 1 .. Len(os[i].recs) :
              rs[m] = os[i].recs[k]
    BY <1>1, RecsFacts
  <1>5. \A i \in 1 .. Len(os) : \A k \in 1 .. Len(os[i].recs) :
          \E m \in DOMAIN rs : rs[m] = os[i].recs[k]
    <2> SUFFICES ASSUME NEW i \in 1 .. Len(os), NEW k \in 1 .. Len(os[i].recs)
                 PROVE  \E m \in DOMAIN rs : rs[m] = os[i].recs[k]
      OBVIOUS
    <2>1. /\ Begin(RecsOf(os), i) + k \in DOMAIN rs
          /\ rs[Begin(RecsOf(os), i) + k] = os[i].recs[k]
      BY <1>1, RecsFacts
    <2> QED
      BY <2>1
  <1>6. \A m \in DOMAIN raw :
              \E i \in 1 .. Len(os) : \E k \in 1 .. Len(csr(i)) :
                /\ m = Begin(RangesOf(os, t), i) + k
                /\ raw[m].addr = t[csr(i)[k].func]
    <2>1. \A m \in DOMAIN raw :
              \E i \in 1 .. Len(os) : \E k \in 1 .. Len(csr(i)) :
                /\ m = Begin(RangesOf(os, t), i) + k
                /\ raw[m].addr = t[csr(i)[k].func]
                /\ raw[m].num_unwind = csr(i)[k].num
      <3>1. EveryRange(os, t)
        BY AddrRangesFacts
      <3> QED
        BY <3>1, Zenon DEF EveryRange
    <2> HIDE DEF raw, csr
    <2> QED
      BY <2>1, Zenon
  <1>7. \A i \in 1 .. Len(os) :
             /\ \A k \in 1 .. Len(csr(i)) :
                  /\ \E l \in DOMAIN os[i].saved : csr(i)[k] = os[i].saved[l]
                  /\ hasStackMap(os[i], csr(i)[k].func)
             /\ \A l \in DOMAIN os[i].saved : hasStackMap(os[i], os[i].saved[l].func) =>
                  \E k \in 1 .. Len(csr(i)) : csr(i)[k] = os[i].saved[l]
             /\ \A k, l \in 1 .. Len(csr(i)) : csr(i)[k].func = csr(i)[l].func => k = l
    <2> SUFFICES ASSUME NEW i \in 1 .. Len(os)
                 PROVE  /\ \A k \in 1 .. Len(csr(i)) :
                             /\ \E l \in DOMAIN os[i].saved : csr(i)[k] = os[i].saved[l]
                             /\ hasStackMap(os[i], csr(i)[k].func)
                        /\ \A l \in DOMAIN os[i].saved : hasStackMap(os[i], os[i].saved[l].func) =>
                             \E k \in 1 .. Len(csr(i)) : csr(i)[k] = os[i].saved[l]
                        /\ \A k, l \in 1 .. Len(csr(i)) : csr(i)[k].func = csr(i)[l].func => k = l
      OBVIOUS
    <2>1. \A k, l \in DOMAIN os[i].saved : os[i].saved[k].func = os[i].saved[l].func => k = l
      BY <1>1, <1>2 DEF SavedOnce
    <2> QED
      BY <1>2, <2>1, SavedFacts
  <1> HIDE DEF raw, rs, csr
  <1>8. \A i \in 1 .. Len(os) : \A k \in 1 .. Len(csr(i)) :
          \E q \in DOMAIN rs : rs[q].func = csr(i)[k].func
    <2> SUFFICES ASSUME NEW i \in 1 .. Len(os), NEW k \in 1 .. Len(csr(i))
                 PROVE  \E q \in DOMAIN rs : rs[q].func = csr(i)[k].func
      OBVIOUS
    <2>1. PICK l \in DOMAIN os[i].recs : os[i].recs[l].func = csr(i)[k].func
      BY <1>7 DEF hasStackMap
    <2>2. l \in 1 .. Len(os[i].recs)
      BY <1>2
    <2> QED
      BY <1>5, <2>1, <2>2
  <1>9. \A m \in DOMAIN raw : \E q \in DOMAIN rs : raw[m].addr = t[rs[q].func]
    <2> SUFFICES ASSUME NEW m \in DOMAIN raw
                 PROVE  \E q \in DOMAIN rs : raw[m].addr = t[rs[q].func]
      OBVIOUS
    <2>1. PICK i \in 1 .. Len(os) : \E k \in 1 .. Len(csr(i)) : raw[m].addr = t[csr(i)[k].func]
      BY <1>6
    <2>2. PICK k \in 1 .. Len(csr(i)) : raw[m].addr = t[csr(i)[k].func]
      BY <2>1
    <2> QED
      BY <1>8, <2>2
  <1>10. \A q \in DOMAIN rs : \E i \in 1 .. Len(os) : \E k \in 1 .. Len(csr(i)) :
           csr(i)[k].func = rs[q].func /\ csr(i)[k].num = rs[q].num_unwind
    <2> SUFFICES ASSUME NEW q \in DOMAIN rs
                 PROVE  \E i \in 1 .. Len(os) : \E k \in 1 .. Len(csr(i)) :
                          csr(i)[k].func = rs[q].func /\ csr(i)[k].num = rs[q].num_unwind
      OBVIOUS
    <2>1. PICK i \in 1 .. Len(os) : \E k \in 1 .. Len(os[i].recs) : rs[q] = os[i].recs[k]
      BY <1>4
    <2>2. PICK k \in 1 .. Len(os[i].recs) : rs[q] = os[i].recs[k]
      BY <2>1
    <2>3. k \in DOMAIN os[i].recs /\ i \in DOMAIN os
      BY <1>2
    <2>4. PICK l \in DOMAIN os[i].saved : /\ os[i].saved[l].func = os[i].recs[k].func
                                          /\ os[i].saved[l].num = os[i].recs[k].num_unwind
      BY <1>1, <2>3 DEF SavedOnce
    <2>5. hasStackMap(os[i], os[i].saved[l].func)
      BY <2>3, <2>4 DEF hasStackMap
    <2>6. PICK c \in 1 .. Len(csr(i)) : csr(i)[c] = os[i].saved[l]
      BY <1>7, <2>5
    <2> QED
      BY <2>2, <2>4, <2>6
  <1>11. ASSUME NEW m \in DOMAIN raw, NEW n \in DOMAIN raw, raw[m].addr = raw[n].addr
         PROVE  m = n
    <2>1. PICK i \in 1 .. Len(os) : \E k \in 1 .. Len(csr(i)) :
                m = Begin(RangesOf(os, t), i) + k /\ raw[m].addr = t[csr(i)[k].func]
      BY <1>6
    <2>2. PICK k \in 1 .. Len(csr(i)) :
                m = Begin(RangesOf(os, t), i) + k /\ raw[m].addr = t[csr(i)[k].func]
      BY <2>1
    <2>3. PICK j \in 1 .. Len(os) : \E l \in 1 .. Len(csr(j)) :
                n = Begin(RangesOf(os, t), j) + l /\ raw[n].addr = t[csr(j)[l].func]
      BY <1>6
    <2>4. PICK l \in 1 .. Len(csr(j)) :
                n = Begin(RangesOf(os, t), j) + l /\ raw[n].addr = t[csr(j)[l].func]
      BY <2>3
    <2>5. PICK p \in DOMAIN rs : rs[p].func = csr(i)[k].func
      BY <1>8
    <2>6. PICK q \in DOMAIN rs : rs[q].func = csr(j)[l].func
      BY <1>8
    <2>7. rs[p].func = rs[q].func
      <3>1. rs[p] \in CallRecords /\ rs[q] \in CallRecords
        BY <1>3
      <3>2. rs[p].offset \in Nat /\ rs[q].offset \in Nat
            /\ rs[p].func \in Symbols /\ rs[q].func \in Symbols
        BY <3>1 DEF CallRecords
      <3>3. t[rs[p].func] \in Int /\ t[rs[q].func] = t[rs[p].func]
        BY <1>1, <1>11, <2>2, <2>4, <2>5, <2>6, <3>2
      <3>4. rs[p].func # rs[q].func =>
              \/ t[rs[p].func] + rs[p].offset < t[rs[q].func]
              \/ t[rs[q].func] + rs[q].offset < t[rs[p].func]
        BY <1>1 DEF CodeApart
      <3> QED
        BY <3>2, <3>3, <3>4
    <2>8. PICK x \in DOMAIN os[i].saved : csr(i)[k] = os[i].saved[x]
      BY <1>7
    <2>9. PICK y \in DOMAIN os[j].saved : csr(j)[l] = os[j].saved[y]
      BY <1>7
    <2>10. i = j
      <3>1. i \in DOMAIN os /\ j \in DOMAIN os
        BY <1>2
      <3>2. os[i].saved[x].func = os[j].saved[y].func
        BY <2>5, <2>6, <2>7, <2>8, <2>9
      <3> QED
        BY <1>1, <3>1, <3>2, Zenon DEF SavedOnce
    <2>11. k = l
      BY <1>7, <2>5, <2>6, <2>7, <2>10
    <2> QED
      BY <2>2, <2>4, <2>10, <2>11
  <1> QED
    BY <1>9, <1>10, <1>11 DEF raw, rs, csr

(* Sorted by different keys, the elements are the same and the keys        *)
(* increase.                                                               *)
LEMMA SortedFacts ==
  ASSUME NEW V, NEW s \in Seq(V), NEW keys \in [1 .. Len(s) -> Int],
         \A i, j \in 1 .. Len(s) : keys[i] = keys[j] => i = j
  PROVE  /\ Sorted(s, keys) \in Seq(V) /\ Len(Sorted(s, keys)) = Len(s)
         /\ \A k \in 1 .. Len(s) : /\ Nth(keys, k) \in 1 .. Len(s)
                                   /\ Sorted(s, keys)[k] = s[Nth(keys, k)]
         /\ \A i \in 1 .. Len(s) : \E k \in 1 .. Len(s) : Nth(keys, k) = i
         /\ \A k, l \in 1 .. Len(s) : k < l => keys[Nth(keys, k)] < keys[Nth(keys, l)]
  <1> DEFINE n == Len(s)
  <1>1. n \in Nat /\ DOMAIN s = 1 .. n /\ \A i \in 1 .. n : s[i] \in V
    OBVIOUS
  <1>2. Sorted(s, keys) = [k \in 1 .. n |-> s[Nth(keys, k)]]
    BY <1>1 DEF Sorted
  <1> HIDE DEF n
  <1>3. keys \in [1 .. n -> Int] /\ \A i, j \in 1 .. n : keys[i] = keys[j] => i = j
    BY DEF n
  <1>4. /\ \A k \in 1 .. n : Nth(keys, k) \in 1 .. n
        /\ \A i \in 1 .. n : \E k \in 1 .. n : Nth(keys, k) = i
        /\ \A k, l \in 1 .. n : Nth(keys, k) = Nth(keys, l) => k = l
        /\ \A k, l \in 1 .. n : k <= l => keys[Nth(keys, k)] <= keys[Nth(keys, l)]
    BY <1>1, <1>3, SortFacts
  <1>5. Sorted(s, keys) \in Seq(V) /\ Len(Sorted(s, keys)) = n
        /\ \A k \in 1 .. n : Sorted(s, keys)[k] = s[Nth(keys, k)]
    <2>1. \A k \in 1 .. n : s[Nth(keys, k)] \in V
      BY <1>1, <1>4
    <2> QED
      BY <1>1, <1>2, <2>1
  <1>6. ASSUME NEW k \in 1 .. n, NEW l \in 1 .. n, k < l
        PROVE  keys[Nth(keys, k)] < keys[Nth(keys, l)]
    <2>1. Nth(keys, k) \in 1 .. n /\ Nth(keys, l) \in 1 .. n
      BY <1>4
    <2>2. keys[Nth(keys, k)] \in Int /\ keys[Nth(keys, l)] \in Int
      BY <1>3, <2>1
    <2>3. k <= l /\ k # l
      BY <1>1, <1>6
    <2>4. keys[Nth(keys, k)] <= keys[Nth(keys, l)] /\ Nth(keys, k) # Nth(keys, l)
      BY <1>4, <2>3
    <2>5. keys[Nth(keys, k)] # keys[Nth(keys, l)]
      BY <1>3, <2>1, <2>4
    <2> QED
      BY <2>2, <2>4, <2>5
  <1> QED
    BY <1>4, <1>5, <1>6 DEF n

(* The tables of gen-stackinfo, sorted by address or by ID.                *)
LEMMA ByAddr ==
  ASSUME NEW V, NEW s \in Seq(V), \A i \in 1 .. Len(s) : s[i].addr \in Int,
         \A i, j \in 1 .. Len(s) : s[i].addr = s[j].addr => i = j
  PROVE  /\ SortByAddr(s) \in Seq(V) /\ Len(SortByAddr(s)) = Len(s)
         /\ \A k \in 1 .. Len(s) : \E i \in 1 .. Len(s) : SortByAddr(s)[k] = s[i]
         /\ \A i \in 1 .. Len(s) : \E k \in 1 .. Len(s) : SortByAddr(s)[k] = s[i]
         /\ \A k, l \in 1 .. Len(s) : k < l => SortByAddr(s)[k].addr < SortByAddr(s)[l].addr
  <1> DEFINE keys == [i \in DOMAIN s |-> s[i].addr]
             u == SortByAddr(s)
  <1>1. DOMAIN s = 1 .. Len(s)
    OBVIOUS
  <1>2. keys \in [1 .. Len(s) -> Int] /\ \A i \in 1 .. Len(s) : keys[i] = s[i].addr
    BY <1>1
  <1>3. u = Sorted(s, keys)
    BY DEF SortByAddr
  <1> HIDE DEF keys, u
  <1>4. /\ u \in Seq(V) /\ Len(u) = Len(s)
        /\ \A k \in 1 .. Len(s) : Nth(keys, k) \in 1 .. Len(s) /\ u[k] = s[Nth(keys, k)]
        /\ \A i \in 1 .. Len(s) : \E k \in 1 .. Len(s) : Nth(keys, k) = i
        /\ \A k, l \in 1 .. Len(s) : k < l => keys[Nth(keys, k)] < keys[Nth(keys, l)]
    <2>1. \A i, j \in 1 .. Len(s) : keys[i] = keys[j] => i = j
      BY <1>2
    <2>2. keys \in [1 .. Len(s) -> Int]
      BY <1>2
    <2>3. /\ Sorted(s, keys) \in Seq(V) /\ Len(Sorted(s, keys)) = Len(s)
          /\ \A k \in 1 .. Len(s) : /\ Nth(keys, k) \in 1 .. Len(s)
                                    /\ Sorted(s, keys)[k] = s[Nth(keys, k)]
          /\ \A i \in 1 .. Len(s) : \E k \in 1 .. Len(s) : Nth(keys, k) = i
          /\ \A k, l \in 1 .. Len(s) : k < l => keys[Nth(keys, k)] < keys[Nth(keys, l)]
      BY <2>1, <2>2, SortedFacts, Zenon
    <2> QED
      BY <1>3, <2>3, Zenon
  <1>5. ASSUME NEW k \in 1 .. Len(s), NEW l \in 1 .. Len(s), k < l
        PROVE  u[k].addr < u[l].addr
    <2>1. keys[Nth(keys, k)] < keys[Nth(keys, l)]
      BY <1>4, <1>5
    <2>2. Nth(keys, k) \in 1 .. Len(s) /\ Nth(keys, l) \in 1 .. Len(s)
          /\ u[k] = s[Nth(keys, k)] /\ u[l] = s[Nth(keys, l)]
      BY <1>4
    <2>3. keys[Nth(keys, k)] = u[k].addr /\ keys[Nth(keys, l)] = u[l].addr
      BY <1>2, <2>2
    <2> QED
      BY <2>1, <2>3
  <1> QED
    BY <1>4, <1>5 DEF u

(* The same for the IDs (write.c:313-321).                                 *)
LEMMA ById ==
  ASSUME NEW V, NEW s \in Seq(V), \A i \in 1 .. Len(s) : s[i].id \in Int,
         \A i, j \in 1 .. Len(s) : s[i].id = s[j].id => i = j
  PROVE  /\ SortById(s) \in Seq(V) /\ Len(SortById(s)) = Len(s)
         /\ \A k \in 1 .. Len(s) : \E i \in 1 .. Len(s) : SortById(s)[k] = s[i]
         /\ \A i \in 1 .. Len(s) : \E k \in 1 .. Len(s) : SortById(s)[k] = s[i]
         /\ \A k, l \in 1 .. Len(s) : k < l => SortById(s)[k].id < SortById(s)[l].id
  <1> DEFINE keys == [i \in DOMAIN s |-> s[i].id]
             u == SortById(s)
  <1>1. DOMAIN s = 1 .. Len(s)
    OBVIOUS
  <1>2. keys \in [1 .. Len(s) -> Int] /\ \A i \in 1 .. Len(s) : keys[i] = s[i].id
    BY <1>1
  <1>3. u = Sorted(s, keys)
    BY DEF SortById
  <1> HIDE DEF keys, u
  <1>4. /\ u \in Seq(V) /\ Len(u) = Len(s)
        /\ \A k \in 1 .. Len(s) : Nth(keys, k) \in 1 .. Len(s) /\ u[k] = s[Nth(keys, k)]
        /\ \A i \in 1 .. Len(s) : \E k \in 1 .. Len(s) : Nth(keys, k) = i
        /\ \A k, l \in 1 .. Len(s) : k < l => keys[Nth(keys, k)] < keys[Nth(keys, l)]
    <2>1. \A i, j \in 1 .. Len(s) : keys[i] = keys[j] => i = j
      BY <1>2
    <2>2. keys \in [1 .. Len(s) -> Int]
      BY <1>2
    <2>3. /\ Sorted(s, keys) \in Seq(V) /\ Len(Sorted(s, keys)) = Len(s)
          /\ \A k \in 1 .. Len(s) : /\ Nth(keys, k) \in 1 .. Len(s)
                                    /\ Sorted(s, keys)[k] = s[Nth(keys, k)]
          /\ \A i \in 1 .. Len(s) : \E k \in 1 .. Len(s) : Nth(keys, k) = i
          /\ \A k, l \in 1 .. Len(s) : k < l => keys[Nth(keys, k)] < keys[Nth(keys, l)]
      BY <2>1, <2>2, SortedFacts, Zenon
    <2> QED
      BY <1>3, <2>3, Zenon
  <1>5. ASSUME NEW k \in 1 .. Len(s), NEW l \in 1 .. Len(s), k < l
        PROVE  u[k].id < u[l].id
    <2>1. keys[Nth(keys, k)] < keys[Nth(keys, l)]
      BY <1>4, <1>5
    <2>2. Nth(keys, k) \in 1 .. Len(s) /\ Nth(keys, l) \in 1 .. Len(s)
          /\ u[k] = s[Nth(keys, k)] /\ u[l] = s[Nth(keys, l)]
      BY <1>4
    <2>3. keys[Nth(keys, k)] = u[k].id /\ keys[Nth(keys, l)] = u[l].id
      BY <1>2, <2>2
    <2> QED
      BY <2>1, <2>3
  <1> QED
    BY <1>4, <1>5 DEF u

(* The numbers of registers of the records ua, and the table made of them. *)
NumsOf(ua) == [j \in DOMAIN ua |-> ua[j].num_unwind]
Table(os, t) == update_function_addr(AddrRanges(os, t))

(* gen-stackinfo gives every function the sum of the numbers before it in  *)
(* the order of the linker (write.c:87-95).                                *)
LEMMA RecomputeFacts ==
  ASSUME NEW ua \in Seq(UnwindAddr)
  PROVE  /\ Recompute(ua) \in Seq(UnwindAddr) /\ Len(Recompute(ua)) = Len(ua)
         /\ \A i \in 1 .. Len(ua) :
              /\ Recompute(ua)[i].addr = ua[i].addr
              /\ Recompute(ua)[i].num_unwind = ua[i].num_unwind
              /\ Recompute(ua)[i].unwind_offset = SumOf(NumsOf(ua), i - 1)
  <1> DEFINE n == Len(ua)
             v(i) == SumOf(NumsOf(ua), i - 1)
             e(i) == [ua[i] EXCEPT !.unwind_offset = v(i)]
  <1>1. n \in Nat /\ DOMAIN ua = 1 .. n /\ \A i \in 1 .. n : ua[i] \in UnwindAddr
    OBVIOUS
  <1>2. Recompute(ua) = [i \in 1 .. n |-> e(i)]
    BY <1>1 DEF Recompute, NumsOf
  <1>3. NumsOf(ua) \in Seq(Nat) /\ Len(NumsOf(ua)) = n
    <2>1. \A i \in 1 .. n : ua[i].num_unwind \in Nat
      BY <1>1 DEF UnwindAddr
    <2> QED
      BY <1>1, <2>1 DEF NumsOf
  <1>4. \A i \in 1 .. n : v(i) \in Int
    <2> SUFFICES ASSUME NEW i \in 1 .. n PROVE v(i) \in Int
      OBVIOUS
    <2>1. i - 1 \in 0 .. Len(NumsOf(ua))
      BY <1>1, <1>3
    <2>2. v(i) \in Nat
      BY <1>3, <2>1, SumsGrow
    <2> QED
      BY <2>2
  <1> HIDE DEF n, v
  <1>5. \A i \in 1 .. n : /\ e(i) \in UnwindAddr
                          /\ e(i).addr = ua[i].addr /\ e(i).num_unwind = ua[i].num_unwind
                          /\ e(i).unwind_offset = v(i)
    BY <1>1, <1>4 DEF UnwindAddr
  <1> HIDE DEF e
  <1>6. Recompute(ua) \in Seq(UnwindAddr) /\ Len(Recompute(ua)) = n
        /\ \A i \in 1 .. n : Recompute(ua)[i] = e(i)
    BY <1>1, <1>2, <1>5
  <1> QED
    BY <1>5, <1>6 DEF n, v

(* Every record of the table is one of the linked sections with its sum,   *)
(* ...                                                                     *)
FromRanges(os, t) ==
  \A k \in 1 .. Len(Table(os, t)) : \E m \in DOMAIN AddrRanges(os, t) :
    /\ Table(os, t)[k].addr = AddrRanges(os, t)[m].addr
    /\ Table(os, t)[k].unwind_offset = SumOf(NumsOf(AddrRanges(os, t)), m - 1)

(* ... and each of those is in the table.                                  *)
IntoTable(os, t) ==
  \A m \in DOMAIN AddrRanges(os, t) : \E k \in 1 .. Len(Table(os, t)) :
    /\ Table(os, t)[k].addr = AddrRanges(os, t)[m].addr
    /\ Table(os, t)[k].unwind_offset = SumOf(NumsOf(AddrRanges(os, t)), m - 1)

(* The table of unwinding records has those of the linked sections, by     *)
(* increasing addresses.                                                   *)
LEMMA TableFacts ==
  ASSUME NEW os, NEW t, Binary(os, t)
  PROVE  /\ Table(os, t) \in Seq(UnwindAddr) /\ Len(Table(os, t)) = Len(AddrRanges(os, t))
         /\ FromRanges(os, t) /\ IntoTable(os, t)
         /\ \A k, l \in 1 .. Len(Table(os, t)) :
              k < l => Table(os, t)[k].addr < Table(os, t)[l].addr
  <1> DEFINE raw == AddrRanges(os, t)
             s == Recompute(raw)
             u == Table(os, t)
             v(m) == SumOf(NumsOf(raw), m - 1)
  <1>1. raw \in Seq(UnwindAddr)
    BY AddrRangesFacts
  <1>2. \A m, n \in DOMAIN raw : raw[m].addr = raw[n].addr => m = n
    BY RawFacts
  <1>3. u = SortByAddr(s)
    BY DEF Table, update_function_addr
  <1> HIDE DEF raw, u
  <1>4. DOMAIN raw = 1 .. Len(raw)
    BY <1>1
  <1>5. /\ s \in Seq(UnwindAddr) /\ Len(s) = Len(raw)
        /\ \A i \in 1 .. Len(raw) : s[i].addr = raw[i].addr /\ s[i].unwind_offset = v(i)
    BY <1>1, RecomputeFacts
  <1> HIDE DEF s, v
  <1>6. \A i \in 1 .. Len(s) : s[i].addr \in Int
    <2>1. \A i \in 1 .. Len(s) : s[i] \in UnwindAddr
      BY <1>5
    <2> QED
      BY <2>1 DEF UnwindAddr
  <1>7. \A i, j \in 1 .. Len(s) : s[i].addr = s[j].addr => i = j
    BY <1>2, <1>4, <1>5
  <1>8. /\ u \in Seq(UnwindAddr) /\ Len(u) = Len(s)
        /\ \A k \in 1 .. Len(s) : \E i \in 1 .. Len(s) : u[k] = s[i]
        /\ \A i \in 1 .. Len(s) : \E k \in 1 .. Len(s) : u[k] = s[i]
        /\ \A k, l \in 1 .. Len(s) : k < l => u[k].addr < u[l].addr
    <2>1. /\ SortByAddr(s) \in Seq(UnwindAddr) /\ Len(SortByAddr(s)) = Len(s)
          /\ \A k \in 1 .. Len(s) : \E i \in 1 .. Len(s) : SortByAddr(s)[k] = s[i]
          /\ \A i \in 1 .. Len(s) : \E k \in 1 .. Len(s) : SortByAddr(s)[k] = s[i]
          /\ \A k, l \in 1 .. Len(s) : k < l => SortByAddr(s)[k].addr < SortByAddr(s)[l].addr
      <3>1. s \in Seq(UnwindAddr)
        BY <1>5
      <3> QED
        BY ONLY <3>1, <1>6, <1>7, ByAddr
    <2> QED
      BY ONLY <1>3, <2>1
  <1>9. \A k \in 1 .. Len(u) : \E m \in DOMAIN raw :
          u[k].addr = raw[m].addr /\ u[k].unwind_offset = v(m)
    <2> SUFFICES ASSUME NEW k \in 1 .. Len(u)
                 PROVE  \E m \in DOMAIN raw : u[k].addr = raw[m].addr /\ u[k].unwind_offset = v(m)
      OBVIOUS
    <2>1. PICK m \in 1 .. Len(s) : u[k] = s[m]
      BY <1>8
    <2>2. m \in 1 .. Len(raw) /\ m \in DOMAIN raw
      BY <1>4, <1>5
    <2> QED
      BY <1>5, <2>1, <2>2
  <1>10. \A m \in DOMAIN raw : \E k \in 1 .. Len(u) :
           u[k].addr = raw[m].addr /\ u[k].unwind_offset = v(m)
    <2> SUFFICES ASSUME NEW m \in DOMAIN raw
                 PROVE  \E k \in 1 .. Len(u) : u[k].addr = raw[m].addr /\ u[k].unwind_offset = v(m)
      OBVIOUS
    <2>1. m \in 1 .. Len(raw) /\ m \in 1 .. Len(s)
      BY <1>4, <1>5
    <2>2. PICK k \in 1 .. Len(s) : u[k] = s[m]
      BY <1>8, <2>1
    <2>3. k \in 1 .. Len(u)
      BY <1>8
    <2> QED
      BY <1>5, <2>1, <2>2, <2>3
  <1>11. FromRanges(os, t)
    BY <1>9, Zenon DEF FromRanges, u, raw, v
  <1>12. IntoTable(os, t)
    BY <1>10, Zenon DEF IntoTable, u, raw, v
  <1> QED
    BY <1>5, <1>8, <1>11, <1>12 DEF u, raw

(* The search finds the record of the function that a call is in.          *)
LEMMA FunctionFound ==
  ASSUME NEW os, NEW t, Binary(os, t), NEW q \in DOMAIN Recs(os)
  PROVE  \E k \in 1 .. Len(Table(os, t)) :
           /\ Table(os, t)[k].addr = t[Recs(os)[q].func]
           /\ SearchRange(Table(os, t), t[Recs(os)[q].func] + Recs(os)[q].offset) = k - 1
  <1> DEFINE raw == AddrRanges(os, t)
             u == Table(os, t)
             rs == Recs(os)
             n == Len(u)
             f == rs[q].func
             addr == t[f] + rs[q].offset
  <1>1. t \in [Symbols -> Int] /\ CodeApart(rs, t) /\ rs \in Seq(CallRecords)
    BY RecsFacts DEF Binary
  <1>2. \A p \in DOMAIN rs : rs[p].func \in Symbols /\ rs[p].offset \in Nat
    <2>1. \A p \in DOMAIN rs : rs[p] \in CallRecords
      BY <1>1
    <2> QED
      BY <2>1 DEF CallRecords
  <1>3. /\ u \in Seq(UnwindAddr)
        /\ \A k \in 1 .. n : \E m \in DOMAIN raw : u[k].addr = raw[m].addr
        /\ \A m \in DOMAIN raw : \E k \in 1 .. n : u[k].addr = raw[m].addr
        /\ \A k, l \in 1 .. n : k < l => u[k].addr < u[l].addr
    <2>1. /\ u \in Seq(UnwindAddr) /\ FromRanges(os, t) /\ IntoTable(os, t)
          /\ \A k, l \in 1 .. n : k < l => u[k].addr < u[l].addr
      BY TableFacts
    <2>2. \A k \in 1 .. n : \E m \in DOMAIN raw : u[k].addr = raw[m].addr
      BY <2>1, Zenon DEF FromRanges
    <2>3. \A m \in DOMAIN raw : \E k \in 1 .. n : u[k].addr = raw[m].addr
      BY <2>1, Zenon DEF IntoTable
    <2> QED
      BY <2>1, <2>2, <2>3, Zenon
  <1>4. n \in Nat /\ \A k \in 1 .. n : u[k].addr \in Int
    <2>1. n \in Nat /\ \A k \in 1 .. n : u[k] \in UnwindAddr
      BY <1>3
    <2> QED
      BY <2>1 DEF UnwindAddr
  <1>5. \E m \in DOMAIN raw : raw[m].addr = t[f]
    <2>1. PICK i \in 1 .. Len(os) : \E k \in 1 .. Len(FuncCalleeSaved(os[i])) :
                FuncCalleeSaved(os[i])[k].func = f
      BY RawFacts
    <2>2. PICK k \in 1 .. Len(FuncCalleeSaved(os[i])) : FuncCalleeSaved(os[i])[k].func = f
      BY <2>1
    <2>3. /\ Begin(RangesOf(os, t), i) + k \in DOMAIN raw
          /\ raw[Begin(RangesOf(os, t), i) + k].addr = t[FuncCalleeSaved(os[i])[k].func]
      <3>1. EveryFunction(os, t)
        BY AddrRangesFacts
      <3> QED
        BY <3>1, Zenon DEF EveryFunction
    <2> QED
      BY <2>2, <2>3
  <1>6. \A m \in DOMAIN raw : \E p \in DOMAIN rs : raw[m].addr = t[rs[p].func]
    BY RawFacts
  <1> HIDE DEF raw, u, rs, n
  <1>7. PICK k \in 1 .. n : u[k].addr = t[f]
    BY <1>3, <1>5
  <1>8. q \in DOMAIN rs /\ f \in Symbols /\ t[f] \in Int /\ rs[q].offset \in Nat
    <2>1. q \in DOMAIN rs
      BY DEF rs
    <2> QED
      BY <1>1, <1>2, <2>1
  <1>9. ASSUME k < n PROVE addr < u[k + 1].addr
    <2>1. k + 1 \in 1 .. n /\ k < k + 1
      BY <1>4, <1>9
    <2>2. t[f] < u[k + 1].addr
      BY <1>3, <1>7, <2>1
    <2>3. PICK m \in DOMAIN raw : u[k + 1].addr = raw[m].addr
      BY <1>3, <2>1
    <2>4. PICK p \in DOMAIN rs : raw[m].addr = t[rs[p].func]
      BY <1>6
    <2>5. t[rs[p].func] \in Int /\ rs[p].offset \in Nat
      BY <1>1, <1>2
    <2>6. rs[p].func # f
      BY <1>8, <2>2, <2>3, <2>4
    <2>7. \/ t[f] + rs[q].offset < t[rs[p].func]
          \/ t[rs[p].func] + rs[p].offset < t[f]
      BY <1>1, <1>8, <2>6 DEF CodeApart
    <2> QED
      BY <1>8, <2>2, <2>3, <2>4, <2>5, <2>7
  <1>10. addr \in Int /\ u[k].addr <= addr
    BY <1>7, <1>8
  <1> HIDE DEF f, addr
  <1>11. \A i, j \in 1 .. n : i < j => u[i].addr < u[j].addr
    BY <1>3
  <1>12. SearchRange(u, addr) = k - 1
    <2>1. Len(u) = n
      BY DEF n
    <2> QED
      BY <1>4, <1>9, <1>10, <1>11, <2>1, SearchRangeFacts
  <1> QED
    BY <1>7, <1>12 DEF n, u, addr, f, rs

(* The call sites of a binary, and its sections of values.                 *)
Sites(arch, os, t) == create_call_site_metadata(arch, Recs(os), t, Table(os, t))
UnwindOf(os) == [i \in DOMAIN os |-> emitUnwindInfo(os[i])]
LocsOf(rs) == [i \in DOMAIN rs |-> rs[i].locs]
ArchLocsOf(rs) == [i \in DOMAIN rs |-> [k \in 1 .. rs[i].arch_live |-> rs[i].call]]

(* What gen-stackinfo writes, if it does.                                  *)
LEMMA SectionsWritten ==
  ASSUME NEW arch, NEW os, NEW t, add_sections(arch, os, t).written
  PROVE  /\ add_sections(arch, os, t).unwind_addrs = Table(os, t)
         /\ add_sections(arch, os, t).unwind_locs = Linked(UnwindOf(os))
         /\ add_sections(arch, os, t).sites_id = SortById(Sites(arch, os, t))
         /\ add_sections(arch, os, t).sites_addr = SortByAddr(Sites(arch, os, t))
         /\ add_sections(arch, os, t).live_vals = FlattenSeq(LocsOf(Recs(os)))
         /\ add_sections(arch, os, t).arch_live_vals = FlattenSeq(ArchLocsOf(Recs(os)))
  <1> DEFINE sites == Sites(arch, os, t)
             rs == Recs(os)
             none == Table(os, t) = << >> \/ \E i \in DOMAIN sites : sites[i].unwind_offset = NULL
             full == [written |-> TRUE,
                      unwind_addrs |-> Table(os, t),
                      unwind_locs |-> Linked(UnwindOf(os)),
                      sites_id |-> SortById(sites),
                      sites_addr |-> SortByAddr(sites),
                      live_vals |-> FlattenSeq(LocsOf(rs)),
                      arch_live_vals |-> FlattenSeq(ArchLocsOf(rs))]
  <1>1. add_sections(arch, os, t) = IF none THEN [written |-> FALSE] ELSE full
    BY DEF add_sections, Table, AddrRanges, RangesOf, Recs, RecsOf, Sites, UnwindOf, LocsOf,
           ArchLocsOf
  <1> HIDE DEF none
  <1>2. CASE none
    BY <1>1, <1>2
  <1>3. CASE ~none
    <2> HIDE DEF sites, rs
    <2>1. add_sections(arch, os, t) = full
      BY <1>1, <1>3
    <2> QED
      BY <2>1 DEF sites, rs
  <1> QED
    BY <1>2, <1>3

(* The runtime finds the address of the function that a call is in.        *)
LEMMA FunctionAddress ==
  ASSUME NEW arch, NEW os, NEW t, Binary(os, t), add_sections(arch, os, t).written,
         NEW q \in DOMAIN Recs(os)
  PROVE  get_function_address(add_sections(arch, os, t), t[Recs(os)[q].func] + Recs(os)[q].offset)
           = {t[Recs(os)[q].func]}
  <1> DEFINE b == add_sections(arch, os, t)
             u == Table(os, t)
             addr == t[Recs(os)[q].func] + Recs(os)[q].offset
  <1>1. b.unwind_addrs = u
    BY SectionsWritten
  <1>2. PICK k \in 1 .. Len(u) : u[k].addr = t[Recs(os)[q].func] /\ SearchRange(u, addr) = k - 1
    BY FunctionFound
  <1>3. u \in Seq(UnwindAddr)
    BY TableFacts
  <1> HIDE DEF b, u, addr
  <1>4. k - 1 # NULL /\ k - 1 + 1 = k
    BY <1>3 DEF NULL
  <1>5. get_unwind_offset_by_addr(b, addr) = {u[k]}
    BY <1>1, <1>2, <1>4 DEF get_unwind_offset_by_addr, Found
  <1>6. get_function_address(b, addr) = {u[k].addr}
    BY <1>5 DEF get_function_address
  <1> QED
    BY <1>2, <1>6 DEF b, addr

-----------------------------------------------------------------------------
(* The call sites of one binary                                            *)

(* The sorted tables are searched for one of their addresses or IDs.       *)
LEMMA FindByAddr ==
  ASSUME NEW V, NEW s \in Seq(V), \A i \in 1 .. Len(s) : s[i].addr \in Int,
         \A i, j \in 1 .. Len(s) : s[i].addr = s[j].addr => i = j,
         NEW h, h.sites_addr = SortByAddr(s)
  PROVE  /\ \A i \in 1 .. Len(s) : get_site_by_addr(h, s[i].addr) = {s[i]}
         /\ \A n \in Int : (\A i \in 1 .. Len(s) : s[i].addr # n) => get_site_by_addr(h, n) = {}
  <1> DEFINE T == h.sites_addr
             keys == [k \in DOMAIN T |-> T[k].addr]
  <1>1. /\ T \in Seq(V) /\ Len(T) = Len(s)
        /\ \A k \in 1 .. Len(s) : \E i \in 1 .. Len(s) : T[k] = s[i]
        /\ \A i \in 1 .. Len(s) : \E k \in 1 .. Len(s) : T[k] = s[i]
        /\ \A k, l \in 1 .. Len(s) : k < l => T[k].addr < T[l].addr
    BY ByAddr DEF T
  <1>2. DOMAIN T = 1 .. Len(s) /\ Len(s) \in Nat
    BY <1>1
  <1>3. \A k \in 1 .. Len(s) : T[k].addr \in Int
    BY <1>1
  <1>4. keys \in Seq(Int) /\ Len(keys) = Len(s) /\ \A k \in 1 .. Len(s) : keys[k] = T[k].addr
    BY <1>2, <1>3
  <1>5. Increasing(keys)
    <2> SUFFICES ASSUME NEW k \in 1 .. Len(keys), NEW l \in 1 .. Len(keys), k < l
                 PROVE  keys[k] < keys[l]
      BY DEF Increasing
    <2>1. k \in 1 .. Len(s) /\ l \in 1 .. Len(s)
      BY ONLY <1>4, k \in 1 .. Len(keys), l \in 1 .. Len(keys)
    <2>2. T[k].addr < T[l].addr
      BY ONLY <1>1, <2>1, k < l
    <2> QED
      BY ONLY <1>4, <2>1, <2>2
  <1>6. \A n : get_site_by_addr(h, n) = Found(T, Search(keys, n))
    BY DEF get_site_by_addr
  <1> HIDE DEF T, keys
  <1>7. ASSUME NEW i \in 1 .. Len(s) PROVE get_site_by_addr(h, s[i].addr) = {s[i]}
    <2>1. PICK k \in 1 .. Len(s) : T[k] = s[i]
      BY <1>1
    <2>2. PICK n \in Int : n = s[i].addr
      OBVIOUS
    <2>3. Search(keys, n) = k - 1
      <3>1. k \in 1 .. Len(keys) /\ keys[k] = n
        BY <1>4, <2>1, <2>2
      <3> QED
        BY <1>4, <1>5, <3>1, SearchFacts
    <2>4. k - 1 # NULL /\ k - 1 + 1 = k
      BY <1>2 DEF NULL
    <2> QED
      BY <1>6, <2>1, <2>2, <2>3, <2>4 DEF Found
  <1>8. ASSUME NEW n \in Int, \A i \in 1 .. Len(s) : s[i].addr # n
        PROVE  get_site_by_addr(h, n) = {}
    <2>1. \A k \in 1 .. Len(keys) : keys[k] # n
      <3> SUFFICES ASSUME NEW k \in 1 .. Len(keys) PROVE keys[k] # n
        OBVIOUS
      <3>1. k \in 1 .. Len(s) /\ keys[k] = T[k].addr
        BY ONLY <1>4, k \in 1 .. Len(keys)
      <3>2. PICK i \in 1 .. Len(s) : T[k] = s[i]
        BY <1>1, <3>1
      <3> QED
        BY ONLY <1>8, <3>1, <3>2
    <2>2. Search(keys, n) = NULL
      BY <1>4, <1>5, <2>1, SearchFacts
    <2> QED
      BY <1>6, <2>2 DEF Found
  <1> QED
    BY <1>7, <1>8

(* ... and by its ID (util.c:142-171).                                     *)
LEMMA FindById ==
  ASSUME NEW V, NEW s \in Seq(V), \A i \in 1 .. Len(s) : s[i].id \in Int,
         \A i, j \in 1 .. Len(s) : s[i].id = s[j].id => i = j,
         NEW h, h.sites_id = SortById(s)
  PROVE  \A i \in 1 .. Len(s) : get_site_by_id(h, s[i].id) = {s[i]}
  <1> DEFINE T == h.sites_id
             keys == [k \in DOMAIN T |-> T[k].id]
  <1>1. /\ T \in Seq(V) /\ Len(T) = Len(s)
        /\ \A k \in 1 .. Len(s) : \E i \in 1 .. Len(s) : T[k] = s[i]
        /\ \A i \in 1 .. Len(s) : \E k \in 1 .. Len(s) : T[k] = s[i]
        /\ \A k, l \in 1 .. Len(s) : k < l => T[k].id < T[l].id
    BY ById DEF T
  <1>2. DOMAIN T = 1 .. Len(s) /\ Len(s) \in Nat
    BY <1>1
  <1>3. \A k \in 1 .. Len(s) : T[k].id \in Int
    BY <1>1
  <1>4. keys \in Seq(Int) /\ Len(keys) = Len(s) /\ \A k \in 1 .. Len(s) : keys[k] = T[k].id
    BY <1>2, <1>3
  <1>5. Increasing(keys)
    <2> SUFFICES ASSUME NEW k \in 1 .. Len(keys), NEW l \in 1 .. Len(keys), k < l
                 PROVE  keys[k] < keys[l]
      BY DEF Increasing
    <2>1. k \in 1 .. Len(s) /\ l \in 1 .. Len(s)
      BY ONLY <1>4, k \in 1 .. Len(keys), l \in 1 .. Len(keys)
    <2>2. T[k].id < T[l].id
      BY ONLY <1>1, <2>1, k < l
    <2> QED
      BY ONLY <1>4, <2>1, <2>2
  <1>6. \A n : get_site_by_id(h, n) = Found(T, Search(keys, n))
    BY DEF get_site_by_id
  <1> HIDE DEF T, keys
  <1>7. ASSUME NEW i \in 1 .. Len(s) PROVE get_site_by_id(h, s[i].id) = {s[i]}
    <2>1. PICK k \in 1 .. Len(s) : T[k] = s[i]
      BY <1>1
    <2>2. PICK n \in Int : n = s[i].id
      OBVIOUS
    <2>3. Search(keys, n) = k - 1
      <3>1. k \in 1 .. Len(keys) /\ keys[k] = n
        BY <1>4, <2>1, <2>2
      <3> QED
        BY <1>4, <1>5, <3>1, SearchFacts
    <2>4. k - 1 # NULL /\ k - 1 + 1 = k
      BY <1>2 DEF NULL
    <2> QED
      BY <1>6, <2>1, <2>2, <2>3, <2>4 DEF Found
  <1> QED
    BY <1>7

(* The calls that do not keep their ID are counted.                        *)
Counted(rs) == [j \in DOMAIN rs |-> IF rs[j].id \in Special THEN 0 ELSE 1]
IdOf(rs, i) == IF rs[i].id \in Special THEN rs[i].id ELSE start_id + SumOf(Counted(rs), i - 1)

(* At most one ID per call is used.                                        *)
LEMMA CountFacts ==
  ASSUME NEW rs \in Seq(CallRecords)
  PROVE  /\ Counted(rs) \in Seq(Nat) /\ Len(Counted(rs)) = Len(rs)
         /\ \A i \in 1 .. Len(rs) : Counted(rs)[i] = IF rs[i].id \in Special THEN 0 ELSE 1
         /\ \A i \in 0 .. Len(rs) : SumOf(Counted(rs), i) \in 0 .. i
  <1> DEFINE ns == Counted(rs)
             n == Len(rs)
  <1>1. n \in Nat /\ DOMAIN rs = 1 .. n
    OBVIOUS
  <1>2. ns \in Seq(Nat) /\ Len(ns) = n
        /\ \A i \in 1 .. n : ns[i] = IF rs[i].id \in Special THEN 0 ELSE 1
    BY <1>1 DEF Counted
  <1> HIDE DEF ns
  <1>3. /\ SumOf(ns, 0) = 0
        /\ \A i \in 1 .. n : SumOf(ns, i) = SumOf(ns, i - 1) + ns[i]
        /\ \A i \in 0 .. n : SumOf(ns, i) \in Nat
    BY <1>2, SumsGrow
  <1> DEFINE S == {i \in 0 .. n : SumOf(ns, i) <= i}
  <1>4. 0 \in S
    BY <1>1, <1>3
  <1>5. ASSUME NEW i \in 1 .. n, i - 1 \in S PROVE i \in S
    <2>1. i - 1 \in 0 .. n /\ i \in 0 .. n /\ SumOf(ns, i - 1) \in Nat /\ SumOf(ns, i - 1) <= i - 1
      BY <1>1, <1>3, <1>5
    <2>2. ns[i] \in 0 .. 1
      BY <1>2
    <2>3. SumOf(ns, i) = SumOf(ns, i - 1) + ns[i]
      BY <1>3
    <2>4. SumOf(ns, i) <= i
      BY <2>1, <2>2, <2>3
    <2> QED
      BY <2>1, <2>4
  <1> HIDE DEF S, n
  <1>6. \A i \in 0 .. n : i \in S
    BY <1>1, <1>4, <1>5, UpToN
  <1>7. \A i \in 0 .. n : SumOf(ns, i) \in 0 .. i
    BY <1>1, <1>3, <1>6 DEF S
  <1> QED
    BY <1>2, <1>7 DEF ns, n

(* The calls of a binary are to different places, those that keep their ID *)
(* have different ones, and there are enough others.                       *)
CallsDiffer(rs) ==
  /\ \A i, j \in DOMAIN rs :
       \/ rs[i].func = rs[j].func /\ rs[i].offset = rs[j].offset
       \/ rs[i].id = rs[j].id /\ rs[i].id \in Special
       => i = j
  /\ start_id + Len(rs) <= UINT64_MAX - 2

(* So the IDs of the sites are different ones.                             *)
LEMMA IdsDiffer ==
  ASSUME NEW rs \in Seq(CallRecords), CallsDiffer(rs)
  PROVE  /\ \A i \in 1 .. Len(rs) : IdOf(rs, i) \in Int
         /\ \A i, j \in 1 .. Len(rs) : IdOf(rs, i) = IdOf(rs, j) => i = j
  <1> DEFINE ns == Counted(rs)
             n == Len(rs)
  <1>1. n \in Nat /\ DOMAIN rs = 1 .. n /\ \A i \in 1 .. n : rs[i].id \in Int
    <2>1. n \in Nat /\ DOMAIN rs = 1 .. n /\ \A i \in 1 .. n : rs[i] \in CallRecords
      OBVIOUS
    <2> QED
      BY <2>1 DEF CallRecords
  <1>2. /\ ns \in Seq(Nat) /\ Len(ns) = n
        /\ \A i \in 1 .. n : ns[i] = IF rs[i].id \in Special THEN 0 ELSE 1
        /\ \A i \in 0 .. n : SumOf(ns, i) \in 0 .. i
    BY CountFacts
  <1>3. /\ \A i \in 1 .. n : SumOf(ns, i) = SumOf(ns, i - 1) + ns[i]
        /\ \A i, j \in 0 .. n : i <= j => SumOf(ns, i) <= SumOf(ns, j)
    BY <1>2, SumsGrow
  <1>4. start_id \in Nat /\ UINT64_MAX \in Nat /\ start_id + n <= UINT64_MAX - 2
    BY IdAssumption DEF CallsDiffer
  <1> HIDE DEF ns, n
  <1>5. ASSUME NEW i \in 1 .. n
        PROVE  /\ SumOf(ns, i - 1) \in Nat /\ i - 1 \in 0 .. n /\ i \in 0 .. n
               /\ start_id + SumOf(ns, i - 1) < UINT64_MAX - 2
    <2>1. i - 1 \in 0 .. n /\ i \in 0 .. n
      BY <1>1
    <2>2. SumOf(ns, i - 1) \in 0 .. (i - 1)
      BY <1>2, <2>1
    <2> QED
      BY <1>1, <1>4, <2>1, <2>2
  <1>6. ASSUME NEW i \in 1 .. n PROVE IdOf(rs, i) \in Int
    BY <1>1, <1>4, <1>5 DEF IdOf, ns
  <1>7. ASSUME NEW i \in 1 .. n, NEW j \in 1 .. n, i < j, rs[i].id \notin Special
        PROVE  SumOf(ns, i - 1) < SumOf(ns, j - 1)
    <2>1. i \in 0 .. n /\ j - 1 \in 0 .. n /\ i <= j - 1
      BY <1>1, <1>7
    <2>2. SumOf(ns, i) <= SumOf(ns, j - 1) /\ SumOf(ns, i) = SumOf(ns, i - 1) + 1
      BY <1>2, <1>3, <1>7, <2>1
    <2> QED
      BY <1>5, <2>2
  <1>8. ASSUME NEW i \in 1 .. n, NEW j \in 1 .. n, rs[i].id \in Special, rs[j].id \notin Special
        PROVE  IdOf(rs, i) # IdOf(rs, j)
    <2>1. rs[i].id >= UINT64_MAX - 2
      BY <1>4, <1>8 DEF Special
    <2>2. IdOf(rs, i) = rs[i].id /\ IdOf(rs, j) = start_id + SumOf(ns, j - 1)
      BY <1>8 DEF IdOf, ns
    <2> QED
      BY <1>1, <1>4, <1>5, <2>1, <2>2
  <1>9. ASSUME NEW i \in 1 .. n, NEW j \in 1 .. n, IdOf(rs, i) = IdOf(rs, j) PROVE i = j
    <2>1. CASE rs[i].id \in Special /\ rs[j].id \in Special
      <3>1. rs[i].id = rs[j].id
        BY <1>9, <2>1 DEF IdOf
      <3> QED
        BY <1>1, <2>1, <3>1 DEF CallsDiffer
    <2>2. CASE rs[i].id \notin Special /\ rs[j].id \notin Special
      <3>1. start_id + SumOf(ns, i - 1) = start_id + SumOf(ns, j - 1)
        BY <1>9, <2>2 DEF IdOf, ns
      <3>2. SumOf(ns, i - 1) = SumOf(ns, j - 1)
        BY <1>4, <1>5, <3>1
      <3>3. ~(i < j) /\ ~(j < i)
        BY <1>5, <1>7, <2>2, <3>2
      <3> QED
        BY <1>1, <3>3
    <2>3. CASE rs[i].id \in Special /\ rs[j].id \notin Special
      BY <1>8, <1>9, <2>3
    <2>4. CASE rs[i].id \notin Special /\ rs[j].id \in Special
      BY <1>8, <1>9, <2>4
    <2> QED
      BY <2>1, <2>2, <2>3, <2>4
  <1> QED
    BY <1>6, <1>9 DEF n

(* What a call site holds.                                                 *)
LEMMA SiteFacts ==
  ASSUME NEW arch, NEW os \in Seq(ObjectRecords), NEW t
  PROVE  /\ \E V : Sites(arch, os, t) \in Seq(V)
         /\ Len(Sites(arch, os, t)) = Len(Recs(os))
         /\ \A i \in DOMAIN Recs(os) :
              /\ Sites(arch, os, t)[i] = CallSite(arch, Recs(os), i, t, Table(os, t))
              /\ Sites(arch, os, t)[i].id = IdOf(Recs(os), i)
              /\ Sites(arch, os, t)[i].addr = t[Recs(os)[i].func] + Recs(os)[i].offset
  <1> DEFINE rs == Recs(os)
             s == Sites(arch, os, t)
             e(i) == CallSite(arch, rs, i, t, Table(os, t))
             n == Len(rs)
             W == {e(i) : i \in 1 .. n}
  <1>1. rs \in Seq(CallRecords)
    BY RecsFacts
  <1>2. n \in Nat /\ DOMAIN rs = 1 .. n
    BY <1>1
  <1>3. s = [i \in 1 .. n |-> e(i)]
    BY <1>2 DEF Sites, create_call_site_metadata
  <1> HIDE DEF s, e, n
  <1>4. s \in Seq(W) /\ Len(s) = n /\ \A i \in 1 .. n : s[i] = e(i)
    BY <1>2, <1>3
  <1> HIDE DEF rs, W
  <1>5. \A i \in DOMAIN rs : e(i).id = IdOf(rs, i) /\ e(i).addr = t[rs[i].func] + rs[i].offset
    BY DEF e, CallSite, IdOf, Counted
  <1>6. \A i \in DOMAIN rs : s[i] = e(i)
    BY <1>2, <1>4
  <1>7. (\E V : s \in Seq(V)) /\ Len(s) = Len(rs)
    BY <1>4 DEF n
  <1>8. \A i \in DOMAIN rs : /\ s[i] = e(i) /\ s[i].id = IdOf(rs, i)
                             /\ s[i].addr = t[rs[i].func] + rs[i].offset
    BY <1>5, <1>6
  <1> QED
    BY <1>7, <1>8 DEF s, rs, e

(* The return addresses of a binary are different ones.                    *)
LEMMA AddrsDiffer ==
  ASSUME NEW os, NEW t, Binary(os, t), CallsDiffer(Recs(os)), NEW rs, rs = Recs(os)
  PROVE  /\ \A i \in DOMAIN rs : t[rs[i].func] + rs[i].offset \in Int
         /\ \A i, j \in DOMAIN rs :
              t[rs[i].func] + rs[i].offset = t[rs[j].func] + rs[j].offset => i = j
  <1>1. t \in [Symbols -> Int] /\ CodeApart(rs, t) /\ rs \in Seq(CallRecords) /\ CallsDiffer(rs)
    BY RecsFacts DEF Binary
  <1>2. \A i \in DOMAIN rs : rs[i].func \in Symbols /\ rs[i].offset \in Nat /\ t[rs[i].func] \in Int
    <2>1. \A i \in DOMAIN rs : rs[i] \in CallRecords
      BY <1>1
    <2> QED
      BY <1>1, <2>1 DEF CallRecords
  <1>3. ASSUME NEW i \in DOMAIN rs, NEW j \in DOMAIN rs,
               t[rs[i].func] + rs[i].offset = t[rs[j].func] + rs[j].offset
        PROVE  i = j
    <2>1. PICK x \in Int, m \in Nat : x = t[rs[i].func] /\ m = rs[i].offset
      BY <1>2
    <2>2. PICK y \in Int, n \in Nat : y = t[rs[j].func] /\ n = rs[j].offset
      BY <1>2
    <2>3. x + m = y + n
      BY <1>3, <2>1, <2>2
    <2>4. rs[i].func = rs[j].func
      <3>1. rs[i].func # rs[j].func => x + m < y \/ y + n < x
        BY <1>1, <2>1, <2>2 DEF CodeApart
      <3> QED
        BY <2>3, <3>1
    <2>5. m = n
      BY <2>1, <2>2, <2>3, <2>4
    <2> QED
      BY <1>1, <2>1, <2>2, <2>4, <2>5 DEF CallsDiffer
  <1> QED
    BY <1>2, <1>3

(* The runtime finds the site of a call by its address and by its ID, and  *)
(* no site by any other address.                                           *)
LEMMA SiteFound ==
  ASSUME NEW arch, NEW os, NEW t, Binary(os, t), CallsDiffer(Recs(os)),
         add_sections(arch, os, t).written
  PROVE  /\ \A i \in DOMAIN Recs(os) :
              /\ get_site_by_addr(add_sections(arch, os, t), t[Recs(os)[i].func] + Recs(os)[i].offset)
                   = {Sites(arch, os, t)[i]}
              /\ get_site_by_id(add_sections(arch, os, t), IdOf(Recs(os), i))
                   = {Sites(arch, os, t)[i]}
         /\ \A n \in Int : (\A i \in DOMAIN Recs(os) : t[Recs(os)[i].func] + Recs(os)[i].offset # n)
              => get_site_by_addr(add_sections(arch, os, t), n) = {}
  <1> DEFINE rs == Recs(os)
             s == Sites(arch, os, t)
             b == add_sections(arch, os, t)
             addr(i) == t[rs[i].func] + rs[i].offset
             id(i) == IdOf(rs, i)
  <1>1. os \in Seq(ObjectRecords)
    BY DEF Binary
  <1>2. rs \in Seq(CallRecords)
    BY <1>1, RecsFacts
  <1>3. Len(s) = Len(rs) /\ \A i \in DOMAIN rs : s[i].id = id(i) /\ s[i].addr = addr(i)
    <2>1. Len(s) = Len(rs)
      BY <1>1, SiteFacts
    <2>2. ASSUME NEW i \in DOMAIN rs PROVE s[i].id = id(i) /\ s[i].addr = addr(i)
      BY <1>1, SiteFacts
    <2> QED
      BY <2>1, <2>2
  <1>4. PICK V : s \in Seq(V)
    BY <1>1, SiteFacts
  <1>5. b.sites_addr = SortByAddr(s) /\ b.sites_id = SortById(s)
    BY SectionsWritten
  <1>6. DOMAIN rs = 1 .. Len(rs)
    BY <1>2
  <1>7. /\ \A i \in DOMAIN rs : addr(i) \in Int
        /\ \A i, j \in DOMAIN rs : addr(i) = addr(j) => i = j
    BY AddrsDiffer
  <1>8. /\ \A i \in 1 .. Len(rs) : id(i) \in Int
        /\ \A i, j \in 1 .. Len(rs) : id(i) = id(j) => i = j
    BY <1>2, IdsDiffer
  <1> HIDE DEF rs, s, b, addr, id
  <1>9. /\ \A i \in 1 .. Len(s) : s[i].addr \in Int
        /\ \A i, j \in 1 .. Len(s) : s[i].addr = s[j].addr => i = j
    BY <1>3, <1>6, <1>7
  <1>10. /\ \A i \in 1 .. Len(s) : s[i].id \in Int
         /\ \A i, j \in 1 .. Len(s) : s[i].id = s[j].id => i = j
    <2>1. \A i \in 1 .. Len(s) : i \in 1 .. Len(rs) /\ s[i].id = id(i)
      BY <1>3, <1>6
    <2> QED
      BY <1>8, <2>1
  <1>11. /\ \A i \in 1 .. Len(s) : get_site_by_addr(b, s[i].addr) = {s[i]}
         /\ \A n \in Int : (\A i \in 1 .. Len(s) : s[i].addr # n) => get_site_by_addr(b, n) = {}
    BY <1>4, <1>5, <1>9, FindByAddr
  <1>12. \A i \in 1 .. Len(s) : get_site_by_id(b, s[i].id) = {s[i]}
    BY <1>4, <1>5, <1>10, FindById
  <1>13. \A i \in DOMAIN rs : /\ get_site_by_addr(b, addr(i)) = {s[i]}
                              /\ get_site_by_id(b, id(i)) = {s[i]}
    BY <1>3, <1>6, <1>11, <1>12
  <1>14. ASSUME NEW n \in Int, \A i \in DOMAIN rs : addr(i) # n
         PROVE  get_site_by_addr(b, n) = {}
    <2>1. \A i \in 1 .. Len(s) : s[i].addr # n
      BY <1>3, <1>6, <1>14
    <2> QED
      BY <1>11, <2>1
  <1> QED
    BY <1>13, <1>14 DEF rs, s, b, addr, id

-----------------------------------------------------------------------------
(* What the offsets select                                                 *)

(* A slice is what is there.                                               *)
LEMMA SliceIs ==
  ASSUME NEW V, NEW s \in Seq(V), NEW w \in Seq(V), NEW offset \in Nat,
         offset + Len(w) <= Len(s), \A k \in 1 .. Len(w) : s[offset + k] = w[k]
  PROVE  Slice(s, offset, Len(w)) = w
  <1> DEFINE n == Len(w)
             v == SubSeq(s, offset + 1, offset + n)
  <1>1. n \in Nat /\ Len(s) \in Nat /\ DOMAIN s = 1 .. Len(s)
    OBVIOUS
  <1> HIDE DEF n
  <1>2. v = [k \in 1 .. ((offset + n) - (offset + 1) + 1) |-> s[k + (offset + 1) - 1]]
    BY <1>1, SMTT(30)
  <1>3. (offset + n) - (offset + 1) + 1 = n
    BY <1>1
  <1>4. \A k \in 1 .. n : k + (offset + 1) - 1 = offset + k
    BY <1>1
  <1>5. v = [k \in 1 .. n |-> s[offset + k]]
    BY <1>2, <1>3, <1>4
  <1>6. w = [k \in 1 .. n |-> w[k]]
    BY DEF n
  <1> QED
    BY <1>5, <1>6 DEF Slice, n

(* The i-th part of a flattened sequence is where the earlier ones end.    *)
LEMMA PartSlice ==
  ASSUME NEW V, NEW ss \in Seq(Seq(V)), NEW i \in 1 .. Len(ss)
  PROVE  Slice(FlattenSeq(ss), Begin(ss, i), Len(ss[i])) = ss[i]
  <1> DEFINE s == FlattenSeq(ss)
  <1>1. s \in Seq(V) /\ InParts(s, ss, Len(ss))
    BY FlattenFacts
  <1>2. /\ Len(ss) \in Nat
        /\ ss[i] \in Seq(V) /\ Len(ss[i]) \in Nat
        /\ Begin(ss, i + 1) = Begin(ss, i) + Len(ss[i])
        /\ \A j \in 1 .. (Len(ss) + 1) : Begin(ss, j) \in Nat
        /\ \A j, k \in 1 .. (Len(ss) + 1) : j <= k => Begin(ss, j) <= Begin(ss, k)
    BY BeginFacts
  <1> HIDE DEF s
  <1>3. Begin(ss, i) \in Nat /\ Begin(ss, i) + Len(ss[i]) <= Len(s)
    <2>1. i \in 1 .. (Len(ss) + 1) /\ i + 1 \in 1 .. (Len(ss) + 1)
          /\ Len(ss) + 1 \in 1 .. (Len(ss) + 1) /\ i + 1 <= Len(ss) + 1
      BY <1>2
    <2>2. Begin(ss, i + 1) <= Begin(ss, Len(ss) + 1)
      BY <1>2, <2>1
    <2>3. Len(s) = Begin(ss, Len(ss) + 1)
      BY <1>1 DEF InParts
    <2> QED
      BY <1>2, <2>1, <2>2, <2>3
  <1>4. \A k \in 1 .. Len(ss[i]) : s[Begin(ss, i) + k] = ss[i][k]
    BY <1>1 DEF InParts
  <1> QED
    BY <1>1, <1>2, <1>3, <1>4, SliceIs DEF s

(* The sums of a sequence in parts: of the earlier parts and within one.   *)
LEMMA SumInParts ==
  ASSUME NEW nn \in Seq(Seq(Nat)), NEW ns \in Seq(Nat), InParts(ns, nn, Len(nn)),
         NEW tot \in Seq(Nat), Len(tot) = Len(nn),
         \A i \in 1 .. Len(nn) : tot[i] = SumOf(nn[i], Len(nn[i]))
  PROVE  \A i \in 1 .. Len(nn) : \A k \in 0 .. Len(nn[i]) :
           SumOf(ns, Begin(nn, i) + k) = SumOf(tot, i - 1) + SumOf(nn[i], k)
  <1> DEFINE n == Len(nn)
  <1>1. /\ n \in Nat
        /\ \A i \in 1 .. n : nn[i] \in Seq(Nat) /\ Len(nn[i]) \in Nat
        /\ Begin(nn, 1) = 0
        /\ \A i \in 1 .. n : Begin(nn, i + 1) = Begin(nn, i) + Len(nn[i])
        /\ \A i \in 1 .. (n + 1) : Begin(nn, i) \in Nat
        /\ \A i, j \in 1 .. (n + 1) : i <= j => Begin(nn, i) <= Begin(nn, j)
    BY BeginFacts
  <1>2. /\ SumOf(ns, 0) = 0
        /\ \A i \in 1 .. Len(ns) : SumOf(ns, i) = SumOf(ns, i - 1) + ns[i]
        /\ \A i \in 0 .. Len(ns) : SumOf(ns, i) \in Nat
    BY SumsGrow
  <1>3. /\ SumOf(tot, 0) = 0
        /\ \A i \in 1 .. n : SumOf(tot, i) = SumOf(tot, i - 1) + tot[i]
        /\ \A i \in 0 .. n : SumOf(tot, i) \in Nat
    BY SumsGrow
  <1>4. /\ Len(ns) = Begin(nn, n + 1)
        /\ \A i \in 1 .. n : \A k \in 1 .. Len(nn[i]) :
             Begin(nn, i) + k \in 1 .. Len(ns) /\ ns[Begin(nn, i) + k] = nn[i][k]
    BY DEF InParts
  <1> HIDE DEF n
  <1>5. ASSUME NEW i \in 1 .. n, SumOf(ns, Begin(nn, i)) = SumOf(tot, i - 1)
        PROVE  \A k \in 0 .. Len(nn[i]) :
                 SumOf(ns, Begin(nn, i) + k) = SumOf(tot, i - 1) + SumOf(nn[i], k)
    <2> DEFINE w == nn[i]
               m == Len(nn[i])
               x == Begin(nn, i)
               y == SumOf(tot, i - 1)
               S == {k \in 0 .. m : SumOf(ns, x + k) = y + SumOf(w, k)}
    <2>1. m \in Nat /\ w \in Seq(Nat) /\ Len(w) = m
      BY <1>1
    <2>2. x \in Nat /\ y \in Nat
      <3>1. i \in 1 .. (n + 1) /\ i - 1 \in 0 .. n
        BY <1>1
      <3> QED
        BY <1>1, <1>3, <3>1
    <2>3. \A k \in 1 .. m : x + k \in 1 .. Len(ns) /\ ns[x + k] = w[k]
      BY <1>4
    <2>4. SumOf(ns, x) = y
      BY <1>5
    <2> HIDE DEF w, m, x, y
    <2>5. /\ SumOf(w, 0) = 0
          /\ \A k \in 1 .. m : SumOf(w, k) = SumOf(w, k - 1) + w[k]
          /\ \A k \in 0 .. m : SumOf(w, k) \in Nat
      BY <2>1, SumsGrow
    <2>6. 0 \in S
      <3>1. x + 0 = x /\ y + 0 = y
        BY <2>2
      <3> QED
        BY <2>1, <2>4, <2>5, <3>1
    <2>7. ASSUME NEW k \in 1 .. m, k - 1 \in S PROVE k \in S
      <3>1. SumOf(ns, x + (k - 1)) = y + SumOf(w, k - 1) /\ k - 1 \in 0 .. m /\ k \in 0 .. m
        BY <2>1, <2>7
      <3>2. (x + k) - 1 = x + (k - 1)
        BY <2>1, <2>2
      <3>3. SumOf(ns, x + k) = SumOf(ns, x + (k - 1)) + ns[x + k]
        BY <1>2, <2>3, <3>2
      <3>4. w[k] \in Nat /\ SumOf(w, k - 1) \in Nat
        BY <2>1, <2>5, <3>1, SMTT(30)
      <3>5. SumOf(w, k) = SumOf(w, k - 1) + w[k] /\ ns[x + k] = w[k]
        BY <2>3, <2>5
      <3>6. SumOf(ns, x + k) = y + SumOf(w, k)
        BY <2>2, <3>1, <3>3, <3>4, <3>5
      <3> QED
        BY <3>1, <3>6
    <2> HIDE DEF S
    <2>8. \A k \in 0 .. m : k \in S
      BY <2>1, <2>6, <2>7, UpToN
    <2> QED
      BY <2>8 DEF S, w, m, x, y
  <1> DEFINE Q == {i \in 0 .. n : SumOf(ns, Begin(nn, i + 1)) = SumOf(tot, i)}
  <1>6. 0 \in Q
    BY <1>1, <1>2, <1>3
  <1>7. ASSUME NEW i \in 1 .. n, i - 1 \in Q PROVE i \in Q
    <2>1. (i - 1) + 1 = i /\ i \in 0 .. n
      BY <1>1
    <2>2. SumOf(ns, Begin(nn, i)) = SumOf(tot, i - 1)
      BY <1>7, <2>1
    <2>3. Len(nn[i]) \in 0 .. Len(nn[i])
      BY <1>1
    <2>4. SumOf(ns, Begin(nn, i) + Len(nn[i])) = SumOf(tot, i - 1) + SumOf(nn[i], Len(nn[i]))
      BY <1>5, <2>2, <2>3
    <2>5. Begin(nn, i + 1) = Begin(nn, i) + Len(nn[i])
      BY <1>1
    <2>6. SumOf(tot, i) = SumOf(tot, i - 1) + tot[i] /\ tot[i] = SumOf(nn[i], Len(nn[i]))
      BY <1>3 DEF n
    <2> QED
      BY <2>1, <2>4, <2>5, <2>6
  <1> HIDE DEF Q
  <1>8. \A i \in 0 .. n : i \in Q
    BY <1>1, <1>6, <1>7, UpToN
  <1>9. ASSUME NEW i \in 1 .. n PROVE SumOf(ns, Begin(nn, i)) = SumOf(tot, i - 1)
    <2>1. i - 1 \in 0 .. n /\ (i - 1) + 1 = i
      BY <1>1
    <2> QED
      BY <1>8, <2>1 DEF Q
  <1> QED
    BY <1>5, <1>9 DEF n

Regs == Symbols \X Nat
RegsOf(csr) == [k \in DOMAIN csr |-> Registers(csr[k])]
Nums(csr) == [k \in DOMAIN csr |-> csr[k].num]

(* The registers of one object file are where the earlier ones end.        *)
LEMMA UnwindParts ==
  ASSUME NEW o \in ObjectRecords, NEW csr \in Seq(SavedRegisters), csr = FuncCalleeSaved(o)
  PROVE  /\ emitUnwindInfo(o) \in Seq(Regs)
         /\ Nums(csr) \in Seq(Nat) /\ Len(Nums(csr)) = Len(csr)
         /\ Len(emitUnwindInfo(o)) = SumOf(Nums(csr), Len(csr))
         /\ \A k \in 1 .. Len(csr) :
              /\ SumOf(Nums(csr), k - 1) + csr[k].num <= Len(emitUnwindInfo(o))
              /\ \A x \in 1 .. csr[k].num :
                   emitUnwindInfo(o)[SumOf(Nums(csr), k - 1) + x] = <<csr[k].func, x>>
  <1> DEFINE n == Len(csr)
             ss == RegsOf(csr)
             s == emitUnwindInfo(o)
  <1>1. n \in Nat /\ DOMAIN csr = 1 .. n
        /\ \A k \in 1 .. n : csr[k].func \in Symbols /\ csr[k].num \in Nat
    <2>1. n \in Nat /\ DOMAIN csr = 1 .. n /\ \A k \in 1 .. n : csr[k] \in SavedRegisters
      OBVIOUS
    <2> QED
      BY <2>1 DEF SavedRegisters
  <1>2. s = FlattenSeq(ss)
    BY DEF emitUnwindInfo, RegsOf
  <1>3. \A k \in 1 .. n : /\ Registers(csr[k]) \in Seq(Regs) /\ Len(Registers(csr[k])) = csr[k].num
                          /\ \A x \in 1 .. csr[k].num : Registers(csr[k])[x] = <<csr[k].func, x>>
    <2> SUFFICES ASSUME NEW k \in 1 .. n
                 PROVE  /\ Registers(csr[k]) \in Seq(Regs) /\ Len(Registers(csr[k])) = csr[k].num
                        /\ \A x \in 1 .. csr[k].num : Registers(csr[k])[x] = <<csr[k].func, x>>
      OBVIOUS
    <2>1. PICK f \in Symbols, m \in Nat : f = csr[k].func /\ m = csr[k].num
      BY <1>1
    <2>2. Registers(csr[k]) = [x \in 1 .. m |-> <<f, x>>]
      BY <2>1 DEF Registers
    <2>3. \A x \in 1 .. m : <<f, x>> \in Regs
      BY DEF Regs
    <2> QED
      BY <2>1, <2>2, <2>3
  <1>4. ss \in Seq(Seq(Regs)) /\ Len(ss) = n /\ \A k \in 1 .. n : ss[k] = Registers(csr[k])
    <2> DEFINE W == Seq(Regs)
               e(k) == Registers(csr[k])
    <2>1. \A k \in 1 .. n : e(k) \in W
      BY <1>3
    <2>2. ss = [k \in 1 .. n |-> e(k)]
      BY <1>1 DEF RegsOf
    <2> HIDE DEF W, e, ss, n
    <2>3. ss \in Seq(W) /\ Len(ss) = n /\ \A k \in 1 .. n : ss[k] = e(k)
      BY <1>1, <2>1, <2>2
    <2> QED
      BY <2>3 DEF W, e
  <1>5. Nums(csr) \in Seq(Nat) /\ Len(Nums(csr)) = n
    BY <1>1 DEF Nums
  <1> HIDE DEF ss, s, n
  <1>6. Lens(ss) = Nums(csr)
    <2>1. DOMAIN ss = 1 .. n
      BY <1>4
    <2>2. Lens(ss) = [k \in 1 .. n |-> Len(ss[k])]
      BY <2>1 DEF Lens
    <2>3. Nums(csr) = [k \in 1 .. n |-> csr[k].num]
      BY <1>1 DEF Nums
    <2>4. \A k \in 1 .. n : Len(ss[k]) = csr[k].num
      BY <1>3, <1>4
    <2> QED
      BY <2>2, <2>3, <2>4
  <1>7. \A k : Begin(ss, k) = SumOf(Nums(csr), k - 1)
    BY <1>6 DEF Begin
  <1>8. s \in Seq(Regs) /\ InParts(s, ss, n)
    BY <1>2, <1>4, FlattenFacts
  <1>9. Len(s) = SumOf(Nums(csr), n)
    <2>1. Len(s) = SumOf(Nums(csr), (n + 1) - 1)
      BY <1>7, <1>8 DEF InParts
    <2>2. (n + 1) - 1 = n
      BY <1>1
    <2> QED
      BY <2>1, <2>2
  <1>10. ASSUME NEW k \in 1 .. n
         PROVE  /\ SumOf(Nums(csr), k - 1) + csr[k].num <= Len(s)
                /\ \A x \in 1 .. csr[k].num : s[SumOf(Nums(csr), k - 1) + x] = <<csr[k].func, x>>
    <2>1. SumOf(Nums(csr), k) = SumOf(Nums(csr), k - 1) + csr[k].num
          /\ SumOf(Nums(csr), k) <= SumOf(Nums(csr), n)
      <3>1. k \in 0 .. n /\ n \in 0 .. n /\ k <= n
        BY <1>1
      <3>2. Nums(csr)[k] = csr[k].num
        BY <1>1 DEF Nums
      <3> QED
        BY <1>5, <3>1, <3>2, SumsGrow
    <2>2. \A x \in 1 .. Len(ss[k]) : s[Begin(ss, k) + x] = ss[k][x]
      BY <1>8 DEF InParts
    <2>3. \A x \in 1 .. csr[k].num : s[SumOf(Nums(csr), k - 1) + x] = <<csr[k].func, x>>
      <3> SUFFICES ASSUME NEW x \in 1 .. csr[k].num
                   PROVE  s[SumOf(Nums(csr), k - 1) + x] = <<csr[k].func, x>>
        OBVIOUS
      <3>1. x \in 1 .. Len(ss[k]) /\ ss[k][x] = <<csr[k].func, x>>
        BY <1>3, <1>4
      <3> QED
        BY <1>7, <2>2, <3>1
    <2> QED
      BY <1>9, <2>1, <2>3
  <1> QED
    BY <1>5, <1>8, <1>9, <1>10 DEF s, n

(* The offset of a function's record selects its registers.                *)
LEMMA RegistersSelected ==
  ASSUME NEW os, NEW t, Binary(os, t), NEW i \in 1 .. Len(os),
         NEW k \in 1 .. Len(FuncCalleeSaved(os[i]))
  PROVE  Slice(Linked(UnwindOf(os)),
               SumOf(NumsOf(AddrRanges(os, t)), Begin(RangesOf(os, t), i) + k - 1),
               FuncCalleeSaved(os[i])[k].num)
           = Registers(FuncCalleeSaved(os[i])[k])
  <1> DEFINE n == Len(os)
             csr(j) == FuncCalleeSaved(os[j])
             em(j) == emitUnwindInfo(os[j])
             uu == UnwindOf(os)
             s == Linked(UnwindOf(os))
             raw == AddrRanges(os, t)
             ss == RangesOf(os, t)
             ns == NumsOf(raw)
             nn == [j \in 1 .. n |-> Nums(csr(j))]
             tot == Lens(uu)
  <1>1. os \in Seq(ObjectRecords) /\ SavedOnce(os)
    BY DEF Binary
  <1>2. n \in Nat /\ DOMAIN os = 1 .. n /\ \A j \in 1 .. n : os[j] \in ObjectRecords
    BY <1>1
  <1>3. ASSUME NEW j \in 1 .. n
        PROVE  csr(j) \in Seq(SavedRegisters)
    <2>1. \A x, y \in DOMAIN os[j].saved : os[j].saved[x].func = os[j].saved[y].func => x = y
      BY <1>1, <1>2 DEF SavedOnce
    <2> QED
      BY <1>2, <2>1, SavedFacts
  <1>4. ASSUME NEW j \in 1 .. n
        PROVE  /\ em(j) \in Seq(Regs)
               /\ Nums(csr(j)) \in Seq(Nat) /\ Len(Nums(csr(j))) = Len(csr(j))
               /\ Len(em(j)) = SumOf(Nums(csr(j)), Len(csr(j)))
    BY <1>2, <1>3, UnwindParts
  <1>5. /\ SumOf(Nums(csr(i)), k - 1) + csr(i)[k].num <= Len(em(i))
        /\ \A x \in 1 .. csr(i)[k].num :
             em(i)[SumOf(Nums(csr(i)), k - 1) + x] = <<csr(i)[k].func, x>>
    BY <1>2, <1>3, UnwindParts
  <1>6. /\ ss \in Seq(Seq(UnwindAddr)) /\ Len(ss) = n
        /\ \A j \in 1 .. n : Len(ss[j]) = Len(csr(j))
    BY AddrRangesFacts, SMTT(30)
  <1>7. raw \in Seq(UnwindAddr)
    BY AddrRangesFacts
  <1>8. \A j \in 1 .. n : \A l \in 1 .. Len(csr(j)) :
          /\ Begin(ss, j) + l \in DOMAIN raw
          /\ raw[Begin(ss, j) + l].num_unwind = csr(j)[l].num
    <2>1. EveryFunction(os, t)
      BY AddrRangesFacts
    <2> QED
      BY <2>1, Zenon DEF EveryFunction
  <1>9. raw = FlattenSeq(ss) /\ s = FlattenSeq(uu)
    BY DEF AddrRanges, Linked
  <1>10. uu = [j \in 1 .. n |-> em(j)]
    BY <1>2 DEF UnwindOf
  <1> HIDE DEF csr, em, uu, s, raw, ss
  <1>11. uu \in Seq(Seq(Regs)) /\ Len(uu) = n /\ \A j \in 1 .. n : uu[j] = em(j)
    <2> DEFINE W == Seq(Regs)
    <2>1. \A j \in 1 .. n : em(j) \in W
      BY <1>4
    <2> HIDE DEF W, n
    <2>2. uu \in Seq(W) /\ Len(uu) = n /\ \A j \in 1 .. n : uu[j] = em(j)
      BY <1>2, <1>10, <2>1
    <2> QED
      BY <2>2 DEF W
  <1>12. nn \in Seq(Seq(Nat)) /\ Len(nn) = n /\ \A j \in 1 .. n : nn[j] = Nums(csr(j))
    <2> DEFINE W == Seq(Nat)
               e(j) == Nums(csr(j))
    <2>1. \A j \in 1 .. n : e(j) \in W
      BY <1>4
    <2>2. nn = [j \in 1 .. n |-> e(j)]
      OBVIOUS
    <2> HIDE DEF W, n, e, nn
    <2>3. nn \in Seq(W) /\ Len(nn) = n /\ \A j \in 1 .. n : nn[j] = e(j)
      BY <1>2, <2>1, <2>2
    <2> QED
      BY <2>3 DEF W, e
  <1> HIDE DEF n, nn
  <1>13. Begin(nn, 1) = 0 /\ \A j : Begin(nn, j) = Begin(ss, j)
    <2>1. DOMAIN nn = 1 .. n /\ DOMAIN ss = 1 .. n
      BY <1>6, <1>12
    <2>2. \A j \in 1 .. n : Len(nn[j]) = Len(ss[j])
      BY <1>4, <1>6, <1>12
    <2>3. Lens(nn) = Lens(ss)
      BY <2>1, <2>2 DEF Lens
    <2>4. Begin(nn, 1) = 0
      BY <1>12, BeginFacts
    <2> QED
      BY <2>3, <2>4 DEF Begin
  <1>14. ns \in Seq(Nat) /\ Len(ns) = Len(raw) /\ \A m \in DOMAIN raw : ns[m] = raw[m].num_unwind
    <2>1. /\ DOMAIN raw = 1 .. Len(raw) /\ Len(raw) \in Nat
          /\ \A m \in 1 .. Len(raw) : raw[m] \in UnwindAddr
      BY <1>7
    <2>2. \A m \in 1 .. Len(raw) : raw[m].num_unwind \in Nat
      BY <2>1 DEF UnwindAddr
    <2> QED
      BY <2>1, <2>2 DEF NumsOf
  <1> HIDE DEF ns
  <1>15. InParts(ns, nn, n)
    <2>1. Len(ns) = Begin(nn, n + 1)
      <3>1. InParts(raw, ss, n)
        BY <1>6, <1>9, FlattenFacts
      <3> QED
        BY <1>13, <1>14, <3>1 DEF InParts
    <2>2. ASSUME NEW j \in 1 .. n, NEW l \in 1 .. Len(nn[j])
          PROVE  Begin(nn, j) + l \in 1 .. Len(ns) /\ ns[Begin(nn, j) + l] = nn[j][l]
      <3>1. nn[j] = Nums(csr(j)) /\ l \in 1 .. Len(csr(j))
        BY <1>4, <1>12
      <3>2. Nums(csr(j))[l] = csr(j)[l].num
        <4>1. l \in DOMAIN csr(j)
          BY <1>3, <3>1
        <4> QED
          BY <4>1 DEF Nums
      <3>3. DOMAIN raw = 1 .. Len(ns)
        BY <1>7, <1>14
      <3> QED
        BY <1>8, <1>13, <1>14, <3>1, <3>2, <3>3
    <2> QED
      BY <2>1, <2>2 DEF InParts
  <1>16. tot \in Seq(Nat) /\ Len(tot) = n /\ \A j \in 1 .. n : tot[j] = Len(em(j))
    <2>1. DOMAIN uu = 1 .. n /\ n \in Nat /\ \A j \in 1 .. n : Len(uu[j]) \in Nat
      <3>1. /\ DOMAIN uu = 1 .. Len(uu) /\ Len(uu) \in Nat
            /\ \A j \in 1 .. Len(uu) : Len(uu[j]) \in Nat
        BY <1>11, BeginFacts
      <3> QED
        BY <1>11, <3>1
    <2>2. tot = [j \in 1 .. n |-> Len(uu[j])]
      BY <2>1 DEF Lens
    <2> QED
      BY <1>11, <2>1, <2>2
  <1>17. \A j : Begin(uu, j) = SumOf(tot, j - 1)
    BY DEF Begin
  <1> HIDE DEF tot
  <1>18. \A j \in 1 .. Len(nn) : tot[j] = SumOf(nn[j], Len(nn[j]))
    BY <1>4, <1>12, <1>16
  <1>19. \A j \in 1 .. Len(nn) : \A l \in 0 .. Len(nn[j]) :
           SumOf(ns, Begin(nn, j) + l) = SumOf(tot, j - 1) + SumOf(nn[j], l)
    <2>1. nn \in Seq(Seq(Nat)) /\ ns \in Seq(Nat) /\ tot \in Seq(Nat)
      BY <1>12, <1>14, <1>16
    <2>2. InParts(ns, nn, Len(nn)) /\ Len(tot) = Len(nn)
      BY <1>12, <1>15, <1>16
    <2> QED
      BY <1>18, <2>1, <2>2, SumInParts
  <1>20. i \in 1 .. n /\ k \in 1 .. Len(csr(i)) /\ Len(csr(i)) \in Nat
    <2>1. i \in 1 .. n /\ k \in 1 .. Len(csr(i))
      BY DEF n, csr
    <2> QED
      BY <1>3, <2>1
  <1> DEFINE x == Begin(uu, i)
             y == SumOf(Nums(csr(i)), k - 1)
             m == csr(i)[k].num
             w == Registers(csr(i)[k])
  <1>21. SumOf(ns, Begin(ss, i) + k - 1) = x + y
    <2>1. k - 1 \in 0 .. Len(nn[i]) /\ nn[i] = Nums(csr(i)) /\ i \in 1 .. Len(nn)
      BY <1>4, <1>12, <1>20
    <2>2. Begin(ss, i) \in Nat
      <3>1. \A j \in 1 .. (Len(ss) + 1) : Begin(ss, j) \in Nat
        BY <1>6, BeginFacts
      <3>2. i \in 1 .. (Len(ss) + 1)
        BY <1>2, <1>6, <1>20
      <3> QED
        BY <3>1, <3>2
    <2>3. Begin(ss, i) + k - 1 = Begin(nn, i) + (k - 1)
      BY <1>13, <1>20, <2>2
    <2> QED
      BY <1>17, <1>19, <2>1, <2>3
  <1>22. s \in Seq(Regs) /\ InParts(s, uu, n)
    BY <1>9, <1>11, FlattenFacts
  <1>23. /\ x \in Nat /\ x + Len(em(i)) <= Len(s)
         /\ \A z \in 1 .. Len(em(i)) : s[x + z] = em(i)[z]
    <2>1. /\ \A j \in 1 .. n : Begin(uu, j + 1) = Begin(uu, j) + Len(uu[j])
          /\ \A j \in 1 .. (n + 1) : Begin(uu, j) \in Nat
          /\ \A j, l \in 1 .. (n + 1) : j <= l => Begin(uu, j) <= Begin(uu, l)
      BY <1>11, BeginFacts
    <2>2. i \in 1 .. (n + 1) /\ i + 1 \in 1 .. (n + 1) /\ n + 1 \in 1 .. (n + 1) /\ i + 1 <= n + 1
      BY <1>2, <1>20
    <2>3. Begin(uu, i + 1) <= Len(s) /\ \A z \in 1 .. Len(uu[i]) : s[x + z] = uu[i][z]
      BY <1>20, <1>22, <2>1, <2>2 DEF InParts
    <2> QED
      BY <1>11, <1>20, <2>1, <2>2, <2>3
  <1>24. y \in Nat /\ m \in Nat
    <2>1. k - 1 \in 0 .. Len(Nums(csr(i))) /\ Nums(csr(i)) \in Seq(Nat)
      BY <1>4, <1>20
    <2>2. y \in Nat
      BY <2>1, SumsGrow
    <2>3. csr(i)[k] \in SavedRegisters
      BY <1>3, <1>20
    <2> QED
      BY <2>2, <2>3 DEF SavedRegisters
  <1>25. y + m <= Len(em(i)) /\ \A z \in 1 .. m : em(i)[y + z] = <<csr(i)[k].func, z>>
    BY <1>5 DEF csr, em
  <1>26. w \in Seq(Regs) /\ Len(w) = m /\ \A z \in 1 .. m : w[z] = <<csr(i)[k].func, z>>
    <2>1. PICK f \in Symbols : f = csr(i)[k].func
      <3>1. csr(i)[k] \in SavedRegisters
        BY <1>3, <1>20
      <3> QED
        BY <3>1 DEF SavedRegisters
    <2>2. w = [z \in 1 .. m |-> <<f, z>>]
      BY <2>1 DEF Registers
    <2>3. \A z \in 1 .. m : <<f, z>> \in Regs
      BY <1>24 DEF Regs
    <2> HIDE DEF w, m
    <2>4. w \in Seq(Regs) /\ Len(w) = m /\ \A z \in 1 .. m : w[z] = <<f, z>>
      BY <1>24, <2>2, <2>3
    <2> QED
      BY <2>1, <2>4
  <1> HIDE DEF x, y, m, w
  <1>27. Slice(s, x + y, Len(w)) = w
    <2>1. Len(em(i)) \in Nat /\ Len(s) \in Nat
      BY <1>4, <1>20, <1>22
    <2>2. x + y \in Nat /\ (x + y) + Len(w) <= Len(s)
      BY <1>23, <1>24, <1>25, <1>26, <2>1
    <2>3. ASSUME NEW z \in 1 .. Len(w) PROVE s[(x + y) + z] = w[z]
      <3>1. z \in 1 .. m /\ y + z \in 1 .. Len(em(i)) /\ (x + y) + z = x + (y + z)
        BY <1>23, <1>24, <1>25, <1>26, <2>1
      <3> QED
        BY <1>23, <1>25, <1>26, <3>1
    <2> QED
      BY <1>22, <1>26, <2>2, <2>3, SliceIs
  <1> QED
    BY <1>21, <1>26, <1>27 DEF s, ns, raw, ss, csr, m, w

(* ... and so does the offset in the site of a call, for its function.     *)
LEMMA UnwindOffset ==
  ASSUME NEW os, NEW t, Binary(os, t), NEW q \in DOMAIN Recs(os), NEW arch, NEW s,
         s = CallSite(arch, Recs(os), q, t, Table(os, t))
  PROVE  Slice(Linked(UnwindOf(os)), s.unwind_offset, s.num_unwind)
           = [k \in 1 .. Recs(os)[q].num_unwind |-> <<Recs(os)[q].func, k>>]
  <1> DEFINE rs == Recs(os)
             f == rs[q].func
             u == Table(os, t)
             raw == AddrRanges(os, t)
             v(m) == SumOf(NumsOf(raw), m - 1)
             csr(i) == FuncCalleeSaved(os[i])
             found == SearchRange(u, t[f] + rs[q].offset)
  <1>1. PICK k \in 1 .. Len(u) : u[k].addr = t[f] /\ found = k - 1
    BY FunctionFound
  <1>2. /\ u \in Seq(UnwindAddr)
        /\ \A l \in 1 .. Len(u) : \E m \in DOMAIN raw :
             u[l].addr = raw[m].addr /\ u[l].unwind_offset = v(m)
    <2>1. u \in Seq(UnwindAddr) /\ FromRanges(os, t)
      BY TableFacts
    <2> QED
      BY <2>1, Zenon DEF FromRanges
  <1>3. \E i \in 1 .. Len(os) : \E c \in 1 .. Len(csr(i)) :
              csr(i)[c].func = f /\ csr(i)[c].num = rs[q].num_unwind
    BY RawFacts
  <1>4. \A m, n \in DOMAIN raw : raw[m].addr = raw[n].addr => m = n
    BY RawFacts
  <1>0. PICK i \in 1 .. Len(os) : \E c \in 1 .. Len(csr(i)) :
              csr(i)[c].func = f /\ csr(i)[c].num = rs[q].num_unwind
    BY <1>3
  <1>5. PICK c \in 1 .. Len(csr(i)) :
              csr(i)[c].func = f /\ csr(i)[c].num = rs[q].num_unwind
    BY <1>0
  <1> DEFINE p == Begin(RangesOf(os, t), i) + c
  <1>6. p \in DOMAIN raw /\ raw[p].addr = t[csr(i)[c].func]
    <2>1. EveryFunction(os, t)
      BY AddrRangesFacts
    <2> QED
      BY <2>1, Zenon DEF EveryFunction
  <1>7. Slice(Linked(UnwindOf(os)), v(p), csr(i)[c].num) = Registers(csr(i)[c])
    <2>1. Slice(Linked(UnwindOf(os)),
                SumOf(NumsOf(AddrRanges(os, t)), Begin(RangesOf(os, t), i) + c - 1),
                FuncCalleeSaved(os[i])[c].num)
            = Registers(FuncCalleeSaved(os[i])[c])
      BY RegistersSelected, Zenon
    <2>2. Begin(RangesOf(os, t), i) \in Nat
      <3>1. RangesOf(os, t) \in Seq(Seq(UnwindAddr)) /\ Len(RangesOf(os, t)) = Len(os)
        BY AddrRangesFacts
      <3>2. os \in Seq(ObjectRecords)
        BY DEF Binary
      <3>3. i \in 1 .. (Len(RangesOf(os, t)) + 1)
        BY <3>1, <3>2
      <3> QED
        BY <3>1, <3>3, BeginFacts
    <2>3. Begin(RangesOf(os, t), i) + c - 1 = p - 1
      BY <2>2
    <2> QED
      BY <2>1, <2>3
  <1>8. /\ s.num_unwind = rs[q].num_unwind
        /\ s.unwind_offset = IF found = NULL THEN NULL ELSE u[found + 1].unwind_offset
    <2> HIDE DEF u, rs
    <2>1. s = CallSite(arch, rs, q, t, u)
      BY DEF u, rs
    <2> QED
      BY <2>1 DEF CallSite, get_func_unwind_data
  <1> HIDE DEF rs, f, u, raw, v, csr, found, p
  <1>9. found # NULL /\ found + 1 = k
    BY <1>1, <1>2 DEF NULL
  <1>10. PICK m \in DOMAIN raw : u[k].addr = raw[m].addr /\ u[k].unwind_offset = v(m)
    BY <1>1, <1>2
  <1>11. m = p
    BY <1>1, <1>4, <1>5, <1>6, <1>10
  <1>12. s.unwind_offset = v(p)
    BY <1>8, <1>9, <1>10, <1>11
  <1>13. Registers(csr(i)[c]) = [x \in 1 .. rs[q].num_unwind |-> <<f, x>>]
    BY <1>5 DEF Registers
  <1>14. Slice(Linked(UnwindOf(os)), s.unwind_offset, s.num_unwind)
           = [x \in 1 .. rs[q].num_unwind |-> <<f, x>>]
    BY <1>5, <1>7, <1>8, <1>12, <1>13
  <1> QED
    BY <1>14 DEF f, rs

(* The offsets of a site select the live values of its call.               *)
LEMMA LiveOffsets ==
  ASSUME NEW rs \in Seq(CallRecords), NEW q \in DOMAIN rs, NEW arch, NEW t, NEW u, NEW s,
         s = CallSite(arch, rs, q, t, u)
  PROVE  /\ Slice(FlattenSeq(LocsOf(rs)), s.live_offset, s.num_live) = rs[q].locs
         /\ Slice(FlattenSeq(ArchLocsOf(rs)), s.arch_live_offset, s.num_arch_live)
              = [k \in 1 .. rs[q].arch_live |-> rs[q].call]
  <1> DEFINE n == Len(rs)
             L == [size : Nat, is_duplicate : BOOLEAN]
             C == Symbols \X Nat
             ll == LocsOf(rs)
             aa == ArchLocsOf(rs)
             calls(i) == [k \in 1 .. rs[i].arch_live |-> rs[i].call]
  <1>1. n \in Nat /\ DOMAIN rs = 1 .. n /\ \A i \in 1 .. n : rs[i] \in CallRecords
    OBVIOUS
  <1>2. \A i \in 1 .. n : rs[i].locs \in Seq(L) /\ rs[i].arch_live \in Nat /\ rs[i].call \in C
    BY <1>1 DEF CallRecords
  <1>3. /\ s.num_live = Len(rs[q].locs) /\ s.num_arch_live = rs[q].arch_live
        /\ s.live_offset = SumOf([j \in DOMAIN rs |-> Len(rs[j].locs)], q - 1)
        /\ s.arch_live_offset = SumOf([j \in DOMAIN rs |-> rs[j].arch_live], q - 1)
    BY DEF CallSite
  <1> HIDE DEF n, L, C
  <1>4. ll \in Seq(Seq(L)) /\ Len(ll) = n /\ \A i \in 1 .. n : ll[i] = rs[i].locs
    <2> DEFINE W == Seq(L)
               e(i) == rs[i].locs
    <2>1. \A i \in 1 .. n : e(i) \in W
      BY <1>2
    <2>2. ll = [i \in 1 .. n |-> e(i)]
      BY <1>1 DEF LocsOf
    <2> HIDE DEF W, e, ll
    <2>3. ll \in Seq(W) /\ Len(ll) = n /\ \A i \in 1 .. n : ll[i] = e(i)
      BY <1>1, <2>1, <2>2
    <2> QED
      BY <2>3 DEF W, e
  <1>5. \A i \in 1 .. n : calls(i) \in Seq(C) /\ Len(calls(i)) = rs[i].arch_live
    BY <1>2
  <1>6. aa \in Seq(Seq(C)) /\ Len(aa) = n /\ \A i \in 1 .. n : aa[i] = calls(i)
    <2> DEFINE W == Seq(C)
    <2>1. \A i \in 1 .. n : calls(i) \in W
      BY <1>5
    <2>2. aa = [i \in 1 .. n |-> calls(i)]
      BY <1>1 DEF ArchLocsOf
    <2> HIDE DEF W, calls, aa
    <2>3. aa \in Seq(W) /\ Len(aa) = n /\ \A i \in 1 .. n : aa[i] = calls(i)
      BY <1>1, <2>1, <2>2
    <2> QED
      BY <2>3 DEF W
  <1> HIDE DEF ll, aa, calls
  <1>7. s.live_offset = Begin(ll, q)
    <2>1. DOMAIN ll = 1 .. n
      BY <1>4
    <2>2. \A i \in 1 .. n : Len(ll[i]) = Len(rs[i].locs)
      BY <1>4
    <2>3. Lens(ll) = [j \in DOMAIN rs |-> Len(rs[j].locs)]
      BY <1>1, <2>1, <2>2 DEF Lens
    <2> QED
      BY <1>3, <2>3 DEF Begin
  <1>8. s.arch_live_offset = Begin(aa, q)
    <2>1. DOMAIN aa = 1 .. n
      BY <1>6
    <2>2. \A i \in 1 .. n : Len(aa[i]) = rs[i].arch_live
      BY <1>5, <1>6
    <2>3. Lens(aa) = [j \in DOMAIN rs |-> rs[j].arch_live]
      BY <1>1, <2>1, <2>2 DEF Lens
    <2> QED
      BY <1>3, <2>3 DEF Begin
  <1>9. q \in 1 .. n
    BY <1>1
  <1>10. Slice(FlattenSeq(ll), Begin(ll, q), Len(ll[q])) = ll[q]
    BY <1>4, <1>9, PartSlice
  <1>11. Slice(FlattenSeq(aa), Begin(aa, q), Len(aa[q])) = aa[q]
    BY <1>6, <1>9, PartSlice
  <1>12. ll[q] = rs[q].locs /\ aa[q] = calls(q) /\ Len(aa[q]) = rs[q].arch_live
    BY <1>4, <1>5, <1>6, <1>9
  <1> QED
    BY <1>3, <1>7, <1>8, <1>10, <1>11, <1>12 DEF ll, aa, calls

-----------------------------------------------------------------------------
(* The code of the functions                                               *)

(* Function f is in the list of the functions, and on a its code goes      *)
(* beyond offset.                                                          *)
InText(a, f, offset) ==
  \E k \in DOMAIN work[Text] : work[Text][k].name = f /\ offset < work[Text][k].size[a]

(* ... or it is still to be merged from the map of a.                      *)
ToMerge(a, f, offset) ==
  \E k \in DOMAIN pending[a] :
    /\ pending[a][k].name = f /\ pending[a][k].section = Text /\ ~pending[a][k].blacklisted
    /\ offset < pending[a][k].size

HasCode(a, f, offset) ==
  phase # "failed" => InText(a, f, offset) \/ (phase = "collect" /\ ToMerge(a, f, offset))

(* What remains to be merged is still in the map.                          *)
LEMMA StillToMerge ==
  ASSUME TypeOK, NEW b \in Archs, NEW e, Merging(b, e),
         NEW a \in Archs, NEW f, NEW offset, ToMerge(a, f, offset)
  PROVE  \/ ToMerge(a, f, offset)'
         \/ a = b /\ e.name = f /\ e.section = Text /\ ~e.blacklisted /\ offset < e.size
  <1>1. pending \in [Archs -> Seq(Entries)]
    BY DEF TypeOK
  <1>2. PICK q \in Seq(Entries) : q = pending[b]
    BY <1>1
  <1>3. q # << >> /\ e = Head(q) /\ pending' = [pending EXCEPT ![b] = Tail(q)]
    BY <1>2 DEF Merging
  <1>4. e = q[1] /\ DOMAIN q = 1 .. Len(q) /\ Len(q) \in Nat
    BY <1>3
  <1>5. \A i \in DOMAIN q : i # 1 => i - 1 \in DOMAIN Tail(q) /\ Tail(q)[i - 1] = q[i]
    BY <1>3
  <1>6. pending'[b] = Tail(q) /\ \A c \in Archs \ {b} : pending'[c] = pending[c]
    BY <1>1, <1>3
  <1>7. PICK k \in DOMAIN pending[a] :
          /\ pending[a][k].name = f /\ pending[a][k].section = Text /\ ~pending[a][k].blacklisted
          /\ offset < pending[a][k].size
    BY DEF ToMerge
  <1>8. CASE a = b /\ k = 1
    BY <1>2, <1>4, <1>7, <1>8
  <1>9. CASE a = b /\ k # 1
    <2>1. k \in DOMAIN q /\ pending[a][k] = q[k]
      BY <1>2, <1>7, <1>9
    <2>2. k - 1 \in DOMAIN pending'[a] /\ pending'[a][k - 1] = pending[a][k]
      BY <1>5, <1>6, <1>9, <2>1
    <2> QED
      BY <1>7, <2>2 DEF ToMerge
  <1>10. CASE a # b
    BY <1>6, <1>7, <1>10 DEF ToMerge
  <1> QED
    BY <1>8, <1>9, <1>10

(* The merged entry has its size in the list, and no other size changes.   *)
LEMMA MergedCode ==
  ASSUME IInv, NEW b \in Archs, NEW e, updateSymbolsList(b, e), Text \in Sections,
         NEW a \in Archs, NEW f, NEW offset \in Nat
  PROVE  /\ InText(a, f, offset) => InText(a, f, offset)'
         /\ a = b /\ e.name = f /\ e.section = Text /\ offset < e.size => InText(a, f, offset)'
  <1> DEFINE c0 == e.section
             w == work[c0]
             merged == [i \in DOMAIN w |->
                          IF i \notin Matches(e) THEN w[i] ELSE MergedWith(w[i], b, e)]
             v == IF Matches(e) = {} THEN Append(w, Symbol(e, b)) ELSE merged
  <1>1. TypeOK /\ Merging(b, e)
    BY DEF IInv, updateSymbolsList
  <1>2. e \in Entries /\ c0 \in Sections /\ e.size \in Nat
    <2>1. e \in Entries
      BY <1>1, MergingFacts
    <2> QED
      BY <2>1 DEF Entries
  <1>3. work' = [work EXCEPT ![c0] = v] /\ \A i \in Matches(e) : b \notin Referenced(w[i])
    BY DEF updateSymbolsList, MergedWith
  <1>4. /\ w \in Seq(SymbolRecords) /\ Len(w) \in Nat /\ DOMAIN w = 1 .. Len(w)
        /\ \A i \in DOMAIN w : w[i] \in SymbolRecords
    BY <1>1, <1>2, WorkFacts DEF TypeOK
  <1> HIDE DEF v
  <1>5. work'[c0] = v /\ \A c \in Sections \ {c0} : work'[c] = work[c]
    BY <1>1, <1>2, <1>3 DEF TypeOK
  <1> HIDE DEF w
  <1>6. ASSUME NEW i \in DOMAIN w
        PROVE  /\ MergedWith(w[i], b, e).name = w[i].name
               /\ MergedWith(w[i], b, e).size[b] = e.size
               /\ \A c \in Archs \ {b} : MergedWith(w[i], b, e).size[c] = w[i].size[c]
    <2>1. PICK s \in SymbolRecords : s = w[i]
      BY <1>4, <1>6
    <2> QED
      BY <2>1 DEF SymbolRecords, MergedWith
  <1>7. Symbol(e, b).name = e.name /\ Symbol(e, b).size[b] = e.size
    BY DEF Symbol
  <1>8. ASSUME InText(a, f, offset) PROVE InText(a, f, offset)'
    <2>1. PICK k \in DOMAIN work[Text] : work[Text][k].name = f /\ offset < work[Text][k].size[a]
      BY <1>8 DEF InText
    <2>2. CASE Text # c0
      BY <1>5, <2>1, <2>2 DEF InText
    <2>3. CASE Text = c0
      <3>1. k \in DOMAIN w /\ w[k].name = f /\ offset < w[k].size[a]
        BY <2>1, <2>3 DEF w
      <3>2. k \in DOMAIN v /\ v[k].name = f /\ offset < v[k].size[a]
        <4>1. CASE Matches(e) = {}
          BY <1>4, <3>1, <4>1 DEF v
        <4>2. CASE Matches(e) # {} /\ k \notin Matches(e)
          BY <3>1, <4>2 DEF v
        <4>3. CASE k \in Matches(e)
          <5>1. k \in DOMAIN v /\ v[k] = MergedWith(w[k], b, e)
            BY <3>1, <4>3 DEF v
          <5>2. a # b
            <6>1. w[k].size[a] >= 0
              <7>1. w[k] \in SymbolRecords
                BY <1>4, <3>1
              <7>2. w[k].size[a] \in Int
                BY <7>1 DEF SymbolRecords
              <7> QED
                BY <3>1, <7>2
            <6> QED
              BY <1>3, <4>3, <6>1 DEF Referenced
          <5> QED
            BY <1>6, <3>1, <5>1, <5>2
        <4> QED
          BY <4>1, <4>2, <4>3
      <3> QED
        BY <1>5, <2>3, <3>2 DEF InText
    <2> QED
      BY <2>2, <2>3
  <1>9. ASSUME a = b, e.name = f, e.section = Text, offset < e.size
        PROVE  InText(a, f, offset)'
    <2>1. \E k \in DOMAIN v : v[k].name = f /\ offset < v[k].size[a]
      <3>1. CASE Matches(e) = {}
        <4>1. Len(w) + 1 \in DOMAIN v /\ v[Len(w) + 1] = Symbol(e, b)
          BY <1>4, <3>1 DEF v
        <4> QED
          BY <1>7, <1>9, <4>1
      <3>2. CASE Matches(e) # {}
        <4>1. PICK k \in Matches(e) : TRUE
          BY <3>2
        <4>2. k \in DOMAIN w /\ w[k].name = e.name
          BY <4>1 DEF Matches, w
        <4>3. k \in DOMAIN v /\ v[k] = MergedWith(w[k], b, e)
          BY <3>2, <4>1, <4>2 DEF v
        <4> QED
          BY <1>6, <1>9, <4>2, <4>3
      <3> QED
        BY <3>1, <3>2
    <2> QED
      BY <1>5, <1>9, <2>1 DEF InText
  <1> QED
    BY <1>8, <1>9

(* Ordering a list loses no symbol.                                        *)
LEMMA OrderedCode ==
  ASSUME IInv, orderSymbolList, Text \in Sections,
         NEW a \in Archs, NEW f, NEW offset, InText(a, f, offset)
  PROVE  InText(a, f, offset)'
  <1>1. TypeOK
    BY DEF IInv
  <1> DEFINE c0 == section
             w == work[c0]
  <1>2. c0 \in Sections
    BY <1>1, CurrentSection
  <1>3. PICK p \in [DOMAIN w -> DOMAIN w] :
          Ordered(w, p) /\ work' = [work EXCEPT ![c0] = [i \in DOMAIN w |-> w[p[i]]]]
    BY DEF orderSymbolList
  <1>4. w \in Seq(SymbolRecords) /\ Len(w) \in Nat /\ DOMAIN w = 1 .. Len(w)
    BY <1>1, <1>2, WorkFacts DEF TypeOK
  <1> HIDE DEF c0
  <1>5. /\ work'[c0] = [i \in DOMAIN w |-> w[p[i]]]
        /\ \A c \in Sections \ {c0} : work'[c] = work[c]
    BY <1>1, <1>2, <1>3 DEF TypeOK
  <1> HIDE DEF w
  <1>6. \A i, j \in DOMAIN w : i # j => p[i] # p[j]
    <2> SUFFICES ASSUME NEW i \in DOMAIN w, NEW j \in DOMAIN w, i < j PROVE p[i] # p[j]
      BY <1>4
    <2>1. PICK m \in Nat : m = p[i]
      BY <1>4
    <2>2. PICK n \in Nat : n = p[j]
      BY <1>4
    <2>3. \/ Cardinality(Referenced(w[m])) > Cardinality(Referenced(w[n]))
          \/ Cardinality(Referenced(w[m])) = Cardinality(Referenced(w[n])) /\ m < n
      BY <1>3, <2>1, <2>2 DEF Ordered
    <2>4. Cardinality(Referenced(w[m])) \in Nat /\ Cardinality(Referenced(w[n])) \in Nat
      <3>1. Referenced(w[m]) \in SUBSET Archs /\ Referenced(w[n]) \in SUBSET Archs
        BY DEF Referenced
      <3> QED
        BY <3>1, ArchsFinite
    <2>5. m # n
      BY <2>3, <2>4
    <2> QED
      BY <2>1, <2>2, <2>5
  <1>7. \A k \in DOMAIN w : \E i \in DOMAIN w : p[i] = k
    <2> DEFINE n == Len(w)
    <2>1. n \in Nat /\ IsFiniteSet(1 .. n) /\ DOMAIN w = 1 .. n
      BY <1>4, FS_Interval
    <2> HIDE DEF n
    <2>2. p \in [1 .. n -> 1 .. n] /\ \A i, j \in 1 .. n : p[i] = p[j] => i = j
      BY <1>6, <2>1
    <2>3. p \in Injection(1 .. n, 1 .. n)
      BY <2>2 DEF Injection, IsInjective
    <2>4. p \in Surjection(1 .. n, 1 .. n)
      BY <2>1, <2>3, FS_Injection
    <2> QED
      BY <2>1, <2>4 DEF Surjection
  <1>8. PICK k \in DOMAIN work[Text] : work[Text][k].name = f /\ offset < work[Text][k].size[a]
    BY DEF InText
  <1>9. CASE Text # c0
    BY <1>5, <1>8, <1>9 DEF InText
  <1>10. CASE Text = c0
    <2>1. PICK i \in DOMAIN w : p[i] = k
      BY <1>7, <1>8, <1>10 DEF w
    <2>2. i \in DOMAIN work'[Text] /\ work'[Text][i] = work[Text][k]
      BY <1>5, <1>10, <2>1 DEF w
    <2> QED
      BY <1>8, <2>2 DEF InText
  <1> QED
    BY <1>9, <1>10

(* No step loses the code of a function.                                   *)
LEMMA CodeStep ==
  ASSUME IInv, AlignNext, Text \in Sections,
         NEW a \in Archs, NEW f, NEW offset \in Nat, HasCode(a, f, offset)
  PROVE  HasCode(a, f, offset)'
  <1>1. TypeOK
    BY DEF IInv
  <1>2. phase # "failed"
    BY DEF AlignNext, SkipBlacklisted, AlreadyReferenced, updateSymbolsList, Merging,
           orderSymbolList, align, AlignNextSection, OpenSection, LinkSymbol, CloseSection
  <1>3. InText(a, f, offset) \/ (phase = "collect" /\ ToMerge(a, f, offset))
    BY <1>2 DEF HasCode
  <1>4. CASE \E b \in Archs : pending[b] # << >> /\
               LET e == Head(pending[b])
               IN  SkipBlacklisted(b, e) \/ AlreadyReferenced(b, e) \/ updateSymbolsList(b, e)
    <2>1. PICK b \in Archs : \/ SkipBlacklisted(b, Head(pending[b]))
                             \/ AlreadyReferenced(b, Head(pending[b]))
                             \/ updateSymbolsList(b, Head(pending[b]))
      BY <1>4
    <2> DEFINE e == Head(pending[b])
    <2> HIDE DEF e
    <2>2. CASE SkipBlacklisted(b, e)
      <3>1. Merging(b, e) /\ e.blacklisted /\ work' = work /\ phase' = phase
        BY <2>2 DEF SkipBlacklisted
      <3>2. InText(a, f, offset)' <=> InText(a, f, offset)
        BY <3>1 DEF InText
      <3>3. ToMerge(a, f, offset) => ToMerge(a, f, offset)'
        BY <1>1, <3>1, StillToMerge
      <3> QED
        BY <1>3, <3>1, <3>2, <3>3 DEF HasCode
    <2>3. CASE AlreadyReferenced(b, e)
      BY <2>3 DEF AlreadyReferenced, HasCode
    <2>4. CASE updateSymbolsList(b, e)
      <3>1. Merging(b, e) /\ phase' = phase
        BY <2>4 DEF updateSymbolsList
      <3>2. /\ InText(a, f, offset) => InText(a, f, offset)'
            /\ a = b /\ e.name = f /\ e.section = Text /\ offset < e.size => InText(a, f, offset)'
        BY <2>4, MergedCode
      <3>3. ToMerge(a, f, offset) =>
              \/ ToMerge(a, f, offset)'
              \/ a = b /\ e.name = f /\ e.section = Text /\ ~e.blacklisted /\ offset < e.size
        BY <1>1, <3>1, StillToMerge
      <3> QED
        BY <1>3, <3>1, <3>2, <3>3 DEF HasCode
    <2> QED
      BY <2>1, <2>2, <2>3, <2>4 DEF e
  <1>5. CASE orderSymbolList
    <2>1. pending[a] = << >>
      BY <1>5 DEF orderSymbolList
    <2>2. ~ToMerge(a, f, offset)
      BY <2>1 DEF ToMerge
    <2>3. InText(a, f, offset)'
      BY <1>3, <1>5, <2>2, OrderedCode
    <2> QED
      BY <2>3 DEF HasCode
  <1>6. CASE align
    <2>1. phase # "collect"
      BY <1>6 DEF align
    <2>2. PICK k \in DOMAIN work[Text] : work[Text][k].name = f /\ offset < work[Text][k].size[a]
      BY <1>3, <2>1 DEF InText
    <2>3. /\ \A c \in Sections : DOMAIN work'[c] = DOMAIN work[c]
          /\ work'[section][cur.symbol] = AlignedSymbol(symbol, address)
          /\ symbol \in SymbolRecords
          /\ \A c \in Sections : \A i \in DOMAIN work[c] :
               c # section \/ i # cur.symbol => work'[c][i] = work[c][i]
      BY <1>6, AlignStep
    <2>4. AlignedSymbol(symbol, address).name = symbol.name
          /\ AlignedSymbol(symbol, address).size = symbol.size
      <3>1. PICK s \in SymbolRecords : s = symbol
        BY <2>3
      <3> QED
        BY <3>1 DEF SymbolRecords, AlignedSymbol
    <2>5. /\ k \in DOMAIN work'[Text] /\ work'[Text][k].name = work[Text][k].name
          /\ work'[Text][k].size = work[Text][k].size
      <3>1. CASE Text = section /\ k = cur.symbol
        BY <2>2, <2>3, <2>4, <3>1 DEF symbol
      <3>2. CASE ~(Text = section /\ k = cur.symbol)
        BY <2>2, <2>3, <3>2
      <3> QED
        BY <3>1, <3>2
    <2>6. InText(a, f, offset)'
      BY <2>2, <2>5 DEF InText
    <2> QED
      BY <2>6 DEF HasCode
  <1>7. CASE AlignNextSection \/ OpenSection \/ LinkSymbol \/ CloseSection
    <2>1. work' = work /\ phase # "collect"
      BY <1>7 DEF AlignNextSection, OpenSection, LinkSymbol, CloseSection
    <2>2. InText(a, f, offset)'
      BY <1>3, <2>1 DEF InText
    <2> QED
      BY <2>2 DEF HasCode
  <1> QED
    BY <1>4, <1>5, <1>6, <1>7 DEF AlignNext

-----------------------------------------------------------------------------
(* The build                                                               *)

FilesOK ==
  /\ Text \in Sections
  /\ objs \in [Archs -> Seq(ObjectRecords)]
  /\ \A a \in Archs : SavedOnce(objs[a]) /\ CallsDiffer(Recs(objs[a]))
  /\ \A a, b \in Archs : \A i \in DOMAIN Recs(objs[a]), j \in DOMAIN Recs(objs[b]) :
       Recs(objs[a])[i].call = Recs(objs[b])[j].call /\ Recs(objs[a])[i].id \in Special =>
         Recs(objs[a])[i].id = Recs(objs[b])[j].id

(* Every function with a call has its code.                                *)
CodeInv ==
  \A a \in Archs : \A i \in DOMAIN Recs(objs[a]) :
    HasCode(a, Recs(objs[a])[i].func, Recs(objs[a])[i].offset)

(* gen-stackinfo has run on the binary as it is.                           *)
BinInv ==
  /\ bin = [a \in Archs |-> bin[a]]
  /\ \A a \in Archs : \/ bin[a] = Unprocessed
                      \/ phase = "linked" /\ bin[a] = add_sections(a, objs[a], at[a])

BuildInv == IInv /\ FilesOK /\ CodeInv /\ BinInv

(* The records of the model are those of the proofs.                       *)
LEMMA RecordsAre == \A a : Records(a) = Recs(objs[a])
  BY DEF Records, Recs, RecsOf

(* A build begins with object files as the compiler emits them.            *)
LEMMA BuildInvInit == BuildInit => BuildInv
  <1> SUFFICES ASSUME BuildInit PROVE BuildInv
    OBVIOUS
  <1>1. AlignInit /\ MapFiles /\ ObjectFiles /\ bin = [a \in Archs |-> Unprocessed]
    BY DEF BuildInit, Started
  <1>2. IInv
    BY <1>1, InvInit
  <1>3. \A a \in Archs : Compiled(a)
    BY <1>1 DEF ObjectFiles
  <1>4. \A a \in Archs : SavedOnce(objs[a]) /\ CallsDiffer(Recs(objs[a]))
    <2> SUFFICES ASSUME NEW a \in Archs PROVE SavedOnce(objs[a]) /\ CallsDiffer(Recs(objs[a]))
      OBVIOUS
    <2>1. SavedOnce(objs[a])
      BY <1>3 DEF Compiled, SavedOnce
    <2>2. CallsDiffer(Records(a))
      BY <1>3 DEF Compiled, CallsDiffer
    <2> QED
      BY <2>1, <2>2, RecordsAre
  <1>5. FilesOK
    <2>1. Text \in Sections /\ objs \in [Archs -> Seq(ObjectRecords)]
      BY <1>1 DEF ObjectFiles, ObjectRecords
    <2>2. \A a, b \in Archs : \A i \in DOMAIN Records(a), j \in DOMAIN Records(b) :
       Records(a)[i].call = Records(b)[j].call /\ Records(a)[i].id \in Special =>
         Records(a)[i].id = Records(b)[j].id
      BY <1>1 DEF ObjectFiles
    <2> QED
      BY <1>4, <2>1, <2>2, RecordsAre, SMTT(30) DEF FilesOK
  <1>6. CodeInv
    <2> SUFFICES ASSUME NEW a \in Archs, NEW i \in DOMAIN Recs(objs[a])
                 PROVE  HasCode(a, Recs(objs[a])[i].func, Recs(objs[a])[i].offset)
      BY DEF CodeInv
    <2>1. i \in DOMAIN Records(a) /\ Recs(objs[a])[i] = Records(a)[i]
      BY RecordsAre
    <2>2. ToMerge(a, Records(a)[i].func, Records(a)[i].offset)
      BY <1>3, <2>1 DEF Compiled, ToMerge
    <2>3. phase = "collect"
      BY <1>1 DEF AlignInit
    <2> QED
      BY <2>1, <2>2, <2>3 DEF HasCode
  <1>7. BinInv
    BY <1>1 DEF BinInv
  <1> QED
    BY <1>2, <1>5, <1>6, <1>7 DEF BuildInv

(* Merging, ordering, aligning and linking lose no function with a call,   *)
(* and gen-stackinfo runs on binaries that no longer change.               *)
LEMMA BuildInvNext == BuildInv /\ [Next]_vars => BuildInv'
  <1> SUFFICES ASSUME BuildInv, [Next]_vars PROVE BuildInv'
    OBVIOUS
  <1>1. IInv /\ FilesOK /\ CodeInv /\ BinInv
    BY DEF BuildInv
  <1>2. objs' = objs
    BY DEF Next, Build, PostProcess, Done, vars
  <1>3. [AlignNext]_alignVars
    BY DEF Next, Build, PostProcess, Done, vars
  <1>4. IInv'
    BY <1>1, <1>3, InvNext
  <1>5. FilesOK'
    BY <1>1, <1>2 DEF FilesOK
  <1>6. CodeInv'
    <2> SUFFICES ASSUME NEW a \in Archs, NEW i \in DOMAIN Recs(objs[a])
                 PROVE  HasCode(a, Recs(objs[a])[i].func, Recs(objs[a])[i].offset)'
      BY <1>2 DEF CodeInv
    <2>1. PICK r \in CallRecords : r = Recs(objs[a])[i]
      <3>1. objs[a] \in Seq(ObjectRecords)
        BY <1>1 DEF FilesOK
      <3>2. Recs(objs[a]) \in Seq(CallRecords)
        BY <3>1, RecsFacts
      <3> QED
        BY <3>2
    <2>2. PICK f, offset : f = r.func /\ offset = r.offset /\ offset \in Nat
      BY <2>1 DEF CallRecords
    <2>3. HasCode(a, f, offset)
      BY <1>1, <2>1, <2>2 DEF CodeInv
    <2>4. CASE AlignNext
      <3>1. Text \in Sections
        BY <1>1 DEF FilesOK
      <3>2. HasCode(a, f, offset)'
        BY <1>1, <2>2, <2>3, <2>4, <3>1, CodeStep
      <3> QED
        BY <1>2, <2>1, <2>2, <3>2
    <2>5. CASE UNCHANGED alignVars
      <3>1. HasCode(a, f, offset)'
        BY <2>3, <2>5 DEF alignVars, HasCode, InText, ToMerge
      <3> QED
        BY <1>2, <2>1, <2>2, <3>1
    <2> QED
      BY <1>3, <2>4, <2>5
  <1>7. BinInv'
    <2>1. CASE Build
      <3>1. bin' = bin /\ AlignNext
        BY <2>1 DEF Build
      <3>2. phase # "linked"
        BY <3>1 DEF AlignNext, SkipBlacklisted, AlreadyReferenced, updateSymbolsList, Merging,
             orderSymbolList, align, AlignNextSection, OpenSection, LinkSymbol, CloseSection
      <3> QED
        BY <1>1, <3>1, <3>2 DEF BinInv
    <2>2. ASSUME NEW a \in Archs, PostProcess(a)
          PROVE  BinInv'
      <3>1. /\ phase = "linked" /\ phase' = phase /\ at' = at
            /\ bin' = [bin EXCEPT ![a] = add_sections(a, objs[a], at[a])]
        BY <2>2 DEF PostProcess, alignVars
      <3>2. /\ bin' = [c \in Archs |-> bin'[c]]
            /\ bin'[a] = add_sections(a, objs[a], at[a])
            /\ \A c \in Archs \ {a} : bin'[c] = bin[c]
        BY <1>1, <3>1 DEF BinInv
      <3> QED
        BY <1>1, <1>2, <3>1, <3>2 DEF BinInv
    <2>3. CASE UNCHANGED vars
      BY <1>1, <2>3 DEF BinInv, vars, alignVars
    <2>4. Done => UNCHANGED vars
      BY DEF Done
    <2> QED
      BY <2>1, <2>2, <2>3, <2>4 DEF Next
  <1> QED
    BY <1>4, <1>5, <1>6, <1>7 DEF BuildInv

(* In the binary of a the function of a call is where align planned it.    *)
LEMMA CodeAt ==
  ASSUME BuildInv, phase = "linked", NEW a \in Archs, NEW i \in DOMAIN Recs(objs[a])
  PROVE  \E k \in DOMAIN work[Text] :
           /\ work[Text][k].name = Recs(objs[a])[i].func
           /\ Recs(objs[a])[i].offset < work[Text][k].size[a]
           /\ a \in Referenced(work[Text][k])
           /\ at[a][Recs(objs[a])[i].func] = base[a][Text] + planned[Recs(objs[a])[i].func]
  <1>1. IInv /\ FilesOK /\ CodeInv /\ TypeOK /\ InPlace /\ Text \in Sections
    BY DEF BuildInv, IInv, FilesOK
  <1>2. PICK r \in CallRecords : r = Recs(objs[a])[i]
    <2>1. objs[a] \in Seq(ObjectRecords)
      BY <1>1 DEF FilesOK
    <2>2. Recs(objs[a]) \in Seq(CallRecords)
      BY <2>1, RecsFacts
    <2> QED
      BY <2>2
  <1>3. r.offset \in Nat
    BY <1>2 DEF CallRecords
  <1>4. HasCode(a, r.func, r.offset)
    BY <1>1, <1>2 DEF CodeInv
  <1>5. PICK k \in DOMAIN work[Text] :
          work[Text][k].name = r.func /\ r.offset < work[Text][k].size[a]
    BY <1>4 DEF HasCode, InText
  <1>6. PICK s \in SymbolRecords : s = work[Text][k]
    BY <1>1, <1>5, WorkFacts
  <1>7. s.size[a] \in Int
    BY <1>6 DEF SymbolRecords
  <1>8. a \in Referenced(s)
    BY <1>3, <1>5, <1>6, <1>7 DEF Referenced
  <1>9. PICK c \in SectionNumbers : Text = considered_sections[c]
    BY <1>1, SectionFacts
  <1>10. at[a][s.name] = base[a][Text] + planned[s.name]
    BY <1>1, <1>5, <1>6, <1>8, <1>9 DEF InPlace, Placed
  <1> QED
    BY <1>2, <1>5, <1>6, <1>8, <1>10

(* What is linked is a binary as the proofs about its tables need it.      *)
LEMMA BinaryIs ==
  ASSUME BuildInv, phase = "linked", NEW a \in Archs
  PROVE  Binary(objs[a], at[a])
  <1>1. IInv /\ FilesOK /\ TypeOK /\ Apart /\ WorkOK /\ Text \in Sections
    BY DEF BuildInv, IInv, FilesOK
  <1>2. objs[a] \in Seq(ObjectRecords) /\ SavedOnce(objs[a]) /\ at[a] \in [Symbols -> Int]
    BY <1>1 DEF FilesOK, TypeOK
  <1> DEFINE rs == Recs(objs[a])
  <1>3. rs \in Seq(CallRecords)
    BY <1>2, RecsFacts
  <1>4. PICK c \in SectionNumbers : Text = considered_sections[c]
    BY <1>1, SectionFacts
  <1>5. /\ DOMAIN work[Text] = 1 .. Len(work[Text]) /\ Len(work[Text]) \in Nat
        /\ \A k \in DOMAIN work[Text] : work[Text][k] \in SymbolRecords /\ SymbolOK(work[Text][k])
    BY <1>1, WorkFacts DEF WorkOK
  <1>6. ASSUME NEW i \in DOMAIN rs, NEW j \in DOMAIN rs,
               NEW k \in DOMAIN work[Text], NEW l \in DOMAIN work[Text], k < l,
               work[Text][k].name = rs[i].func, rs[i].offset < work[Text][k].size[a],
               work[Text][l].name = rs[j].func,
               at[a][rs[i].func] = base[a][Text] + planned[rs[i].func],
               at[a][rs[j].func] = base[a][Text] + planned[rs[j].func]
        PROVE  at[a][rs[i].func] + rs[i].offset < at[a][rs[j].func]
    <2>1. PICK s \in SymbolRecords : s = work[Text][k] /\ SymbolOK(s)
      BY <1>5
    <2>2. /\ Largest(s.size) \in Nat /\ s.size[a] \in Int /\ s.size[a] <= Largest(s.size)
      BY <2>1, SymbolFacts
    <2>3. rs[i] \in CallRecords /\ rs[j] \in CallRecords
      BY <1>3
    <2>4. rs[i].func \in Symbols /\ rs[j].func \in Symbols /\ rs[i].offset \in Nat
      BY <2>3 DEF CallRecords
    <2>5. PICK x \in Int : x = planned[rs[i].func]
      BY <1>1, <2>4 DEF TypeOK
    <2>6. PICK y \in Int : y = planned[rs[j].func]
      BY <1>1, <2>4 DEF TypeOK
    <2>7. PICK z \in Int : z = base[a][Text]
      BY <1>1 DEF TypeOK
    <2>8. End(Text, k) <= planned[work[Text][l].name]
      <3>1. Met(c, l)
        BY DEF Met
      <3> QED
        BY <1>1, <1>4, <1>6, <3>1 DEF Apart
    <2>9. End(Text, k) = x + Largest(s.size)
      <3>1. k # 0
        BY <1>5
      <3> QED
        BY <1>6, <2>1, <2>5, <3>1 DEF End
    <2>10. x + Largest(s.size) <= y
      BY <1>6, <2>6, <2>8, <2>9
    <2>11. at[a][rs[i].func] = z + x /\ at[a][rs[j].func] = z + y /\ rs[i].offset < s.size[a]
      BY <1>6, <2>1, <2>5, <2>6, <2>7
    <2> QED
      BY <2>2, <2>4, <2>10, <2>11
  <1>7. CodeApart(rs, at[a])
    <2> SUFFICES ASSUME NEW i \in DOMAIN rs, NEW j \in DOMAIN rs, rs[i].func # rs[j].func
                 PROVE  \/ at[a][rs[i].func] + rs[i].offset < at[a][rs[j].func]
                        \/ at[a][rs[j].func] + rs[j].offset < at[a][rs[i].func]
      BY DEF CodeApart
    <2>1. PICK k \in DOMAIN work[Text] :
            /\ work[Text][k].name = rs[i].func /\ rs[i].offset < work[Text][k].size[a]
            /\ at[a][rs[i].func] = base[a][Text] + planned[rs[i].func]
      BY CodeAt
    <2>2. PICK l \in DOMAIN work[Text] :
            /\ work[Text][l].name = rs[j].func /\ rs[j].offset < work[Text][l].size[a]
            /\ at[a][rs[j].func] = base[a][Text] + planned[rs[j].func]
      BY CodeAt
    <2>3. k \in Int /\ l \in Int /\ k # l
      BY <1>5, <2>1, <2>2
    <2>4. CASE k < l
      BY <1>6, <2>1, <2>2, <2>4
    <2>5. CASE l < k
      BY <1>6, <2>1, <2>2, <2>5
    <2> QED
      BY <2>3, <2>4, <2>5
  <1> QED
    BY <1>2, <1>7 DEF Binary

(* A binary that the runtime accepts is as gen-stackinfo wrote it.         *)
LEMMA ReadyIs ==
  ASSUME BuildInv, NEW a \in Archs, Ready(a)
  PROVE  /\ phase = "linked" /\ bin[a] = add_sections(a, objs[a], at[a])
         /\ add_sections(a, objs[a], at[a]).written
         /\ Binary(objs[a], at[a])
         /\ Records(a) = Recs(objs[a])
  <1>1. bin[a].written
    BY DEF Ready, st_init
  <1>2. bin[a] # Unprocessed
    BY <1>1 DEF Unprocessed
  <1>3. phase = "linked" /\ bin[a] = add_sections(a, objs[a], at[a])
    BY <1>2 DEF BuildInv, BinInv
  <1> QED
    BY <1>1, <1>3, BinaryIs, RecordsAre

(* The search for the function gives its address, which the layout made    *)
(* the same everywhere.                                                    *)
LEMMA EntryPointsAt == BuildInv => EntryPointsAgree
  <1> SUFFICES ASSUME BuildInv, NEW a \in Archs, Ready(a), SameBase(Text),
                      NEW i \in DOMAIN Records(a), NEW b \in Archs,
                      at[b][Records(a)[i].func] # -1
               PROVE  get_function_address(bin[a], RetAddr(a, Records(a)[i]))
                        = {at[b][Records(a)[i].func]}
    BY DEF EntryPointsAgree
  <1> DEFINE r == Records(a)[i]
             f == r.func
  <1>1. /\ phase = "linked" /\ bin[a] = add_sections(a, objs[a], at[a])
        /\ add_sections(a, objs[a], at[a]).written
        /\ Binary(objs[a], at[a])
        /\ Records(a) = Recs(objs[a])
    BY ReadyIs
  <1>2. get_function_address(bin[a], RetAddr(a, r)) = {at[a][f]}
    BY <1>1, FunctionAddress DEF RetAddr
  <1>3. at[a][f] = at[b][f]
    <2>1. PICK k \in DOMAIN work[Text] : work[Text][k].name = f /\ a \in Referenced(work[Text][k])
      BY <1>1, CodeAt
    <2>2. IInv /\ Text \in Sections
      BY DEF BuildInv, FilesOK
    <2>3. AtPlanned(Text) /\ AlignedAcrossArchs
      BY <1>1, <2>2, AlignedAtEnd DEF AlignedAcrossArchs
    <2>4. PICK c \in SectionNumbers : Text = considered_sections[c]
      BY <2>2, SectionFacts
    <2>5. b \in Referenced(work[Text][k])
      <3>1. InPlace
        BY <2>2 DEF IInv
      <3> QED
        BY <2>1, <2>4, <3>1 DEF InPlace
    <2>6. \A m \in Referenced(work[Text][k]), n \in Referenced(work[Text][k]) :
            at[m][work[Text][k].name] = at[n][work[Text][k].name]
      BY <1>1, <2>1, <2>2, <2>3 DEF AlignedAcrossArchs
    <2> QED
      BY <2>1, <2>5, <2>6
  <1> QED
    BY <1>2, <1>3

(* For every program: the function that the runtime finds for a return     *)
(* address of one binary is where that function is in every other one that *)
(* has it (util.c:176-235), so that a thread may enter it there            *)
(* (rewrite.c:116-119).                                                    *)
THEOREM EntryPointsSame == BuildSpec => []EntryPointsAgree
  BY BuildInvInit, BuildInvNext, EntryPointsAt, PTL DEF BuildSpec

(* Calls listed in one order get the same IDs.                             *)
LEMMA SameIds ==
  ASSUME NEW rs \in Seq(CallRecords), NEW qs \in Seq(CallRecords), Len(rs) = Len(qs),
         \A i \in DOMAIN rs : rs[i].id \in Special \/ qs[i].id \in Special => rs[i].id = qs[i].id
  PROVE  \A i \in DOMAIN rs : IdOf(rs, i) = IdOf(qs, i)
  <1>1. DOMAIN rs = DOMAIN qs
    <2>1. DOMAIN rs = 1 .. Len(rs) /\ DOMAIN qs = 1 .. Len(qs)
      OBVIOUS
    <2> QED
      BY <2>1
  <1>2. \A i \in DOMAIN rs : rs[i].id \in Special <=> qs[i].id \in Special
    OBVIOUS
  <1>3. Counted(rs) = Counted(qs)
    BY <1>1, <1>2 DEF Counted
  <1> QED
    BY <1>2, <1>3 DEF IdOf

(* The sites of a binary that the runtime accepts, by return address and   *)
(* by ID.                                                                  *)
LEMMA SitesAt ==
  ASSUME BuildInv, NEW a \in Archs, Ready(a)
  PROVE  /\ \A i \in DOMAIN Records(a) :
              /\ get_site_by_addr(bin[a], RetAddr(a, Records(a)[i]))
                   = {Sites(a, objs[a], at[a])[i]}
              /\ get_site_by_id(bin[a], IdOf(Records(a), i)) = {Sites(a, objs[a], at[a])[i]}
              /\ Site(a, Records(a)[i]) = Sites(a, objs[a], at[a])[i]
              /\ Sites(a, objs[a], at[a])[i].id = IdOf(Records(a), i)
              /\ Sites(a, objs[a], at[a])[i].addr = RetAddr(a, Records(a)[i])
         /\ \A n \in Int : (\A i \in DOMAIN Records(a) : RetAddr(a, Records(a)[i]) # n)
              => get_site_by_addr(bin[a], n) = {}
         /\ Records(a) \in Seq(CallRecords)
  <1>1. /\ phase = "linked" /\ bin[a] = add_sections(a, objs[a], at[a])
        /\ add_sections(a, objs[a], at[a]).written
        /\ Binary(objs[a], at[a])
        /\ Records(a) = Recs(objs[a])
    BY ReadyIs
  <1>2. CallsDiffer(Recs(objs[a])) /\ objs[a] \in Seq(ObjectRecords)
    BY DEF BuildInv, FilesOK
  <1> DEFINE b == add_sections(a, objs[a], at[a])
             rs == Recs(objs[a])
             s == Sites(a, objs[a], at[a])
             addr(i) == at[a][rs[i].func] + rs[i].offset
  <1>3. /\ \A i \in DOMAIN rs : /\ get_site_by_addr(b, addr(i)) = {s[i]}
                                /\ get_site_by_id(b, IdOf(rs, i)) = {s[i]}
        /\ \A n \in Int : (\A i \in DOMAIN rs : addr(i) # n) => get_site_by_addr(b, n) = {}
    BY <1>1, <1>2, SiteFound
  <1>4. \A i \in DOMAIN rs : s[i].id = IdOf(rs, i) /\ s[i].addr = addr(i)
    <2> SUFFICES ASSUME NEW i \in DOMAIN rs PROVE s[i].id = IdOf(rs, i) /\ s[i].addr = addr(i)
      OBVIOUS
    <2> QED
      BY <1>2, SiteFacts
  <1>5. \A i \in DOMAIN rs : RetAddr(a, rs[i]) = addr(i)
    BY DEF RetAddr
  <1>6. rs \in Seq(CallRecords)
    BY <1>2, RecsFacts
  <1> HIDE DEF b, rs, s, addr
  <1>7. bin[a] = b /\ Records(a) = rs
    BY <1>1 DEF b, rs
  <1>8. \A i \in DOMAIN rs : get_site_by_addr(bin[a], RetAddr(a, rs[i])) = {s[i]}
    BY <1>3, <1>5, <1>7
  <1>9. \A i \in DOMAIN rs : Site(a, rs[i]) = s[i]
    <2> SUFFICES ASSUME NEW i \in DOMAIN rs PROVE Site(a, rs[i]) = s[i]
      OBVIOUS
    <2>1. Site(a, rs[i]) = CHOOSE x \in {s[i]} : TRUE
      BY <1>8 DEF Site
    <2>2. (CHOOSE x \in {s[i]} : TRUE) \in {s[i]}
      OBVIOUS
    <2> QED
      BY <2>1, <2>2
  <1> QED
    BY <1>3, <1>4, <1>5, <1>6, <1>7, <1>8, <1>9 DEF s

(* Equal positions in the stack maps have equal IDs, and every ID and      *)
(* every address its own site.                                             *)
LEMMA SitesCorrespondAt == BuildInv => SitesCorrespond
  <1> SUFFICES ASSUME BuildInv, NEW a \in Archs, Ready(a)
               PROVE  /\ \A i \in DOMAIN Records(a) :
                           {s.addr : s \in get_site_by_addr(bin[a], RetAddr(a, Records(a)[i]))}
                             = {RetAddr(a, Records(a)[i])}
                      /\ \A n \in (0..(dot[a] + 1))
                                  \ {RetAddr(a, Records(a)[i]) : i \in DOMAIN Records(a)} :
                           get_site_by_addr(bin[a], n) = {}
                      /\ \A b \in Archs : Ready(b) /\ SameOrder =>
                           \A i \in DOMAIN Records(a) :
                             \E d \in get_site_by_id(bin[b], Site(a, Records(a)[i]).id) :
                               d.addr = RetAddr(b, Records(b)[i])
    BY DEF SitesCorrespond
  <1> DEFINE s(c) == Sites(c, objs[c], at[c])
  <1>1. ASSUME NEW c \in Archs, Ready(c)
        PROVE  /\ \A i \in DOMAIN Records(c) :
                    /\ get_site_by_addr(bin[c], RetAddr(c, Records(c)[i])) = {s(c)[i]}
                    /\ get_site_by_id(bin[c], IdOf(Records(c), i)) = {s(c)[i]}
                    /\ Site(c, Records(c)[i]) = s(c)[i]
                    /\ s(c)[i].id = IdOf(Records(c), i)
                    /\ s(c)[i].addr = RetAddr(c, Records(c)[i])
               /\ \A n \in Int : (\A i \in DOMAIN Records(c) : RetAddr(c, Records(c)[i]) # n)
                    => get_site_by_addr(bin[c], n) = {}
               /\ Records(c) \in Seq(CallRecords)
    BY <1>1, SitesAt
  <1> HIDE DEF s
  <1>2. ASSUME NEW i \in DOMAIN Records(a)
        PROVE  {x.addr : x \in get_site_by_addr(bin[a], RetAddr(a, Records(a)[i]))}
                 = {RetAddr(a, Records(a)[i])}
    <2>1. /\ get_site_by_addr(bin[a], RetAddr(a, Records(a)[i])) = {s(a)[i]}
          /\ s(a)[i].addr = RetAddr(a, Records(a)[i])
      BY <1>1
    <2> QED
      BY <2>1
  <1>3. ASSUME NEW n \in (0..(dot[a] + 1))
                           \ {RetAddr(a, Records(a)[i]) : i \in DOMAIN Records(a)}
        PROVE  get_site_by_addr(bin[a], n) = {}
    <2>1. n \in Int /\ \A i \in DOMAIN Records(a) : RetAddr(a, Records(a)[i]) # n
      BY <1>3
    <2> QED
      BY <1>1, <2>1
  <1>4. ASSUME NEW b \in Archs, Ready(b), SameOrder, NEW i \in DOMAIN Records(a)
        PROVE  \E d \in get_site_by_id(bin[b], Site(a, Records(a)[i]).id) :
                 d.addr = RetAddr(b, Records(b)[i])
    <2>1. Records(a) \in Seq(CallRecords) /\ Records(b) \in Seq(CallRecords)
      BY <1>1, <1>4
    <2>2. Len(Records(a)) = Len(Records(b))
          /\ \A j \in DOMAIN Records(a) : Records(a)[j].call = Records(b)[j].call
      BY <1>4 DEF SameOrder
    <2>3. DOMAIN Records(a) = DOMAIN Records(b)
      <3>1. DOMAIN Records(a) = 1 .. Len(Records(a)) /\ DOMAIN Records(b) = 1 .. Len(Records(b))
        BY <2>1
      <3> QED
        BY <2>2, <3>1
    <2>4. ASSUME NEW j \in DOMAIN Records(a),
                 Records(a)[j].id \in Special \/ Records(b)[j].id \in Special
          PROVE  Records(a)[j].id = Records(b)[j].id
      <3>1. \A c, d \in Archs : \A k \in DOMAIN Records(c), l \in DOMAIN Records(d) :
              Records(c)[k].call = Records(d)[l].call /\ Records(c)[k].id \in Special =>
                Records(c)[k].id = Records(d)[l].id
        BY RecordsAre DEF BuildInv, FilesOK
      <3>2. j \in DOMAIN Records(b) /\ Records(a)[j].call = Records(b)[j].call
        BY <2>2, <2>3
      <3>3. CASE Records(a)[j].id \in Special
        BY <3>1, <3>2, <3>3
      <3>4. CASE Records(b)[j].id \in Special
        BY <3>1, <3>2, <3>4
      <3> QED
        BY <2>4, <3>3, <3>4
    <2>5. IdOf(Records(a), i) = IdOf(Records(b), i)
      BY <2>1, <2>2, <2>4, SameIds
    <2>6. Site(a, Records(a)[i]).id = IdOf(Records(a), i)
      BY <1>1
    <2>7. i \in DOMAIN Records(b)
      BY <2>3
    <2>8. get_site_by_id(bin[b], IdOf(Records(b), i)) = {s(b)[i]}
          /\ s(b)[i].addr = RetAddr(b, Records(b)[i])
      BY <1>1, <1>4, <2>7
    <2> QED
      BY <2>5, <2>6, <2>8
  <1> QED
    BY <1>2, <1>3, <1>4

(* For every program: the binary searches of the runtime find the site of  *)
(* a return address, and none for any other address, and its ID leads to   *)
(* the same call in the other binaries when the calls are listed in one    *)
(* order (util.c:113-171, write.c:244-281, 313-321).                       *)
THEOREM CallsCorrespond == BuildSpec => []SitesCorrespond
  BY BuildInvInit, BuildInvNext, SitesCorrespondAt, PTL DEF BuildSpec

(* Nothing of another call is selected, in any state of a build.           *)
LEMMA OwnAt == BuildInv => SitesSelectTheirOwn
  <1> SUFFICES ASSUME BuildInv, NEW a \in Archs, Ready(a), NEW i \in DOMAIN Records(a)
               PROVE  LET r == Records(a)[i]
                          s == Site(a, r)
                          b == bin[a]
                      IN  /\ Slice(b.unwind_locs, s.unwind_offset, s.num_unwind)
                               = [k \in 1..r.num_unwind |-> <<r.func, k>>]
                          /\ Slice(b.live_vals, s.live_offset, s.num_live) = r.locs
                          /\ Slice(b.arch_live_vals, s.arch_live_offset, s.num_arch_live)
                               = [k \in 1..r.arch_live |-> r.call]
    BY DEF SitesSelectTheirOwn
  <1> DEFINE os == objs[a]
             t == at[a]
             rs == Recs(os)
             s == Site(a, Records(a)[i])
             b == bin[a]
  <1>1. b = add_sections(a, os, t) /\ b.written /\ Binary(os, t) /\ Records(a) = rs
    BY ReadyIs
  <1>2. i \in DOMAIN rs /\ os \in Seq(ObjectRecords) /\ rs \in Seq(CallRecords)
    <2>1. os \in Seq(ObjectRecords)
      BY <1>1 DEF Binary
    <2> QED
      BY <1>1, <2>1, RecsFacts
  <1>3. s = Sites(a, os, t)[i]
    BY SitesAt
  <1>4. Sites(a, os, t)[i] = CallSite(a, rs, i, t, Table(os, t))
    BY <1>2, SiteFacts
  <1>5. /\ b.unwind_locs = Linked(UnwindOf(os)) /\ b.live_vals = FlattenSeq(LocsOf(rs))
        /\ b.arch_live_vals = FlattenSeq(ArchLocsOf(rs))
    <2>1. add_sections(a, os, t).written
      BY <1>1
    <2> QED
      BY <1>1, <2>1, SectionsWritten
  <1> HIDE DEF os, t, rs, s, b
  <1>6. s = CallSite(a, rs, i, t, Table(os, t))
    BY <1>3, <1>4
  <1>7. Slice(Linked(UnwindOf(os)), s.unwind_offset, s.num_unwind)
          = [k \in 1 .. rs[i].num_unwind |-> <<rs[i].func, k>>]
    BY <1>1, <1>2, <1>6, UnwindOffset DEF rs
  <1>8. /\ Slice(FlattenSeq(LocsOf(rs)), s.live_offset, s.num_live) = rs[i].locs
        /\ Slice(FlattenSeq(ArchLocsOf(rs)), s.arch_live_offset, s.num_arch_live)
             = [k \in 1 .. rs[i].arch_live |-> rs[i].call]
    BY <1>2, <1>6, LiveOffsets
  <1> QED
    BY <1>1, <1>5, <1>7, <1>8 DEF s, b

(* For every program: the offsets of a call site select what the compiler  *)
(* emitted for that call and its function, although the compiler counted   *)
(* them per object file and gen-stackinfo sorts the functions by address   *)
(* after it has recomputed them (write.c:87-98, 244-281).                  *)
THEOREM OwnSelected == BuildSpec => []SitesSelectTheirOwn
  BY BuildInvInit, BuildInvNext, OwnAt, PTL DEF BuildSpec
=============================================================================
