----------------------------- MODULE KmpTeamProofs -----------------------------
(***************************************************************************)
(* What a team of libbomp's kmp interface computes, for any number of      *)
(* threads, any type and any loops: the shares partition the loop, the     *)
(* reduction has every iteration's contribution once behind the barrier,   *)
(* and threadprivate copies are kept.                                      *)
(*                                                                         *)
(* First, __kmpc_for_static_init divides a loop among a team: for every    *)
(* width of the induction variable, team, schedule, chunk size and         *)
(* increment the shares are disjoint and are together the loop, as long as *)
(* no bound or stride leaves the type (NoOverflow).                        *)
(*                                                                         *)
(* The argument is in iteration indices: iteration k of the loop is        *)
(* lower + k * incr, and At is one to one.  A thread's bounds are At of    *)
(* two indices (nothing wraps), so its share is At of a set of indices     *)
(* (Indices), cut at the last iteration of the loop.  That these sets      *)
(* partition 0 .. Trips - 1 is arithmetic of quotient and remainder.       *)
(***************************************************************************)
EXTENDS KmpTeam, TLAPS, FiniteSetTheorems, SequenceTheorems


(* Multiplying by what is not negative keeps the order.                    *)
LEMMA TimesMonotone ==
  ASSUME NEW a \in Int, NEW b \in Int, NEW j \in Nat, a <= b
  PROVE  a * j <= b * j
  OBVIOUS

(* What quotient and remainder are                                         *)
LEMMA Division ==
  ASSUME NEW d \in Int, NEW j \in Nat \ {0}
  PROVE  /\ d \div j \in Int /\ d % j \in 0 .. j - 1
         /\ d = (d \div j) * j + (d % j)
  OBVIOUS

(* ... and that nothing else is                                            *)
LEMMA DivisionUnique ==
  ASSUME NEW j \in Nat \ {0}, NEW q \in Int, NEW r \in 0 .. j - 1
  PROVE  (q * j + r) \div j = q /\ (q * j + r) % j = r
  <1> DEFINE d == q * j + r
             e == d \div j
  <1>1. d \in Int /\ e \in Int /\ d % j \in 0 .. j - 1 /\ d = e * j + (d % j)
    BY Division
  <1> HIDE DEF e
  <1>2. e <= q
    <2> SUFFICES ASSUME q + 1 <= e PROVE FALSE
      BY <1>1
    <2>1. (q + 1) * j <= e * j
      BY <1>1, TimesMonotone
    <2> QED
      BY <1>1, <2>1
  <1>3. q <= e
    <2> SUFFICES ASSUME e + 1 <= q PROVE FALSE
      BY <1>1
    <2>1. (e + 1) * j <= q * j
      BY <1>1, TimesMonotone
    <2> QED
      BY <1>1, <2>1
  <1>4. e = q
    BY <1>1, <1>2, <1>3
  <1> QED
    BY <1>1, <1>4 DEF e

(* The quotient is the greatest multiple that fits.                        *)
LEMMA DivisionFloor ==
  ASSUME NEW d \in Int, NEW j \in Nat \ {0}, NEW k \in Int
  PROVE  k * j <= d <=> k <= d \div j
  <1> DEFINE e == d \div j
  <1>1. e \in Int /\ d % j \in 0 .. j - 1 /\ d = e * j + (d % j)
    BY Division
  <1> HIDE DEF e
  <1>2. ASSUME k <= e PROVE k * j <= d
    <2>1. k * j <= e * j
      BY <1>1, <1>2, TimesMonotone
    <2> QED
      BY <1>1, <2>1
  <1>3. ASSUME ~(k <= e) PROVE ~(k * j <= d)
    <2>1. (e + 1) * j <= k * j
      BY <1>1, <1>3, TimesMonotone
    <2> QED
      BY <1>1, <2>1
  <1> QED
    BY <1>2, <1>3 DEF e

-----------------------------------------------------------------------------
(* In terms of the indices of a loop's iterations, 0 for the first.        *)

Trips(lp) ==
  IF lp.incr > 0 THEN (lp.upper - lp.lower) \div lp.incr + 1
                   ELSE (lp.lower - lp.upper) \div (-lp.incr) + 1

At(lp, k) == lp.lower + k * lp.incr

(* The bounds of the type of the induction variable are integers.          *)
LEMMA TypeBounds ==
  TypeMin \in Int /\ TypeMax \in Int
  BY WidthAssumption DEF TypeMin, TypeMax

(* The fields of a loop that runs at least once                            *)
LEMMA LoopFields ==
  ASSUME NEW lp, IsLoop(lp)
  PROVE  /\ lp.lower \in Int /\ lp.upper \in Int /\ lp.incr \in Int /\ lp.chunk \in Int
         /\ lp.lower \in TypeMin .. TypeMax /\ lp.upper \in TypeMin .. TypeMax
         /\ lp.incr # 0
         /\ lp.sched \in {Static, StaticChunked}
         /\ IF lp.incr > 0 THEN lp.lower <= lp.upper ELSE lp.upper <= lp.lower
  BY TypeBounds DEF IsLoop

(* An assignment to a variable of the type keeps a value of the type.      *)
LEMMA WrapIdentity ==
  ASSUME NEW x \in Int, TypeMin <= x, x <= TypeMax
  PROVE  Wrap(x) = x
  <1> DEFINE h == 2^(Width - 1)
             w == 2^Width
             r == x - TypeMin
  <1>1. h \in Nat \ {0} /\ w = 2 * h
    BY WidthAssumption
  <1>2. TypeMin = -h /\ TypeMax = h - 1
    BY DEF TypeMin, TypeMax
  <1> HIDE DEF h, w
  <1>3. r \in 0 .. w - 1 /\ w \in Nat \ {0}
    BY <1>1, <1>2
  <1>4. (0 * w + r) % w = r
    BY <1>3, DivisionUnique
  <1>5. r % w = r
    BY <1>3, <1>4
  <1> QED
    BY <1>1, <1>2, <1>5 DEF Wrap, w

(* Iterations come in the order of their indices, in the direction of the  *)
(* increment.                                                              *)
LEMMA AtOrder ==
  ASSUME NEW lp, IsLoop(lp), NEW k \in Int, NEW r \in Int
  PROVE  /\ At(lp, k) \in Int
         /\ At(lp, k) = At(lp, r) => k = r
         /\ k <= r <=> IF lp.incr > 0 THEN At(lp, k) <= At(lp, r)
                                        ELSE At(lp, r) <= At(lp, k)
  <1> DEFINE i == lp.incr
             l == lp.lower
  <1>1. i \in Int /\ i # 0 /\ l \in Int
    BY LoopFields
  <1> HIDE DEF i, l
  <1>2. ASSUME NEW a \in Int, NEW b \in Int, a < b
        PROVE  IF i > 0 THEN l + a * i < l + b * i ELSE l + b * i < l + a * i
    <2>1. CASE i > 0
      <3>1. (a + 1) * i <= b * i
        BY <1>1, <1>2, <2>1, TimesMonotone
      <3> QED
        BY <1>1, <2>1, <3>1
    <2>2. CASE ~(i > 0)
      <3>1. (a + 1) * (-i) <= b * (-i)
        BY <1>1, <1>2, <2>2, TimesMonotone
      <3> QED
        BY <1>1, <2>2, <3>1
    <2> QED
      BY <2>1, <2>2
  <1>3. l + k * i \in Int /\ l + r * i \in Int
    BY <1>1
  <1>4. k < r \/ k = r \/ r < k
    OBVIOUS
  <1> QED
    BY <1>1, <1>2, <1>3, <1>4 DEF At, i, l

(* A value is inside the loop exactly if its index is at most the last     *)
(* one.                                                                    *)
LEMMA InsideIndex ==
  ASSUME NEW lp, IsLoop(lp), NEW k \in Int
  PROVE  Inside(lp, At(lp, k)) <=> k <= Trips(lp) - 1
  <1> DEFINE i == lp.incr
             l == lp.lower
             u == lp.upper
  <1>1. i \in Int /\ i # 0 /\ l \in Int /\ u \in Int
    BY LoopFields
  <1>2. /\ i > 0 => (Inside(lp, At(lp, k)) <=> l + k * i <= u)
        /\ ~(i > 0) => (Inside(lp, At(lp, k)) <=> l + k * i >= u)
        /\ i > 0 => Trips(lp) = (u - l) \div i + 1
        /\ ~(i > 0) => Trips(lp) = (l - u) \div (-i) + 1
    BY DEF Inside, At, Trips
  <1> HIDE DEF i, l, u
  <1>3. CASE i > 0
    <2>1. (u - l) \div i \in Int /\ (k * i <= u - l <=> k <= (u - l) \div i)
      BY <1>1, <1>3, Division, DivisionFloor
    <2>2. k * i \in Int
      BY <1>1
    <2> QED
      BY <1>1, <1>2, <1>3, <2>1, <2>2
  <1>4. CASE ~(i > 0)
    <2>1. (l - u) \div (-i) \in Int /\ (k * (-i) <= l - u <=> k <= (l - u) \div (-i))
      BY <1>1, <1>4, Division, DivisionFloor
    <2>2. k * i \in Int /\ k * (-i) = -(k * i)
      BY <1>1
    <2> QED
      BY <1>1, <1>2, <1>4, <2>1, <2>2
  <1> QED
    BY <1>3, <1>4

(* Dividing what is not negative gives no more than it.                    *)
LEMMA QuotientBound ==
  ASSUME NEW d \in Nat, NEW j \in Nat \ {0}
  PROVE  d \div j \in 0 .. d /\ Quot(d, j) = d \div j
  <1>1. d \div j \in Int
    BY Division
  <1>2. 0 * j <= d
    OBVIOUS
  <1>3. 0 <= d \div j
    BY <1>2, DivisionFloor
  <1>4. (d \div j) * j <= d
    BY <1>1, DivisionFloor
  <1>5. ASSUME NEW q \in Nat, q * j <= d PROVE q <= d
    <2>1. 1 * q <= j * q
      BY TimesMonotone
    <2> QED
      BY <1>5, <2>1
  <1> QED
    BY <1>1, <1>3, <1>4, <1>5 DEF Quot

(* The trip count the code computes is the number of iterations.           *)
LEMMA TotalTrips ==
  ASSUME NEW lp, IsLoop(lp), NEW n \in Nat \ {0}, NoOverflow(n, lp)
  PROVE  Trips(lp) \in Nat \ {0} /\ total_trips(lp) = Trips(lp)
  <1> DEFINE i == lp.incr
             l == lp.lower
             u == lp.upper
  <1>1. i \in Int /\ i # 0 /\ l \in Int /\ u \in Int
    BY LoopFields
  <1>2. TypeMin \in Int /\ TypeMax \in Int /\ TypeMin <= -1
    BY WidthAssumption DEF TypeMin, TypeMax
  <1>3. u - l + 1 \in TypeMin .. TypeMax /\ l - u + 1 \in TypeMin .. TypeMax
    BY DEF NoOverflow
  <1>4. ASSUME NEW d \in Nat, NEW j \in Nat \ {0}, d + 1 \in TypeMin .. TypeMax
        PROVE  d \div j + 1 \in Nat \ {0} /\ Wrap(Quot(Wrap(d), j) + 1) = d \div j + 1
    <2>1. d \div j \in 0 .. d /\ Quot(d, j) = d \div j
      BY QuotientBound
    <2>2. Wrap(d) = d
      BY <1>2, <1>4, WrapIdentity
    <2>3. Wrap(d \div j + 1) = d \div j + 1
      BY <1>2, <1>4, <2>1, WrapIdentity
    <2> QED
      BY <2>1, <2>2, <2>3
  <1>5. CASE i > 0
    <2>1. u - l \in Nat /\ i \in Nat \ {0}
      BY <1>1, <1>5, LoopFields
    <2> QED
      BY <1>1, <1>3, <1>4, <1>5, <2>1 DEF Trips, total_trips
  <1>6. CASE ~(i > 0)
    <2>1. l - u \in Nat /\ -i \in Nat \ {0}
      BY <1>1, <1>6, LoopFields
    <2> QED
      BY <1>1, <1>3, <1>4, <1>6, <2>1 DEF Trips, total_trips
  <1> QED
    BY <1>5, <1>6

(* What lies between two bounds is reached from the first in steps of the  *)
(* increment.                                                              *)
LEMMA BetweenSteps ==
  ASSUME NEW a \in Int, NEW b \in Int, NEW i \in Int, i # 0, NEW iv
  PROVE  iv \in Between(a, b, i) <=>
           \E k \in Nat : iv = a + k * i /\ IF i > 0 THEN iv <= b ELSE b <= iv
  <1>1. ASSUME NEW j \in Nat \ {0}, NEW d \in Nat
        PROVE  d % j = 0 <=> \E k \in Nat : d = k * j
    <2>1. ASSUME d % j = 0 PROVE \E k \in Nat : d = k * j
      <3>1. d \div j \in Nat /\ d = (d \div j) * j
        BY <2>1, Division, QuotientBound
      <3> QED
        BY <3>1
    <2>2. ASSUME NEW k \in Nat, d = k * j PROVE d % j = 0
      <3>1. (k * j + 0) % j = 0
        BY DivisionUnique
      <3> QED
        BY <2>2, <3>1
    <2> QED
      BY <2>1, <2>2
  <1>2. CASE i > 0
    <2>1. ASSUME iv \in a .. b, (iv - a) % i = 0
          PROVE  \E k \in Nat : iv = a + k * i /\ iv <= b
      <3>1. PICK d \in Nat : d = iv - a
        BY <2>1
      <3>2. d % i = 0 /\ i \in Nat \ {0}
        BY <1>2, <2>1, <3>1
      <3>3. PICK k \in Nat : d = k * i
        BY <1>1, <3>2
      <3> QED
        BY <2>1, <3>1, <3>3
    <2>2. ASSUME NEW k \in Nat, iv = a + k * i, iv <= b
          PROVE  iv \in a .. b /\ (iv - a) % i = 0
      <3>1. PICK d \in Nat : d = k * i
        BY <1>2
      <3>2. d % i = 0
        BY <1>1, <1>2, <3>1
      <3> QED
        BY <2>2, <3>1, <3>2
    <2> QED
      BY <1>2, <2>1, <2>2 DEF Between
  <1>3. CASE ~(i > 0)
    <2>1. ASSUME iv \in b .. a, (a - iv) % (-i) = 0
          PROVE  \E k \in Nat : iv = a + k * i /\ b <= iv
      <3>1. PICK d \in Nat : d = a - iv
        BY <2>1
      <3>2. d % (-i) = 0 /\ -i \in Nat \ {0}
        BY <1>3, <2>1, <3>1
      <3>3. PICK k \in Nat : d = k * (-i)
        BY <1>1, <3>2
      <3> QED
        BY <2>1, <3>1, <3>3
    <2>2. ASSUME NEW k \in Nat, iv = a + k * i, b <= iv
          PROVE  iv \in b .. a /\ (a - iv) % (-i) = 0
      <3>1. PICK d \in Nat : d = k * (-i)
        BY <1>3
      <3>2. d % (-i) = 0
        BY <1>1, <1>3, <3>1
      <3> QED
        BY <2>2, <3>1, <3>2
    <2> QED
      BY <1>3, <2>1, <2>2 DEF Between
  <1> QED
    BY <1>2, <1>3

Least(r, k) == IF r <= k THEN r ELSE k

(* A piece of a loop, given by the indices of its bounds, is cut at the    *)
(* last iteration of the loop.                                             *)
LEMMA PieceIndices ==
  ASSUME NEW lp, IsLoop(lp), Trips(lp) \in Nat, NEW p \in Int, NEW r \in Int
  PROVE  Piece(lp, At(lp, p), At(lp, r)) =
           {At(lp, k) : k \in p .. Least(r, Trips(lp) - 1)}
  <1> DEFINE b == IF Inside(lp, At(lp, r)) THEN At(lp, r) ELSE lp.upper
             i == lp.incr
  <1>1. i \in Int /\ i # 0 /\ lp.lower \in Int /\ b \in Int /\ At(lp, p) \in Int
    BY LoopFields, AtOrder
  <1>2. ASSUME NEW k \in Int
        PROVE  (IF i > 0 THEN At(lp, k) <= b ELSE b <= At(lp, k))
                 <=> k <= Least(r, Trips(lp) - 1)
    <2>1. CASE Inside(lp, At(lp, r))
      <3>1. b = At(lp, r) /\ Least(r, Trips(lp) - 1) = r
        BY <2>1, InsideIndex DEF Least
      <3> QED
        BY <3>1, AtOrder
    <2>2. CASE ~Inside(lp, At(lp, r))
      <3>1. b = lp.upper /\ Least(r, Trips(lp) - 1) = Trips(lp) - 1
        BY <2>2, InsideIndex DEF Least
      <3>2. Inside(lp, At(lp, k)) <=> k <= Trips(lp) - 1
        BY InsideIndex
      <3> QED
        BY <1>1, <3>1, <3>2, AtOrder DEF Inside
    <2> QED
      BY <2>1, <2>2
  <1>3. ASSUME NEW k \in Int
        PROVE  At(lp, p) + k * i = At(lp, p + k)
    <2>1. ASSUME NEW l \in Int, NEW j \in Int
          PROVE  l + p * j + k * j = l + (p + k) * j
      OBVIOUS
    <2> QED
      BY <1>1, <2>1 DEF At
  <1>4. Least(r, Trips(lp) - 1) \in Int
    BY DEF Least
  <1>5. Piece(lp, At(lp, p), At(lp, r)) = Between(At(lp, p), b, i)
    BY DEF Piece
  <1> HIDE DEF b, i
  <1>6. ASSUME NEW iv \in Between(At(lp, p), b, i)
        PROVE  iv \in {At(lp, k) : k \in p .. Least(r, Trips(lp) - 1)}
    <2>1. PICK k \in Nat : iv = At(lp, p) + k * i /\ IF i > 0 THEN iv <= b ELSE b <= iv
      BY <1>1, BetweenSteps
    <2>2. PICK h \in Int : h = p + k
      OBVIOUS
    <2>3. iv = At(lp, h)
      BY <1>3, <2>1, <2>2
    <2>4. h \in p .. Least(r, Trips(lp) - 1)
      BY <1>2, <1>4, <2>1, <2>2, <2>3
    <2> QED
      BY <2>3, <2>4
  <1>7. ASSUME NEW h \in p .. Least(r, Trips(lp) - 1)
        PROVE  At(lp, h) \in Between(At(lp, p), b, i)
    <2>1. PICK k \in Nat : h = p + k
      BY <1>4, h - p \in Nat
    <2>2. h \in Int /\ h <= Least(r, Trips(lp) - 1)
      BY <1>4
    <2>3. At(lp, h) = At(lp, p) + k * i
      BY <1>3, <2>1
    <2>4. IF i > 0 THEN At(lp, h) <= b ELSE b <= At(lp, h)
      BY <1>2, <2>2
    <2> QED
      BY <1>1, <2>3, <2>4, BetweenSteps
  <1> QED
    BY <1>5, <1>6, <1>7

(* The iterations of the loop are those with an index below the trip       *)
(* count.                                                                  *)
LEMMA IterationIndices ==
  ASSUME NEW lp, IsLoop(lp), Trips(lp) \in Nat
  PROVE  Iterations(lp) = {At(lp, k) : k \in 0 .. Trips(lp) - 1}
  <1>1. At(lp, 0) = lp.lower
    BY LoopFields DEF At
  <1>2. PICK r \in Int : r = Trips(lp)
    OBVIOUS
  <1>3. ~Inside(lp, At(lp, r)) /\ Least(r, Trips(lp) - 1) = Trips(lp) - 1
    BY <1>2, InsideIndex DEF Least
  <1>4. Piece(lp, At(lp, 0), At(lp, r)) = Iterations(lp)
    BY <1>1, <1>3 DEF Piece, Iterations
  <1> QED
    BY <1>3, <1>4, PieceIndices

-----------------------------------------------------------------------------
(* No bound of a share wraps around.                                       *)

Chunk(lp) == IF lp.chunk < 1 THEN 1 ELSE lp.chunk

InType(x) == TypeMin <= x /\ x <= TypeMax

(* What lies between two values of the type has the type.                  *)
LEMMA AtInType ==
  ASSUME NEW lp, IsLoop(lp), NEW h \in Nat, InType(At(lp, h)), NEW k \in 0 .. h
  PROVE  At(lp, k) \in Int /\ InType(At(lp, k))
  <1>1. At(lp, 0) = lp.lower /\ lp.lower \in TypeMin .. TypeMax
    BY LoopFields DEF At
  <1>2. /\ At(lp, 0) \in Int /\ At(lp, k) \in Int /\ At(lp, h) \in Int
        /\ IF lp.incr > 0 THEN At(lp, 0) <= At(lp, k) /\ At(lp, k) <= At(lp, h)
                            ELSE At(lp, k) <= At(lp, 0) /\ At(lp, h) <= At(lp, k)
    BY AtOrder
  <1> QED
    BY <1>1, <1>2, TypeBounds DEF InType

(* Every iteration of the loop has the type of its variable.               *)
LEMMA IterationsInType ==
  ASSUME NEW lp, IsLoop(lp), Trips(lp) \in Nat, NEW k \in 0 .. Trips(lp) - 1
  PROVE  At(lp, k) \in Int /\ InType(At(lp, k))
  <1>1. PICK h \in Nat : h = Trips(lp) - 1
    OBVIOUS
  <1>2. Inside(lp, At(lp, h))
    BY <1>1, InsideIndex
  <1>3. /\ At(lp, 0) = lp.lower /\ lp.incr \in Int
        /\ lp.lower \in TypeMin .. TypeMax /\ lp.upper \in TypeMin .. TypeMax
    BY LoopFields DEF At
  <1>4. /\ At(lp, 0) \in Int /\ At(lp, h) \in Int
        /\ IF lp.incr > 0 THEN At(lp, 0) <= At(lp, h) ELSE At(lp, h) <= At(lp, 0)
    BY AtOrder
  <1>5. InType(At(lp, h))
    BY <1>2, <1>3, <1>4, TypeBounds DEF Inside, InType
  <1> QED
    BY <1>1, <1>5, AtInType

(* The bounds of the chunks of one round, and the stride to the next one   *)
LEMMA ChunksInType ==
  ASSUME NEW lp, IsLoop(lp), NEW n \in Nat \ {0}, NoOverflow(n, lp)
  PROVE  LET c == Chunk(lp)
         IN  /\ c \in Nat \ {0}
             /\ \A k \in 0 .. c * n : At(lp, k) \in Int /\ InType(At(lp, k))
             /\ c * lp.incr * n \in Int /\ InType(c * lp.incr * n) /\ c * lp.incr * n # 0
             /\ lp.upper + lp.incr \in Int /\ InType(lp.upper + lp.incr)
  <1> DEFINE c == Chunk(lp)
             i == lp.incr
             l == lp.lower
             u == lp.upper
             reach == i * n * c
  <1>1. /\ i \in Int /\ i # 0 /\ l \in Int /\ u \in Int /\ c \in Nat \ {0}
        /\ l \in TypeMin .. TypeMax /\ u \in TypeMin .. TypeMax
        /\ IF i > 0 THEN l <= u ELSE u <= l
    BY LoopFields DEF Chunk
  <1>2. reach \in TypeMin .. TypeMax /\ u + reach \in TypeMin .. TypeMax
    BY DEF NoOverflow, Chunk
  <1>3. \A k \in Int : At(lp, k) = l + k * i
    BY DEF At
  <1> HIDE DEF c, i, l, u
  <1>4. PICK h \in Nat \ {0} : h = c * n
    <2>1. 1 * 1 <= c * 1 /\ c * 1 <= c * n
      BY <1>1, TimesMonotone
    <2> QED
      BY <1>1, <2>1
  <1>5. reach \in Int /\ reach = h * i /\ c * i * n = reach
    BY <1>1, <1>4
  <1>6. IF i > 0 THEN i <= reach ELSE reach <= i
    <2>1. CASE i > 0
      <3>1. 1 * i <= h * i
        BY <1>1, <2>1, TimesMonotone
      <3> QED
        BY <1>1, <1>5, <3>1
    <2>2. CASE ~(i > 0)
      <3>1. 1 * (-i) <= h * (-i)
        BY <1>1, <2>2, TimesMonotone
      <3> QED
        BY <1>1, <1>5, <2>2, <3>1
    <2> QED
      BY <2>1, <2>2
  <1> HIDE DEF reach
  <1>7. At(lp, h) = l + reach
    BY <1>3, <1>5
  <1>8. InType(At(lp, h)) /\ u + i \in Int /\ InType(u + i)
    BY <1>1, <1>2, <1>5, <1>6, <1>7, TypeBounds DEF InType
  <1>9. InType(reach) /\ reach # 0
    BY <1>1, <1>2, <1>5, <1>6, TypeBounds DEF InType
  <1>10. \A k \in 0 .. h : At(lp, k) \in Int /\ InType(At(lp, k))
    BY <1>8, AtInType
  <1> QED
    BY <1>1, <1>4, <1>5, <1>8, <1>9, <1>10 DEF c, i, u

-----------------------------------------------------------------------------
(* The shares in terms of indices                                          *)

(* The number of iterations of the threads before g                        *)
Before(g, n, trips) ==
  g * (trips \div n) + (IF g < (trips % n) THEN g ELSE (trips % n))

Indices(g, n, lp) ==
  {k \in 0 .. Trips(lp) - 1 :
     IF lp.sched = StaticChunked THEN (k \div Chunk(lp)) % n = g
     ELSE IF Trips(lp) < n THEN k = g
     ELSE Before(g, n, Trips(lp)) <= k /\ k < Before(g + 1, n, Trips(lp))}

(* Fewer iterations than threads: thread g runs iteration g, if there is   *)
(* one.                                                                    *)
LEMMA FewShare ==
  ASSUME NEW lp, IsLoop(lp), NEW n \in Nat \ {0}, NoOverflow(n, lp), NEW g \in Nat,
         lp.sched = Static, Trips(lp) < n
  PROVE  Share(lp, for_static_init(g, n, lp)) = {At(lp, k) : k \in Indices(g, n, lp)}
  <1> DEFINE s == FewTrips(g, lp)
  <1>1. Trips(lp) \in Nat \ {0} /\ total_trips(lp) = Trips(lp)
    BY TotalTrips
  <1>2. for_static_init(g, n, lp) = s
    BY <1>1 DEF for_static_init, Static, StaticChunked
  <1>3. Share(lp, s) = Piece(lp, s.lower, s.upper)
    BY DEF Share, FewTrips
  <1>4. Indices(g, n, lp) = {k \in 0 .. Trips(lp) - 1 : k = g}
    BY DEF Indices, Static, StaticChunked
  <1>5. CASE g < Trips(lp)
    <2>1. At(lp, g) \in Int /\ InType(At(lp, g))
      BY <1>1, <1>5, IterationsInType
    <2>2. s.lower = At(lp, g) /\ s.upper = At(lp, g)
      BY <1>1, <1>5, <2>1, WrapIdentity DEF FewTrips, At, InType
    <2>3. Piece(lp, At(lp, g), At(lp, g)) = {At(lp, k) : k \in g .. g}
      BY <1>1, <1>5, PieceIndices DEF Least
    <2>4. g .. g = {k \in 0 .. Trips(lp) - 1 : k = g}
      BY <1>1, <1>5
    <2> QED
      BY <1>2, <1>3, <1>4, <2>2, <2>3, <2>4
  <1>6. CASE ~(g < Trips(lp))
    <2>1. lp.upper + lp.incr \in Int /\ InType(lp.upper + lp.incr)
      BY ChunksInType
    <2>2. s.lower = lp.upper + lp.incr /\ s.upper = lp.upper
      BY <1>1, <1>6, <2>1, WrapIdentity DEF FewTrips, InType
    <2>3. Between(lp.upper + lp.incr, lp.upper, lp.incr) = {}
      BY LoopFields DEF Between
    <2>4. Piece(lp, s.lower, s.upper) = {}
      BY <2>2, <2>3 DEF Piece
    <2>5. {k \in 0 .. Trips(lp) - 1 : k = g} = {}
      BY <1>1, <1>6
    <2> QED
      BY <1>2, <1>3, <1>4, <2>4, <2>5
  <1> QED
    BY <1>5, <1>6

(* The blocks of the threads begin where the one before ends, at 0 and up  *)
(* to the trip count.                                                      *)
LEMMA BeforeBounds ==
  ASSUME NEW n \in Nat \ {0}, NEW trips \in Nat, n <= trips
  PROVE  /\ trips \div n \in Nat \ {0} /\ trips % n \in 0 .. n - 1
         /\ \A g \in Nat : Before(g, n, trips) \in Nat
         /\ Before(0, n, trips) = 0 /\ Before(n, n, trips) = trips
         /\ \A g, h \in Nat : g <= h => Before(g, n, trips) <= Before(h, n, trips)
         /\ \A g \in Nat : Before(g + 1, n, trips) =
              Before(g, n, trips) + (trips \div n) + (IF g < (trips % n) THEN 1 ELSE 0)
  <1> DEFINE q == trips \div n
             e == trips % n
  <1>1. e \in 0 .. n - 1 /\ trips = q * n + e
    BY Division
  <1>2. q \in Nat \ {0}
    BY DivisionFloor, QuotientBound, 1 * n <= trips
  <1>3. \A g : Before(g, n, trips) = g * q + (IF g < e THEN g ELSE e)
    BY DEF Before
  <1> HIDE DEF q, e
  <1>4. \A g \in Nat : Before(g, n, trips) \in Nat
    <2> TAKE g \in Nat
    <2>1. g * q \in Nat
      BY <1>2
    <2> QED
      BY <1>1, <1>3, <2>1
  <1>5. Before(0, n, trips) = 0 /\ Before(n, n, trips) = trips
    <2>1. n * q = q * n /\ 0 * q = 0
      BY <1>2
    <2> QED
      BY <1>1, <1>2, <1>3, <2>1
  <1>6. ASSUME NEW g \in Nat, NEW h \in Nat, g <= h
        PROVE  Before(g, n, trips) <= Before(h, n, trips)
    <2>1. g * q <= h * q /\ g * q \in Nat /\ h * q \in Nat
      BY <1>2, <1>6, TimesMonotone
    <2>2. PICK x \in Nat, y \in Nat : x = g * q /\ y = h * q /\ x <= y
      BY <2>1
    <2>3. /\ Before(g, n, trips) = x + (IF g < e THEN g ELSE e)
          /\ Before(h, n, trips) = y + (IF h < e THEN h ELSE e)
      BY <1>3, <2>2
    <2> QED
      BY <1>1, <1>6, <2>2, <2>3
  <1>7. ASSUME NEW g \in Nat
        PROVE  Before(g + 1, n, trips) = Before(g, n, trips) + q + (IF g < e THEN 1 ELSE 0)
    <2>1. PICK x \in Nat : x = g * q /\ (g + 1) * q = x + q
      BY <1>2
    <2>2. /\ Before(g, n, trips) = x + (IF g < e THEN g ELSE e)
          /\ Before(g + 1, n, trips) = x + q + (IF g + 1 < e THEN g + 1 ELSE e)
      BY <1>3, <2>1
    <2> QED
      BY <1>1, <1>2, <2>2
  <1> QED
    BY <1>1, <1>2, <1>4, <1>5, <1>6, <1>7 DEF q, e

(* No chunk size: the threads run consecutive blocks of the loop.          *)
LEMMA ManyShare ==
  ASSUME NEW lp, IsLoop(lp), NEW n \in Nat \ {0}, NoOverflow(n, lp), NEW g \in 0 .. n - 1,
         lp.sched = Static, n <= Trips(lp)
  PROVE  Share(lp, for_static_init(g, n, lp)) = {At(lp, k) : k \in Indices(g, n, lp)}
  <1> DEFINE s == ManyTrips(g, n, lp)
             q == Trips(lp) \div n
             e == Trips(lp) % n
             b == Before(g, n, Trips(lp))
             d == Before(g + 1, n, Trips(lp))
             i == lp.incr
             l == lp.lower
  <1>1. Trips(lp) \in Nat \ {0} /\ total_trips(lp) = Trips(lp)
    BY TotalTrips
  <1>2. for_static_init(g, n, lp) = s
    BY <1>1 DEF for_static_init, Static, StaticChunked
  <1>3. Share(lp, s) = Piece(lp, s.lower, s.upper)
    BY DEF Share, ManyTrips
  <1>4. i \in Int /\ l \in Int
    BY LoopFields
  <1>5. /\ b \in Nat /\ d \in Nat /\ q \in Nat \ {0}
        /\ d = b + q + (IF g < e THEN 1 ELSE 0)
        /\ d <= Trips(lp)
    <2>1. PICK h \in Nat : h = g + 1
      OBVIOUS
    <2>2. /\ q \in Nat \ {0}
          /\ \A x \in Nat : Before(x, n, Trips(lp)) \in Nat
          /\ \A x \in Nat : Before(x + 1, n, Trips(lp)) =
               Before(x, n, Trips(lp)) + q + (IF x < e THEN 1 ELSE 0)
      BY <1>1, BeforeBounds
    <2>3. Before(h, n, Trips(lp)) <= Before(n, n, Trips(lp))
      BY <1>1, <2>1, BeforeBounds
    <2>4. Before(n, n, Trips(lp)) = Trips(lp)
      BY <1>1, BeforeBounds
    <2> HIDE DEF q, e
    <2>5. g \in Nat /\ d = Before(h, n, Trips(lp))
      BY <2>1
    <2> QED
      BY <2>2, <2>3, <2>4, <2>5
  <1>6. At(lp, b) \in Int /\ InType(At(lp, b)) /\ At(lp, d - 1) \in Int /\ InType(At(lp, d - 1))
    BY <1>1, <1>5, IterationsInType
  <1>7. s.lower = At(lp, b)
    <2>1. s.lower = Wrap(l + i * b)
      BY <1>1 DEF ManyTrips, Before
    <2>2. l + i * b = At(lp, b)
      BY <1>4, <1>5 DEF At
    <2> QED
      BY <1>6, <2>1, <2>2, WrapIdentity DEF InType
  <1>8. s.upper = At(lp, d - 1)
    <2>1. s.upper = Wrap(s.lower + q * i - (IF g < e THEN 0 ELSE i))
      BY <1>1 DEF ManyTrips
    <2>2. At(lp, b) = l + b * i /\ At(lp, d - 1) = l + (d - 1) * i
      BY DEF At
    <2>a. i \in Int /\ l \in Int
      BY <1>4
    <2>b. b \in Int /\ q \in Int /\ d \in Int
      BY <1>4, <1>5
    <2> HIDE DEF q, e, b, d, i, l
    <2>3. PICK I \in Int, L \in Int, B \in Int, Q \in Int, D \in Int :
            I = i /\ L = l /\ B = b /\ Q = q /\ D = d
      BY <2>a, <2>b
    <2>4. D = B + Q + (IF g < e THEN 1 ELSE 0)
      BY <1>5, <2>3
    <2>5. L + B * I + Q * I - (IF g < e THEN 0 ELSE I) = L + (D - 1) * I
      <3>1. CASE g < e
        <4>1. D = B + Q + 1
          BY <2>4, <3>1
        <4>2. L + B * I + Q * I - 0 = L + (D - 1) * I
          BY <4>1
        <4> QED
          BY <3>1, <4>2
      <3>2. CASE ~(g < e)
        <4>1. D = B + Q
          BY <2>4, <3>2
        <4>2. L + B * I + Q * I - I = L + (D - 1) * I
          BY <4>1
        <4> QED
          BY <3>2, <4>2
      <3> QED
        BY <3>1, <3>2
    <2>6. s.upper = Wrap(At(lp, d - 1))
      BY <1>7, <2>1, <2>2, <2>3, <2>5
    <2> QED
      BY <1>6, <2>6, WrapIdentity DEF InType
  <1>9. Piece(lp, s.lower, s.upper) = {At(lp, k) : k \in b .. d - 1}
    <2>1. Least(d - 1, Trips(lp) - 1) = d - 1
      BY <1>1, <1>5 DEF Least
    <2> QED
      BY <1>1, <1>5, <1>7, <1>8, <2>1, PieceIndices
  <1>10. Indices(g, n, lp) = {k \in 0 .. Trips(lp) - 1 : b <= k /\ k < d}
    BY <1>1 DEF Indices, Static, StaticChunked
  <1> HIDE DEF b, d
  <1>11. {k \in 0 .. Trips(lp) - 1 : b <= k /\ k < d} = b .. d - 1
    BY <1>1, <1>5
  <1> QED
    BY <1>2, <1>3, <1>9, <1>10, <1>11

(* The k-th round of thread g begins at index c * (g + k * n).             *)
LEMMA RoundOf ==
  ASSUME NEW c \in Nat \ {0}, NEW n \in Nat \ {0}, NEW g \in 0 .. n - 1, NEW k \in Nat,
         NEW r \in 0 .. c - 1, NEW j \in Nat, j = c * (g + k * n) + r
  PROVE  (j \div c) % n = g
  <1>1. PICK m \in Nat : m = k * n + g
    OBVIOUS
  <1>2. j = m * c + r
    BY <1>1
  <1>3. j \div c = m
    BY <1>2, DivisionUnique
  <1>4. m % n = g
    BY <1>1, DivisionUnique
  <1> QED
    BY <1>3, <1>4

(* Index j is in round k of thread g.                                      *)
InRound(j, c, g, n, k) == \E r \in 0 .. c - 1 : j = c * (g + k * n) + r

(* ... and every index of a chunk of thread g lies in such a round.        *)
LEMMA RoundExists ==
  ASSUME NEW c \in Nat \ {0}, NEW n \in Nat \ {0}, NEW g \in 0 .. n - 1,
         NEW j \in Nat, (j \div c) % n = g
  PROVE  \E k \in Nat : k <= j /\ InRound(j, c, g, n, k)
  <1>1. PICK m \in Nat : m = j \div c /\ m <= j
    BY QuotientBound
  <1>2. PICK k \in Nat : k = m \div n /\ k <= m
    BY QuotientBound
  <1>3. m % n = g
    BY <1>1
  <1>4. m = k * n + g
    BY <1>2, <1>3, Division
  <1>5. PICK r \in 0 .. c - 1 : r = j % c
    BY Division
  <1>6. j = c * (g + k * n) + r
    <2>1. j = m * c + r
      BY <1>1, <1>5, Division
    <2> QED
      BY <1>4, <2>1
  <1>7. k <= j
    BY <1>1, <1>2
  <1> QED
    BY <1>6, <1>7 DEF InRound

(* A chunk size: thread g runs every n-th chunk, beginning with chunk g.   *)
LEMMA ChunkedShare ==
  ASSUME NEW lp, IsLoop(lp), NEW n \in Nat \ {0}, NoOverflow(n, lp), NEW g \in 0 .. n - 1,
         lp.sched = StaticChunked
  PROVE  Share(lp, for_static_init(g, n, lp)) = {At(lp, k) : k \in Indices(g, n, lp)}
  <1> DEFINE s == Chunked(g, n, lp)
             T == Trips(lp)
  <1>1. T \in Nat \ {0} /\ total_trips(lp) = T
    BY TotalTrips
  <1>2. for_static_init(g, n, lp) = s
    BY DEF for_static_init, Static, StaticChunked
  <1>3. PICK c \in Nat \ {0}, i \in Int, l \in Int :
          c = Chunk(lp) /\ i = lp.incr /\ l = lp.lower
    BY LoopFields, ChunksInType
  <1>4. /\ \A k \in 0 .. c * n : At(lp, k) \in Int /\ InType(At(lp, k))
        /\ c * i * n \in Int /\ InType(c * i * n) /\ c * i * n # 0
    BY <1>3, ChunksInType
  <1>5. \A k : At(lp, k) = l + k * i
    BY <1>3 DEF At
  <1>6. c * g \in 0 .. c * n /\ c * g + c - 1 \in 0 .. c * n
    <2>1. (g + 1) * c <= n * c /\ 0 * c <= g * c
      BY TimesMonotone
    <2> QED
      BY <2>1
  <1>7. s.lower = At(lp, c * g)
    <2>1. s.lower = Wrap(l + c * i * g)
      BY <1>3 DEF Chunked, Chunk
    <2>2. l + c * i * g = l + (c * g) * i
      OBVIOUS
    <2> QED
      BY <1>4, <1>5, <1>6, <2>1, <2>2, WrapIdentity DEF InType
  <1>8. s.upper = At(lp, c * g + c - 1)
    <2>1. s.upper = Wrap(s.lower + c * i - i)
      BY <1>3 DEF Chunked, Chunk
    <2>2. l + (c * g) * i + c * i - i = l + (c * g + c - 1) * i
      OBVIOUS
    <2> QED
      BY <1>4, <1>5, <1>6, <1>7, <2>1, <2>2, WrapIdentity DEF InType
  <1>9. s.stride = c * i * n
    BY <1>3, <1>4, WrapIdentity DEF Chunked, Chunk, InType
  <1>10. ASSUME NEW k \in Nat
         PROVE  Piece(lp, s.lower + k * s.stride, s.upper + k * s.stride) =
                  {At(lp, j) : j \in c * (g + k * n) .. Least(c * (g + k * n) + c - 1, T - 1)}
    <2>1. PICK p \in Int : p = c * (g + k * n)
      OBVIOUS
    <2>2. /\ l + (c * g) * i + k * (c * i * n) = l + p * i
          /\ l + (c * g + c - 1) * i + k * (c * i * n) = l + (p + c - 1) * i
      BY <2>1
    <2>3. s.lower + k * s.stride = At(lp, p) /\ s.upper + k * s.stride = At(lp, p + c - 1)
      BY <1>5, <1>7, <1>8, <1>9, <2>2
    <2> QED
      BY <1>1, <2>1, <2>3, PieceIndices
  <1>11. Share(lp, s) =
           UNION {Piece(lp, s.lower + k * s.stride, s.upper + k * s.stride) : k \in 0 .. T}
    BY <1>1, <1>4, <1>9 DEF Share
  <1>12. Indices(g, n, lp) = {j \in 0 .. T - 1 : (j \div c) % n = g}
    BY <1>3 DEF Indices
  <1> DEFINE Round(k) == c * (g + k * n) .. Least(c * (g + k * n) + c - 1, T - 1)
  <1> HIDE DEF s, T
  <1>13. ASSUME NEW k \in 0 .. T, NEW j \in Round(k)
         PROVE  j \in 0 .. T - 1 /\ (j \div c) % n = g
    <2>1. PICK p \in Nat : p = c * (g + k * n)
      BY <1>1
    <2>2. j \in 0 .. T - 1 /\ j \in Nat /\ j - p \in 0 .. c - 1
      BY <1>1, <2>1 DEF Least
    <2>3. PICK r \in 0 .. c - 1 : j = p + r
      BY <2>2
    <2>4. k \in Nat
      BY <1>1
    <2>5. j = c * (g + k * n) + r
      BY <2>1, <2>3
    <2> HIDE DEF Round
    <2>6. (j \div c) % n = g
      BY <2>2, <2>4, <2>5, RoundOf
    <2> QED
      BY <2>2, <2>6
  <1>14. ASSUME NEW j \in 0 .. T - 1, (j \div c) % n = g
         PROVE  \E k \in 0 .. T : j \in Round(k)
    <2> HIDE DEF Round
    <2>1. j \in Nat /\ j <= T - 1
      BY <1>1
    <2>2. PICK k \in Nat : k <= j /\ InRound(j, c, g, n, k)
      BY <1>14, <2>1, RoundExists
    <2>3. PICK r \in 0 .. c - 1 : j = c * (g + k * n) + r
      BY <2>2 DEF InRound
    <2>4. PICK p \in Nat : p = c * (g + k * n)
      OBVIOUS
    <2>5. j \in p .. Least(p + c - 1, T - 1)
      BY <1>1, <2>1, <2>3, <2>4 DEF Least
    <2>6. k \in 0 .. T
      BY <1>1, <2>1, <2>2
    <2> QED
      BY <2>4, <2>5, <2>6 DEF Round
  <1> HIDE DEF Round
  <1>15. \A k \in 0 .. T :
           Piece(lp, s.lower + k * s.stride, s.upper + k * s.stride) = {At(lp, j) : j \in Round(k)}
    <2> SUFFICES ASSUME NEW k \in 0 .. T
                 PROVE  Piece(lp, s.lower + k * s.stride, s.upper + k * s.stride)
                        = {At(lp, j) : j \in Round(k)}
      OBVIOUS
    <2>1. Piece(lp, s.lower + k * s.stride, s.upper + k * s.stride)
          = {At(lp, j) : j \in c * (g + k * n) .. Least(c * (g + k * n) + c - 1, T - 1)}
      BY <1>10
    <2> QED
      BY <2>1 DEF Round
  <1>16. Share(lp, s) = UNION {{At(lp, j) : j \in Round(k)} : k \in 0 .. T}
    BY <1>11, <1>15
  <1>17. Share(lp, s) = {At(lp, j) : j \in {j \in 0 .. T - 1 : (j \div c) % n = g}}
    BY <1>13, <1>14, <1>16
  <1> QED
    BY <1>2, <1>12, <1>17

(* The iterations of a share are those of the indices the thread owns.     *)
LEMMA ShareIndices ==
  ASSUME NEW lp, IsLoop(lp), NEW n \in Nat \ {0}, NoOverflow(n, lp), NEW g \in 0 .. n - 1
  PROVE  Share(lp, for_static_init(g, n, lp)) = {At(lp, k) : k \in Indices(g, n, lp)}
  <1>1. Trips(lp) \in Nat /\ lp.sched \in {Static, StaticChunked} /\ g \in Nat
    BY TotalTrips, LoopFields
  <1>2. CASE lp.sched = StaticChunked
    BY <1>2, ChunkedShare
  <1>3. CASE lp.sched = Static /\ Trips(lp) < n
    BY <1>1, <1>3, FewShare
  <1>4. CASE lp.sched = Static /\ n <= Trips(lp)
    BY <1>4, ManyShare
  <1> QED
    BY <1>1, <1>2, <1>3, <1>4

-----------------------------------------------------------------------------
(* Every index has one owner.                                              *)

(* The first trips % n threads take one iteration more than the others.    *)
LEMMA OwnerOfMany ==
  ASSUME NEW n \in Nat \ {0}, NEW trips \in Nat, n <= trips, NEW k \in Nat, k < trips
  PROVE  \E g \in 0 .. n - 1 : Before(g, n, trips) <= k /\ k < Before(g + 1, n, trips)
  <1> DEFINE B(g) == Before(g, n, trips)
  <1>1. PICK q \in Nat \ {0}, e \in 0 .. n - 1 : q = trips \div n /\ e = trips % n
    BY BeforeBounds
  <1>2. /\ \A g \in Nat : B(g) \in Nat
        /\ B(n) = trips
        /\ \A g, h \in Nat : g <= h => B(g) <= B(h)
        /\ \A g \in Nat : B(g + 1) = B(g) + q + (IF g < e THEN 1 ELSE 0)
    BY <1>1, BeforeBounds
  <1>3. \A g \in Nat : B(g) = g * q + (IF g < e THEN g ELSE e)
    BY <1>1 DEF Before
  <1> HIDE DEF B
  <1>4. SUFFICES \E g \in Nat : B(g) <= k /\ k < B(g + 1)
    <2>1. ASSUME NEW g \in Nat, B(g) <= k PROVE g \in 0 .. n - 1
      <3>1. ~(n <= g)
        BY <1>2, <2>1
      <3> QED
        BY <3>1
    <2> QED
      BY <2>1 DEF B
  <1>5. CASE k < e * (q + 1)
    <2>1. PICK w \in Nat \ {0} : w = q + 1
      OBVIOUS
    <2>2. PICK g \in Nat : g = k \div w
      BY QuotientBound
    <2>3. g < e /\ g * (q + 1) <= k /\ ~((g + 1) * (q + 1) <= k)
      <3>1. \A x \in Int : x * w <= k <=> x <= g
        BY <2>2, DivisionFloor
      <3>2. e * w <= k <=> e <= g
        BY <3>1
      <3>3. g * w <= k /\ ~((g + 1) * w <= k)
        BY <3>1
      <3> QED
        BY <1>5, <2>1, <3>2, <3>3
    <2>4. B(g) = g * (q + 1)
      BY <1>3, <2>3
    <2>5. B(g + 1) = (g + 1) * (q + 1)
      BY <1>2, <2>3, <2>4
    <2> QED
      BY <2>3, <2>4, <2>5
  <1>6. CASE ~(k < e * (q + 1))
    <2>1. PICK x \in Nat : k = e * (q + 1) + x
      BY <1>6, k - e * (q + 1) \in Nat
    <2>2. PICK d \in Nat : d = x \div q
      BY QuotientBound
    <2>3. d * q <= x /\ ~((d + 1) * q <= x)
      BY <2>2, DivisionFloor
    <2>4. PICK g \in Nat : g = e + d
      OBVIOUS
    <2>5. B(g) = e * (q + 1) + d * q
      BY <1>3, <2>4
    <2>6. B(g + 1) = e * (q + 1) + (d + 1) * q
      BY <1>2, <2>4, <2>5
    <2> QED
      BY <2>1, <2>3, <2>5, <2>6
  <1> QED
    BY <1>5, <1>6

(* Some thread owns it ...                                                 *)
LEMMA IndicesCover ==
  ASSUME NEW lp, IsLoop(lp), NEW n \in Nat \ {0}, Trips(lp) \in Nat, NEW k \in 0 .. Trips(lp) - 1
  PROVE  \E g \in 0 .. n - 1 : k \in Indices(g, n, lp)
  <1>1. k \in Nat /\ k < Trips(lp)
    OBVIOUS
  <1>2. CASE lp.sched = StaticChunked
    <2>1. Chunk(lp) \in Nat \ {0}
      BY LoopFields DEF Chunk
    <2>2. PICK m \in Nat : m = k \div Chunk(lp)
      BY <1>1, <2>1, QuotientBound
    <2>3. m % n \in 0 .. n - 1
      BY Division
    <2> QED
      BY <1>2, <2>2, <2>3 DEF Indices
  <1>3. CASE lp.sched # StaticChunked /\ Trips(lp) < n
    BY <1>1, <1>3 DEF Indices
  <1>4. CASE lp.sched # StaticChunked /\ n <= Trips(lp)
    <2>1. PICK g \in 0 .. n - 1 : /\ Before(g, n, Trips(lp)) <= k
                                 /\ k < Before(g + 1, n, Trips(lp))
      BY <1>1, <1>4, OwnerOfMany
    <2> QED
      BY <1>1, <1>4, <2>1 DEF Indices
  <1> QED
    BY <1>2, <1>3, <1>4

(* ... and only one.                                                       *)
LEMMA IndicesDisjoint ==
  ASSUME NEW lp, IsLoop(lp), NEW n \in Nat \ {0}, Trips(lp) \in Nat,
         NEW g \in 0 .. n - 1, NEW h \in 0 .. n - 1, NEW k,
         k \in Indices(g, n, lp), k \in Indices(h, n, lp)
  PROVE  g = h
  <1>1. CASE lp.sched = StaticChunked
    BY <1>1 DEF Indices
  <1>2. CASE lp.sched # StaticChunked /\ Trips(lp) < n
    BY <1>2 DEF Indices
  <1>3. CASE lp.sched # StaticChunked /\ n <= Trips(lp)
    <2> DEFINE B(x) == Before(x, n, Trips(lp))
    <2>1. /\ k \in Nat
          /\ B(g) <= k /\ k < B(g + 1) /\ B(h) <= k /\ k < B(h + 1)
      BY <1>3 DEF Indices
    <2>2. /\ \A x \in Nat : B(x) \in Nat
          /\ \A x, y \in Nat : x <= y => B(x) <= B(y)
      BY <1>3, BeforeBounds
    <2> HIDE DEF B
    <2>3. ASSUME NEW x \in Nat, NEW y \in Nat, x + 1 <= y, B(y) <= k, k < B(x + 1)
          PROVE  FALSE
      BY <2>1, <2>2, <2>3
    <2>4. g \in Nat /\ h \in Nat /\ (g = h \/ g + 1 <= h \/ h + 1 <= g)
      OBVIOUS
    <2> QED
      BY <2>1, <2>3, <2>4
  <1> QED
    BY <1>1, <1>2, <1>3

-----------------------------------------------------------------------------
(* What __kmpc_for_static_init promises, for every type, loop and team.    *)

(* The shares of the threads, as the caller runs them, are disjoint and    *)
(* together are the iterations of the loop: no iteration is run twice and  *)
(* none is left out, whatever the schedule, the chunk size and the sign of *)
(* the increment.                                                          *)
THEOREM SharesPartition ==
  ASSUME NEW lp, IsLoop(lp), NEW n \in Nat \ {0}, NoOverflow(n, lp)
  PROVE  /\ \A g, h \in 0 .. n - 1 : g # h =>
              Share(lp, for_static_init(g, n, lp)) \cap
                Share(lp, for_static_init(h, n, lp)) = {}
         /\ UNION {Share(lp, for_static_init(g, n, lp)) : g \in 0 .. n - 1} = Iterations(lp)
  <1> DEFINE S(g) == Share(lp, for_static_init(g, n, lp))
  <1>1. Trips(lp) \in Nat
    BY TotalTrips
  <1>2. \A g \in 0 .. n - 1 : S(g) = {At(lp, k) : k \in Indices(g, n, lp)}
    BY ShareIndices
  <1>3. \A g \in 0 .. n - 1 : Indices(g, n, lp) \subseteq 0 .. Trips(lp) - 1
    BY DEF Indices
  <1>4. Iterations(lp) = {At(lp, k) : k \in 0 .. Trips(lp) - 1}
    BY <1>1, IterationIndices
  <1> HIDE DEF S
  <1>5. ASSUME NEW g \in 0 .. n - 1, NEW h \in 0 .. n - 1, g # h, NEW iv \in S(g), iv \in S(h)
        PROVE  FALSE
    <2>1. PICK k \in Indices(g, n, lp) : iv = At(lp, k)
      BY <1>2
    <2>2. PICK j \in Indices(h, n, lp) : iv = At(lp, j)
      BY <1>2, <1>5
    <2>3. k \in Int /\ j \in Int
      BY <1>1, <1>3
    <2>4. k = j
      BY <2>1, <2>2, <2>3, AtOrder
    <2> QED
      BY <1>1, <1>5, <2>4, IndicesDisjoint
  <1>6. ASSUME NEW iv \in Iterations(lp) PROVE \E g \in 0 .. n - 1 : iv \in S(g)
    <2>1. PICK k \in 0 .. Trips(lp) - 1 : iv = At(lp, k)
      BY <1>4
    <2>2. PICK g \in 0 .. n - 1 : k \in Indices(g, n, lp)
      BY <1>1, IndicesCover
    <2> QED
      BY <1>2, <2>1, <2>2
  <1>7. ASSUME NEW g \in 0 .. n - 1 PROVE S(g) \subseteq Iterations(lp)
    BY <1>2, <1>3, <1>4
  <1> QED
    BY <1>5, <1>6, <1>7 DEF S

(* *plastiter is set for exactly the thread whose share holds the          *)
(* sequentially last iteration.                                            *)
THEOREM LastIterationFlag ==
  ASSUME NEW lp, IsLoop(lp), NEW n \in Nat \ {0}, NoOverflow(n, lp), NEW g \in 0 .. n - 1
  PROVE  for_static_init(g, n, lp).last <=>
           LastIteration(lp) \in Share(lp, for_static_init(g, n, lp))
  <1>1. PICK T \in Nat \ {0} : T = Trips(lp) /\ total_trips(lp) = T
    BY TotalTrips
  <1>2. PICK z \in Nat : z = T - 1
    OBVIOUS
  <1>3. LastIteration(lp) = At(lp, z)
    <2>1. ASSUME NEW k \in 0 .. T - 1
          PROVE  Inside(lp, At(lp, k) + lp.incr) <=> k # z
      <3>1. PICK j \in Int : j = k + 1
        OBVIOUS
      <3>2. At(lp, k) + lp.incr = At(lp, j)
        <4>1. PICK i \in Int, l \in Int : i = lp.incr /\ l = lp.lower
          BY LoopFields
        <4>2. l + k * i + i = l + j * i
          BY <3>1
        <4> QED
          BY <4>1, <4>2 DEF At
      <3>3. Inside(lp, At(lp, j)) <=> j <= T - 1
        BY <1>1, InsideIndex
      <3> QED
        BY <1>2, <3>1, <3>2, <3>3
    <2>2. Iterations(lp) = {At(lp, k) : k \in 0 .. T - 1}
      BY <1>1, IterationIndices
    <2>3. z \in 0 .. T - 1
      BY <1>2
    <2>4. \A iv \in Iterations(lp) : ~Inside(lp, iv + lp.incr) <=> iv = At(lp, z)
      <3> TAKE iv \in Iterations(lp)
      <3>1. PICK k \in 0 .. T - 1 : iv = At(lp, k)
        BY <2>2
      <3>2. At(lp, k) = At(lp, z) => k = z
        BY AtOrder
      <3> QED
        BY <2>1, <3>1, <3>2
    <2>5. At(lp, z) \in Iterations(lp)
      BY <2>2, <2>3
    <2> QED
      BY <2>4, <2>5 DEF LastIteration
  <1>4. At(lp, z) \in Share(lp, for_static_init(g, n, lp)) <=> z \in Indices(g, n, lp)
    <2>1. ASSUME NEW k \in Indices(g, n, lp), At(lp, k) = At(lp, z) PROVE k = z
      <3>1. k \in Int
        BY <1>1 DEF Indices
      <3> QED
        BY <2>1, <3>1, AtOrder
    <2> QED
      BY <2>1, ShareIndices
  <1>5. z \in Indices(g, n, lp) <=> for_static_init(g, n, lp).last
    <2>1. CASE lp.sched = StaticChunked
      <3>1. PICK c \in Nat \ {0} : c = Chunk(lp)
        BY ChunksInType
      <3>2. for_static_init(g, n, lp).last <=> g = Quot(z, c) % n
        BY <1>1, <1>2, <2>1, <3>1 DEF for_static_init, Chunked, Chunk, Static, StaticChunked
      <3>3. Quot(z, c) = z \div c
        BY QuotientBound
      <3> QED
        BY <1>1, <1>2, <2>1, <3>1, <3>2, <3>3 DEF Indices
    <2>2. CASE lp.sched = Static /\ T < n
      <3>1. for_static_init(g, n, lp).last <=> g = z
        BY <1>1, <1>2, <2>2 DEF for_static_init, FewTrips, Static, StaticChunked
      <3> QED
        BY <1>1, <1>2, <2>2, <3>1 DEF Indices, Static, StaticChunked
    <2>3. CASE lp.sched = Static /\ n <= T
      <3>1. for_static_init(g, n, lp).last <=> g = n - 1
        <4>1. for_static_init(g, n, lp) = ManyTrips(g, n, lp)
          BY <1>1, <2>3 DEF for_static_init, Static, StaticChunked
        <4>2. ManyTrips(g, n, lp).last <=> g = n - 1
          BY DEF ManyTrips
        <4> QED
          BY <4>1, <4>2
      <3>2. PICK h \in 0 .. n - 1 : h = n - 1
        OBVIOUS
      <3>3. z \in Indices(h, n, lp)
        <4>1. /\ T \div n \in Nat \ {0}
              /\ \A x \in Nat : Before(x, n, T) \in Nat
              /\ \A x \in Nat : Before(x + 1, n, T) =
                   Before(x, n, T) + (T \div n) + (IF x < (T % n) THEN 1 ELSE 0)
              /\ Before(n, n, T) = T
          BY <2>3, BeforeBounds
        <4>2. /\ Before(h, n, T) \in Nat
              /\ Before(h + 1, n, T) = Before(h, n, T) + (T \div n) + (IF h < (T % n) THEN 1 ELSE 0)
          BY <4>1, h \in Nat
        <4>3. h + 1 = n
          BY <3>2
        <4>4. Before(h + 1, n, T) = T
          BY <4>1, <4>3
        <4>5. PICK q \in Nat \ {0} : q = T \div n
          BY <4>1
        <4>6. Before(h, n, T) <= z /\ z < Before(h + 1, n, T)
          BY <1>2, <4>2, <4>4, <4>5
        <4> QED
          BY <1>1, <1>2, <2>3, <4>6 DEF Indices, Static, StaticChunked
      <3>4. z \in Indices(g, n, lp) => g = h
        BY <1>1, <3>3, IndicesDisjoint
      <3> QED
        BY <3>1, <3>2, <3>3, <3>4
    <2> QED
      BY <1>1, <2>1, <2>2, <2>3, LoopFields
  <1> QED
    BY <1>3, <1>4, <1>5


-----------------------------------------------------------------------------
(* The inductive invariant                                                 *)

PC == {"cached", "test", "set", "recheck", "cacheunlock", "slot", "store", "loop",
       "reduce", "combine", "write", "endreduce", "barrier", "wait", "done"}

Given(t) == for_static_init(t, nthreads, loop)

LoopTypes ==
  /\ IsLoop(loop) /\ NoOverflow(nthreads, loop)
  /\ share \in [Threads -> {NoShare} \cup {Given(t) : t \in Threads}]
  /\ total \in [Iterations(loop) -> Nat]
  /\ value \in [Threads -> [Iterations(loop) -> Nat]]

ControlTypes ==
  /\ critical_lock \in {0, 1}
  /\ cache \in {0, 1} /\ copies \in Nat
  /\ caches \in Seq([Threads -> Nat]) /\ Len(caches) = cache
  /\ pc \in [Threads -> PC]
  /\ after \in [Threads -> {"none", "recheck", "combine"}]
  /\ private \in [Threads -> Seq(Nat)]
  /\ arrived \in [Threads -> Nat] /\ passed \in [Threads -> Nat]

TypeInv == LoopTypes /\ ControlTypes

(* critical_lock excludes: who is between a lock and its unlock is alone.  *)
Critical == {"recheck", "cacheunlock", "combine", "write", "endreduce"}

LockInv ==
  /\ \A t \in Threads : pc[t] \in Critical => critical_lock = 1
  /\ \A t, q \in Threads : pc[t] \in Critical /\ pc[q] \in Critical => t = q

(* The place of t tells whether it has its threadprivate copy, and what it *)
(* wants the lock for.                                                     *)
PhaseInv(t) ==
  /\ pc[t] \in {"test", "set"} =>
       after[t] = IF private[t] = << >> THEN "recheck" ELSE "combine"
  /\ pc[t] \in {"recheck", "cacheunlock", "store"} => private[t] = << >>
  /\ pc[t] \in {"loop", "reduce", "combine", "write", "endreduce", "barrier", "wait", "done"} =>
       private[t] # << >>

(* One cache is allocated; entry t is written once, with a new copy, which *)
(* is what t is given by every call.                                       *)
Entry(t) == IF cache = 0 THEN 0 ELSE caches[1][t]

CacheInv(t) ==
  /\ pc[t] \in {"cacheunlock", "slot", "store"} => cache = 1
  /\ Entry(t) = 0 <=> private[t] = << >>
  /\ \A i \in DOMAIN private[t] : private[t][i] = Entry(t)
  /\ Entry(t) <= copies
  /\ \A q \in Threads : Entry(t) = Entry(q) /\ Entry(t) # 0 => t = q

LoopInv(t) == LoopDone(t) => share[t] = Given(t)

BarrierInv(t) ==
  /\ arrived[t] = IF pc[t] = "wait" \/ PastBarrier(t) THEN 1 ELSE 0
  /\ passed[t] = IF PastBarrier(t) THEN 1 ELSE 0
  /\ PastBarrier(t) => \A q \in Threads : arrived[q] = 1

(* The threads whose part is in the shared variable, and that it holds     *)
(* nothing else: no write of it is lost, since who writes it has read what *)
(* is in it.                                                               *)
Contributed(t) ==
  private[t] # << >> /\ pc[t] \in {"endreduce", "barrier", "wait", "cached", "slot", "done"}

Contains(iv) == \E t \in Threads : Contributed(t) /\ iv \in Share(loop, Given(t))

ReductionInv ==
  /\ \A iv \in Iterations(loop) : total[iv] = IF Contains(iv) THEN 1 ELSE 0
  /\ \A t \in Threads : pc[t] = "write" => value[t] = total

IInv ==
  /\ TypeInv
  /\ LockInv
  /\ \A t \in Threads : PhaseInv(t) /\ CacheInv(t) /\ LoopInv(t) /\ BarrierInv(t)
  /\ ReductionInv

-----------------------------------------------------------------------------
(* The team is the threads 0 .. nthreads - 1.                              *)
LEMMA Team == nthreads \in Nat \ {0} /\ Threads = 0 .. nthreads - 1
  <1>1. nthreads \in Nat
    BY ThreadsAssumption, FS_CardinalityType DEF nthreads
  <1>2. nthreads # 0
    BY ThreadsAssumption, FS_EmptySet DEF nthreads
  <1> QED
    BY <1>1, <1>2, ThreadsAssumption DEF nthreads

(* The shares of this team partition the loop.                             *)
LEMMA Shares ==
  ASSUME TypeInv
  PROVE  /\ \A t, q \in Threads : t # q =>
              Share(loop, Given(t)) \cap Share(loop, Given(q)) = {}
         /\ UNION {Share(loop, Given(t)) : t \in Threads} = Iterations(loop)
  BY Team, SharesPartition DEF TypeInv, LoopTypes, Given

(* The copies a thread has been given, and one more                        *)
LEMMA OneMoreCopy ==
  ASSUME NEW s \in Seq(Nat), NEW p \in Nat
  PROVE  /\ Append(s, p) \in Seq(Nat) /\ Append(s, p) # << >>
         /\ \A i \in DOMAIN Append(s, p) : Append(s, p)[i] = p \/ (i \in DOMAIN s /\ Append(s, p)[i] = s[i])
  <1>1. /\ Append(s, p) \in Seq(Nat) /\ Append(s, p) # << >>
        /\ Len(Append(s, p)) = Len(s) + 1
        /\ \A i \in 1 .. Len(s) : Append(s, p)[i] = s[i]
        /\ Append(s, p)[Len(s) + 1] = p
    BY AppendProperties
  <1>2. Len(s) \in Nat /\ DOMAIN s = 1 .. Len(s) /\ DOMAIN Append(s, p) = 1 .. Len(s) + 1
    BY <1>1, LenProperties
  <1>3. \A i \in 1 .. Len(s) + 1 : i = Len(s) + 1 \/ i \in 1 .. Len(s)
    BY <1>2
  <1> QED
    BY <1>1, <1>2, <1>3

(* A thread without its copy has no entry, and who has it sees the cache.  *)
LEMMA EntryOf ==
  ASSUME IInv, NEW t \in Threads
  PROVE  /\ private[t] # << >> => cache = 1
         /\ pc[t] \in {"slot", "store"} => cache = 1 /\ caches[cache][t] = Entry(t)
         /\ pc[t] = "slot" => (caches[cache][t] = 0 <=> private[t] = << >>)
         /\ Entry(t) \in Nat
         /\ cache = 1 => caches[1] \in [Threads -> Nat] /\ DOMAIN caches = {1}
  <1>1. cache \in {0, 1} /\ caches \in Seq([Threads -> Nat]) /\ Len(caches) = cache /\ CacheInv(t)
    BY DEF IInv, TypeInv, LoopTypes, ControlTypes
  <1>2. cache = 1 => caches[1] \in [Threads -> Nat] /\ DOMAIN caches = {1}
    <2> SUFFICES ASSUME cache = 1
                 PROVE  caches[1] \in [Threads -> Nat] /\ DOMAIN caches = {1}
      OBVIOUS
    <2>1. 1 \in 1 .. Len(caches) /\ 1 .. Len(caches) = {1}
      BY <1>1
    <2>2. DOMAIN caches = 1 .. Len(caches)
      BY <1>1, LenProperties
    <2>3. caches[1] \in [Threads -> Nat]
      BY <1>1, <2>1, ElementOfSeq
    <2> QED
      BY <2>1, <2>2, <2>3
  <1> QED
    BY <1>1, <1>2 DEF CacheInv, Entry

-----------------------------------------------------------------------------
(* The parts of the invariant are kept by every step of a thread.          *)

(* critical_lock excludes: the test of LockTest may be stale when LockSet  *)
(* acts, the test-and-set may not.                                         *)
LEMMA LockStep ==
  ASSUME IInv, NEW t \in Threads, Step(t)
  PROVE  LockInv'
  <1>1. pc \in [Threads -> PC] /\ after \in [Threads -> {"none", "recheck", "combine"}]
        /\ critical_lock \in {0, 1} /\ LockInv
    BY DEF IInv, TypeInv, LoopTypes, ControlTypes
  <1>2. CASE LockTest(t)
    BY <1>1, <1>2 DEF LockTest, Goto, lockVars, cacheVars, loopVars, bvars, LockInv, Critical, PC
  <1>3. CASE LockSet(t)
    BY <1>1, <1>3 DEF LockSet, Goto, lockVars, cacheVars, loopVars, bvars, LockInv, Critical, PC
  <1>4. CASE TestCache(t)
    BY <1>1, <1>4 DEF TestCache, WantLock, Goto, lockVars, cacheVars, loopVars, bvars, LockInv, Critical, PC
  <1>5. CASE AllocateCache(t)
    BY <1>1, <1>5 DEF AllocateCache, Goto, lockVars, cacheVars, loopVars, bvars, LockInv, Critical, PC
  <1>6. CASE CacheUnlock(t)
    BY <1>1, <1>6 DEF CacheUnlock, bomp_unlock, Goto, lockVars, cacheVars, loopVars, bvars, LockInv, Critical, PC
  <1>7. CASE ReadSlot(t)
    BY <1>1, <1>7 DEF ReadSlot, ReturnPrivate, Goto, lockVars, cacheVars, loopVars, bvars, LockInv, Critical, PC
  <1>8. CASE StoreSlot(t)
    BY <1>1, <1>8 DEF StoreSlot, ReturnPrivate, Goto, lockVars, cacheVars, loopVars, bvars, LockInv, Critical, PC
  <1>9. CASE StaticInit(t)
    BY <1>1, <1>9 DEF StaticInit, Goto, lockVars, cacheVars, loopVars, bvars, LockInv, Critical, PC
  <1>10. CASE Reduce(t)
    BY <1>1, <1>10 DEF Reduce, WantLock, Goto, lockVars, cacheVars, loopVars, bvars, LockInv, Critical, PC
  <1>11. CASE ReadTotal(t)
    BY <1>1, <1>11 DEF ReadTotal, Goto, lockVars, cacheVars, loopVars, bvars, LockInv, Critical, PC
  <1>12. CASE WriteTotal(t)
    BY <1>1, <1>12 DEF WriteTotal, Goto, lockVars, cacheVars, loopVars, bvars, LockInv, Critical, PC
  <1>13. CASE EndReduce(t)
    BY <1>1, <1>13 DEF EndReduce, bomp_unlock, Goto, lockVars, cacheVars, loopVars, bvars, LockInv, Critical, PC
  <1>14. CASE EnterBarrier(t)
    BY <1>1, <1>14 DEF EnterBarrier, Arrive, Goto, lockVars, cacheVars, loopVars, bvars, LockInv, Critical, PC
  <1>15. CASE LeaveBarrier(t)
    BY <1>1, <1>15 DEF LeaveBarrier, Leave, Goto, lockVars, cacheVars, loopVars, bvars, LockInv, Critical, PC
  <1> QED
    BY <1>2, <1>3, <1>4, <1>5, <1>6, <1>7, <1>8, <1>9, <1>10, <1>11, <1>12, <1>13, <1>14, <1>15 DEF Step

(* A thread goes through the region in order: copy, share, reduction,      *)
(* barrier, copy.                                                          *)
LEMMA PhaseStep ==
  ASSUME IInv, NEW t \in Threads, Step(t)
  PROVE  \A q \in Threads : PhaseInv(q)'
  <1>1. /\ pc \in [Threads -> PC] /\ after \in [Threads -> {"none", "recheck", "combine"}]
        /\ private \in [Threads -> Seq(Nat)]
        /\ \A q \in Threads : PhaseInv(q)
    BY DEF IInv, TypeInv, LoopTypes, ControlTypes
  <1>2. CASE LockTest(t)
    BY <1>1, <1>2 DEF LockTest, Goto, lockVars, cacheVars, loopVars, bvars, PhaseInv, PC
  <1>3. CASE LockSet(t)
    BY <1>1, <1>3 DEF LockSet, Goto, lockVars, cacheVars, loopVars, bvars, PhaseInv, PC
  <1>4. CASE TestCache(t)
    BY <1>1, <1>4, EntryOf DEF TestCache, WantLock, Goto, lockVars, cacheVars, loopVars, bvars, PhaseInv, PC
  <1>5. CASE AllocateCache(t)
    BY <1>1, <1>5 DEF AllocateCache, Goto, lockVars, cacheVars, loopVars, bvars, PhaseInv, PC
  <1>6. CASE CacheUnlock(t)
    BY <1>1, <1>6 DEF CacheUnlock, bomp_unlock, Goto, lockVars, cacheVars, loopVars, bvars, PhaseInv, PC
  <1>7. CASE ReadSlot(t)
    <2>1. CASE caches[cache][t] # 0
      <3>1. caches[cache][t] \in Nat /\ private[t] \in Seq(Nat)
        BY <1>1, <1>7, EntryOf DEF ReadSlot
      <3>2. Append(private[t], caches[cache][t]) # << >>
        BY <3>1, OneMoreCopy
      <3> QED
        BY <1>1, <1>7, <2>1, <3>2 DEF ReadSlot, ReturnPrivate, Goto, lockVars, PhaseInv, PC
    <2>2. CASE caches[cache][t] = 0
      BY <1>1, <1>7, <2>2, EntryOf DEF ReadSlot, Goto, lockVars, PhaseInv, PC
    <2> QED
      BY <2>1, <2>2
  <1>8. CASE StoreSlot(t)
    BY <1>1, <1>8 DEF StoreSlot, ReturnPrivate, Goto, lockVars, cacheVars, loopVars, bvars, PhaseInv, PC
  <1>9. CASE StaticInit(t)
    BY <1>1, <1>9 DEF StaticInit, Goto, lockVars, cacheVars, loopVars, bvars, PhaseInv, PC
  <1>10. CASE Reduce(t)
    BY <1>1, <1>10 DEF Reduce, WantLock, Goto, lockVars, cacheVars, loopVars, bvars, PhaseInv, PC
  <1>11. CASE ReadTotal(t)
    BY <1>1, <1>11 DEF ReadTotal, Goto, lockVars, cacheVars, loopVars, bvars, PhaseInv, PC
  <1>12. CASE WriteTotal(t)
    BY <1>1, <1>12 DEF WriteTotal, Goto, lockVars, cacheVars, loopVars, bvars, PhaseInv, PC
  <1>13. CASE EndReduce(t)
    BY <1>1, <1>13 DEF EndReduce, bomp_unlock, Goto, lockVars, cacheVars, loopVars, bvars, PhaseInv, PC
  <1>14. CASE EnterBarrier(t)
    BY <1>1, <1>14 DEF EnterBarrier, Arrive, Goto, lockVars, cacheVars, loopVars, bvars, PhaseInv, PC
  <1>15. CASE LeaveBarrier(t)
    BY <1>1, <1>15 DEF LeaveBarrier, Leave, Goto, lockVars, cacheVars, loopVars, bvars, PhaseInv, PC
  <1> QED
    BY <1>2, <1>3, <1>4, <1>5, <1>6, <1>7, <1>8, <1>9, <1>10, <1>11, <1>12, <1>13, <1>14, <1>15 DEF Step

(* A thread past the loop has the share __kmpc_for_static_init gives it.   *)
LEMMA LoopStep ==
  ASSUME IInv, NEW t \in Threads, Step(t)
  PROVE  \A q \in Threads : LoopInv(q)'
  <1>1. /\ pc \in [Threads -> PC] /\ private \in [Threads -> Seq(Nat)]
        /\ share \in [Threads -> {NoShare} \cup {Given(q) : q \in Threads}]
        /\ \A q \in Threads : PhaseInv(q)
        /\ \A q \in Threads : LoopInv(q)
    BY DEF IInv, TypeInv, LoopTypes, ControlTypes
  <1>2. CASE LockTest(t)
    BY <1>1, <1>2 DEF LockTest, Goto, lockVars, cacheVars, loopVars, bvars, PhaseInv, LoopInv, LoopDone, Given, PC
  <1>3. CASE LockSet(t)
    BY <1>1, <1>3 DEF LockSet, Goto, lockVars, cacheVars, loopVars, bvars, PhaseInv, LoopInv, LoopDone, Given, PC
  <1>4. CASE TestCache(t)
    BY <1>1, <1>4 DEF TestCache, WantLock, Goto, lockVars, cacheVars, loopVars, bvars, PhaseInv, LoopInv, LoopDone, Given, PC
  <1>5. CASE AllocateCache(t)
    BY <1>1, <1>5 DEF AllocateCache, Goto, lockVars, cacheVars, loopVars, bvars, PhaseInv, LoopInv, LoopDone, Given, PC
  <1>6. CASE CacheUnlock(t)
    BY <1>1, <1>6 DEF CacheUnlock, bomp_unlock, Goto, lockVars, cacheVars, loopVars, bvars, PhaseInv, LoopInv, LoopDone, Given, PC
  <1>7. CASE ReadSlot(t)
    BY <1>1, <1>7 DEF ReadSlot, ReturnPrivate, Goto, lockVars, cacheVars, loopVars, bvars, PhaseInv, LoopInv, LoopDone, Given, PC
  <1>8. CASE StoreSlot(t)
    BY <1>1, <1>8 DEF StoreSlot, ReturnPrivate, Goto, lockVars, cacheVars, loopVars, bvars, PhaseInv, LoopInv, LoopDone, Given, PC
  <1>9. CASE StaticInit(t)
    BY <1>1, <1>9 DEF StaticInit, Goto, lockVars, cacheVars, loopVars, bvars, PhaseInv, LoopInv, LoopDone, Given, PC
  <1>10. CASE Reduce(t)
    BY <1>1, <1>10 DEF Reduce, WantLock, Goto, lockVars, cacheVars, loopVars, bvars, PhaseInv, LoopInv, LoopDone, Given, PC
  <1>11. CASE ReadTotal(t)
    BY <1>1, <1>11 DEF ReadTotal, Goto, lockVars, cacheVars, loopVars, bvars, PhaseInv, LoopInv, LoopDone, Given, PC
  <1>12. CASE WriteTotal(t)
    BY <1>1, <1>12 DEF WriteTotal, Goto, lockVars, cacheVars, loopVars, bvars, PhaseInv, LoopInv, LoopDone, Given, PC
  <1>13. CASE EndReduce(t)
    BY <1>1, <1>13 DEF EndReduce, bomp_unlock, Goto, lockVars, cacheVars, loopVars, bvars, PhaseInv, LoopInv, LoopDone, Given, PC
  <1>14. CASE EnterBarrier(t)
    BY <1>1, <1>14 DEF EnterBarrier, Arrive, Goto, lockVars, cacheVars, loopVars, bvars, PhaseInv, LoopInv, LoopDone, Given, PC
  <1>15. CASE LeaveBarrier(t)
    BY <1>1, <1>15 DEF LeaveBarrier, Leave, Goto, lockVars, cacheVars, loopVars, bvars, PhaseInv, LoopInv, LoopDone, Given, PC
  <1> QED
    BY <1>2, <1>3, <1>4, <1>5, <1>6, <1>7, <1>8, <1>9, <1>10, <1>11, <1>12, <1>13, <1>14, <1>15 DEF Step

(* No thread is past the barrier while another has not reached it.         *)
LEMMA BarrierStep ==
  ASSUME IInv, NEW t \in Threads, Step(t)
  PROVE  \A q \in Threads : BarrierInv(q)'
  <1>1. /\ pc \in [Threads -> PC] /\ private \in [Threads -> Seq(Nat)]
        /\ arrived \in [Threads -> Nat] /\ passed \in [Threads -> Nat]
        /\ \A q \in Threads : PhaseInv(q)
        /\ \A q \in Threads : BarrierInv(q)
        /\ private[t] # << >> => cache = 1
    BY EntryOf DEF IInv, TypeInv, LoopTypes, ControlTypes
  <1>2. CASE LockTest(t)
    BY <1>1, <1>2 DEF LockTest, Goto, lockVars, cacheVars, loopVars, bvars, PhaseInv, BarrierInv, PastBarrier, PC
  <1>3. CASE LockSet(t)
    BY <1>1, <1>3 DEF LockSet, Goto, lockVars, cacheVars, loopVars, bvars, PhaseInv, BarrierInv, PastBarrier, PC
  <1>4. CASE TestCache(t)
    BY <1>1, <1>4 DEF TestCache, WantLock, Goto, lockVars, cacheVars, loopVars, bvars, PhaseInv, BarrierInv, PastBarrier, PC
  <1>5. CASE AllocateCache(t)
    BY <1>1, <1>5 DEF AllocateCache, Goto, lockVars, cacheVars, loopVars, bvars, PhaseInv, BarrierInv, PastBarrier, PC
  <1>6. CASE CacheUnlock(t)
    BY <1>1, <1>6 DEF CacheUnlock, bomp_unlock, Goto, lockVars, cacheVars, loopVars, bvars, PhaseInv, BarrierInv, PastBarrier, PC
  <1>7. CASE ReadSlot(t)
    <2>1. private'[t] # << >> <=> private[t] # << >> \/ caches[cache][t] # 0
      <3>1. caches[cache][t] \in Nat /\ private[t] \in Seq(Nat)
        BY <1>1, <1>7, EntryOf DEF ReadSlot
      <3>2. Append(private[t], caches[cache][t]) # << >>
        BY <3>1, OneMoreCopy
      <3> QED
        BY <1>1, <1>7, <3>2 DEF ReadSlot, ReturnPrivate
    <2>2. caches[cache][t] = 0 <=> private[t] = << >>
      BY <1>7, EntryOf DEF ReadSlot
    <2>3. /\ UNCHANGED <<arrived, passed>>
          /\ \A q \in Threads : q # t => private'[q] = private[q] /\ pc'[q] = pc[q]
          /\ pc[t] = "slot" /\ pc'[t] \in {"store", "loop", "done"}
          /\ private[t] # << >> => pc'[t] = "done"
      BY <1>1, <1>7, <2>2 DEF ReadSlot, ReturnPrivate, Goto, bvars
    <2>4. ASSUME NEW q \in Threads
          PROVE  (pc'[q] = "wait" <=> pc[q] = "wait") /\ (PastBarrier(q)' <=> PastBarrier(q))
      BY <2>1, <2>2, <2>3 DEF PastBarrier
    <2> QED
      BY <1>1, <2>3, <2>4 DEF BarrierInv
  <1>8. CASE StoreSlot(t)
    BY <1>1, <1>8 DEF StoreSlot, ReturnPrivate, Goto, lockVars, cacheVars, loopVars, bvars, PhaseInv, BarrierInv, PastBarrier, PC
  <1>9. CASE StaticInit(t)
    BY <1>1, <1>9 DEF StaticInit, Goto, lockVars, cacheVars, loopVars, bvars, PhaseInv, BarrierInv, PastBarrier, PC
  <1>10. CASE Reduce(t)
    BY <1>1, <1>10 DEF Reduce, WantLock, Goto, lockVars, cacheVars, loopVars, bvars, PhaseInv, BarrierInv, PastBarrier, PC
  <1>11. CASE ReadTotal(t)
    BY <1>1, <1>11 DEF ReadTotal, Goto, lockVars, cacheVars, loopVars, bvars, PhaseInv, BarrierInv, PastBarrier, PC
  <1>12. CASE WriteTotal(t)
    BY <1>1, <1>12 DEF WriteTotal, Goto, lockVars, cacheVars, loopVars, bvars, PhaseInv, BarrierInv, PastBarrier, PC
  <1>13. CASE EndReduce(t)
    BY <1>1, <1>13 DEF EndReduce, bomp_unlock, Goto, lockVars, cacheVars, loopVars, bvars, PhaseInv, BarrierInv, PastBarrier, PC
  <1>14. CASE EnterBarrier(t)
    <2>1. arrived[t] = 0
      BY <1>1, <1>14 DEF EnterBarrier, BarrierInv, PastBarrier
    <2>2. \A q \in Threads : ~PastBarrier(q)
      BY <1>1, <2>1 DEF BarrierInv
    <2>3. \A q \in Threads : ~PastBarrier(q)'
      BY <1>1, <1>14, <2>2 DEF EnterBarrier, Goto, cacheVars, PastBarrier, PC
    <2> QED
      BY <1>1, <1>14, <2>1, <2>2, <2>3 DEF EnterBarrier, Arrive, Goto, BarrierInv, PC
  <1>15. CASE LeaveBarrier(t)
    BY <1>1, <1>15 DEF LeaveBarrier, Leave, Goto, lockVars, cacheVars, loopVars, bvars, PhaseInv, BarrierInv, PastBarrier, PC
  <1> QED
    BY <1>2, <1>3, <1>4, <1>5, <1>6, <1>7, <1>8, <1>9, <1>10, <1>11, <1>12, <1>13, <1>14, <1>15 DEF Step

(* One array is allocated for the team, and every thread stores its copy   *)
(* there once.                                                             *)
LEMMA CacheStep ==
  ASSUME IInv, NEW t \in Threads, Step(t)
  PROVE  \A q \in Threads : CacheInv(q)'
  <1>1. /\ pc \in [Threads -> PC] /\ private \in [Threads -> Seq(Nat)]
        /\ cache \in {0, 1} /\ copies \in Nat
        /\ caches \in Seq([Threads -> Nat]) /\ Len(caches) = cache
        /\ \A q \in Threads : PhaseInv(q)
        /\ \A q \in Threads : CacheInv(q)
        /\ \A q \in Threads : Entry(q) \in Nat
    BY EntryOf DEF IInv, TypeInv, LoopTypes, ControlTypes
  <1>2. CASE LockTest(t)
    BY <1>1, <1>2 DEF LockTest, Goto, lockVars, cacheVars, loopVars, bvars, PhaseInv, CacheInv, Entry, PC
  <1>3. CASE LockSet(t)
    BY <1>1, <1>3 DEF LockSet, Goto, lockVars, cacheVars, loopVars, bvars, PhaseInv, CacheInv, Entry, PC
  <1>4. CASE TestCache(t)
    BY <1>1, <1>4 DEF TestCache, WantLock, Goto, lockVars, cacheVars, loopVars, bvars, PhaseInv, CacheInv, Entry, PC
  <1>5. CASE AllocateCache(t)
    BY <1>1, <1>5 DEF AllocateCache, Goto, lockVars, cacheVars, loopVars, bvars, PhaseInv, CacheInv, Entry, PC
  <1>6. CASE CacheUnlock(t)
    BY <1>1, <1>6 DEF CacheUnlock, bomp_unlock, Goto, lockVars, cacheVars, loopVars, bvars, PhaseInv, CacheInv, Entry, PC
  <1>7. CASE ReadSlot(t)
    <2>1. caches[cache][t] \in Nat /\ private[t] \in Seq(Nat) /\ caches[cache][t] = Entry(t)
      BY <1>1, <1>7, EntryOf DEF ReadSlot
    <2>2. /\ Append(private[t], Entry(t)) # << >>
          /\ \A i \in DOMAIN Append(private[t], Entry(t)) :
               Append(private[t], Entry(t))[i] = Entry(t)
      BY <1>1, <2>1, OneMoreCopy DEF CacheInv
    <2>3. \A q \in Threads : Entry(q)' = Entry(q)
      BY <1>7 DEF ReadSlot, Entry
    <2>4. /\ cache' = cache /\ copies' = copies
          /\ Entry(t) # 0 => private' = [private EXCEPT ![t] = Append(private[t], Entry(t))]
          /\ Entry(t) = 0 => private' = private
          /\ \E where \in {"store", "loop", "done"} : pc' = [pc EXCEPT ![t] = where]
          /\ pc[t] = "slot"
      BY <1>7, <2>1 DEF ReadSlot, ReturnPrivate, Goto
    <2>5. ASSUME NEW q \in Threads PROVE CacheInv(q)'
      <3>1. Entry(q) = 0 <=> private'[q] = << >>
        BY <1>1, <2>2, <2>4 DEF CacheInv
      <3>2. \A i \in DOMAIN private'[q] : private'[q][i] = Entry(q)
        BY <1>1, <2>2, <2>4 DEF CacheInv
      <3>3. pc'[q] \in {"cacheunlock", "slot", "store"} => cache' = 1
        BY <1>1, <2>4 DEF CacheInv, PC
      <3> QED
        BY <1>1, <2>3, <2>4, <3>1, <3>2, <3>3 DEF CacheInv
    <2> QED
      BY <2>5
  <1>8. CASE StoreSlot(t)
    BY <1>1, <1>8 DEF StoreSlot, ReturnPrivate, Goto, lockVars, cacheVars, loopVars, bvars, PhaseInv, CacheInv, Entry, PC
  <1>9. CASE StaticInit(t)
    BY <1>1, <1>9 DEF StaticInit, Goto, lockVars, cacheVars, loopVars, bvars, PhaseInv, CacheInv, Entry, PC
  <1>10. CASE Reduce(t)
    BY <1>1, <1>10 DEF Reduce, WantLock, Goto, lockVars, cacheVars, loopVars, bvars, PhaseInv, CacheInv, Entry, PC
  <1>11. CASE ReadTotal(t)
    BY <1>1, <1>11 DEF ReadTotal, Goto, lockVars, cacheVars, loopVars, bvars, PhaseInv, CacheInv, Entry, PC
  <1>12. CASE WriteTotal(t)
    BY <1>1, <1>12 DEF WriteTotal, Goto, lockVars, cacheVars, loopVars, bvars, PhaseInv, CacheInv, Entry, PC
  <1>13. CASE EndReduce(t)
    BY <1>1, <1>13 DEF EndReduce, bomp_unlock, Goto, lockVars, cacheVars, loopVars, bvars, PhaseInv, CacheInv, Entry, PC
  <1>14. CASE EnterBarrier(t)
    BY <1>1, <1>14 DEF EnterBarrier, Arrive, Goto, lockVars, cacheVars, loopVars, bvars, PhaseInv, CacheInv, Entry, PC
  <1>15. CASE LeaveBarrier(t)
    BY <1>1, <1>15 DEF LeaveBarrier, Leave, Goto, lockVars, cacheVars, loopVars, bvars, PhaseInv, CacheInv, Entry, PC
  <1> QED
    BY <1>2, <1>3, <1>4, <1>5, <1>6, <1>7, <1>8, <1>9, <1>10, <1>11, <1>12, <1>13, <1>14, <1>15 DEF Step

(* The types of what controls the team                                     *)
LEMMA ControlTypesStep ==
  ASSUME IInv, NEW t \in Threads, Step(t)
  PROVE  ControlTypes'
  <1>1. ControlTypes /\ PhaseInv(t)
    BY DEF IInv, TypeInv
  <1>2. CASE LockTest(t)
    BY <1>1, <1>2 DEF LockTest, Goto, lockVars, cacheVars, loopVars, bvars, ControlTypes, PC
  <1>3. CASE LockSet(t)
    BY <1>1, <1>3 DEF LockSet, Goto, cacheVars, loopVars, bvars, ControlTypes, PhaseInv, PC
  <1>4. CASE TestCache(t)
    BY <1>1, <1>4 DEF TestCache, WantLock, Goto, lockVars, cacheVars, loopVars, bvars, ControlTypes, PC
  <1>5. CASE AllocateCache(t)
    <2>1. CASE cache = 0
      <3>1. PICK row \in [Threads -> Nat] : row = [q \in Threads |-> 0]
        OBVIOUS
      <3>2. caches' = Append(caches, row) /\ cache' = Len(caches')
        BY <1>5, <2>1, <3>1 DEF AllocateCache
      <3>3. caches \in Seq([Threads -> Nat]) /\ Len(caches) = 0
        BY <1>1, <2>1 DEF ControlTypes
      <3>4. Append(caches, row) \in Seq([Threads -> Nat]) /\ Len(Append(caches, row)) = Len(caches) + 1
        BY <3>3, AppendProperties
      <3>5. caches' \in Seq([Threads -> Nat]) /\ cache' = 1 /\ Len(caches') = cache'
        BY <3>2, <3>3, <3>4
      <3> QED
        BY <1>1, <1>5, <3>5
           DEF AllocateCache, Goto, lockVars, bvars, ControlTypes, PC
    <2>2. CASE cache # 0
      BY <1>1, <1>5, <2>2 DEF AllocateCache, Goto, lockVars, loopVars, bvars, ControlTypes, PC
    <2> QED
      BY <2>1, <2>2
  <1>6. CASE CacheUnlock(t)
    BY <1>1, <1>6 DEF CacheUnlock, bomp_unlock, Goto, lockVars, cacheVars, loopVars, bvars, ControlTypes, PC
  <1>7. CASE ReadSlot(t)
    <2>1. caches[cache][t] \in Nat /\ private[t] \in Seq(Nat)
      BY <1>1, <1>7, EntryOf DEF ReadSlot, ControlTypes
    <2>2. Append(private[t], caches[cache][t]) \in Seq(Nat)
      BY <2>1, OneMoreCopy
    <2> QED
      BY <1>1, <1>7, <2>2 DEF ReadSlot, ReturnPrivate, Goto, lockVars, loopVars, bvars, ControlTypes, PC
  <1>8. CASE StoreSlot(t)
    <2>1. copies + 1 \in Nat /\ private[t] \in Seq(Nat) /\ caches \in Seq([Threads -> Nat])
      BY <1>1 DEF ControlTypes
    <2>2. Append(private[t], copies + 1) \in Seq(Nat)
      BY <2>1, OneMoreCopy
    <2>3. cache = 1 /\ caches[1] \in [Threads -> Nat] /\ Len(caches) = 1
      BY <1>1, <1>8, EntryOf DEF StoreSlot, ControlTypes
    <2>4. PICK row \in [Threads -> Nat] : row = [caches[1] EXCEPT ![t] = copies + 1]
      BY <2>1, <2>3
    <2>5. caches' = [caches EXCEPT ![1] = row]
      BY <1>8, <2>3, <2>4 DEF StoreSlot
    <2>6. 1 \in 1 .. Len(caches)
      BY <2>3
    <2>7. caches' \in Seq([Threads -> Nat]) /\ Len(caches') = Len(caches)
      BY <2>1, <2>4, <2>5, <2>6, ExceptSeq
    <2> QED
      BY <1>1, <1>8, <2>1, <2>2, <2>3, <2>7
         DEF StoreSlot, ReturnPrivate, Goto, lockVars, loopVars, bvars, ControlTypes, PC
  <1>9. CASE StaticInit(t)
    BY <1>1, <1>9 DEF StaticInit, Goto, lockVars, cacheVars, loopVars, bvars, ControlTypes, PC
  <1>10. CASE Reduce(t)
    BY <1>1, <1>10 DEF Reduce, WantLock, Goto, lockVars, cacheVars, loopVars, bvars, ControlTypes, PC
  <1>11. CASE ReadTotal(t)
    BY <1>1, <1>11 DEF ReadTotal, Goto, lockVars, cacheVars, loopVars, bvars, ControlTypes, PC
  <1>12. CASE WriteTotal(t)
    BY <1>1, <1>12 DEF WriteTotal, Goto, lockVars, cacheVars, bvars, ControlTypes, PC
  <1>13. CASE EndReduce(t)
    BY <1>1, <1>13 DEF EndReduce, bomp_unlock, Goto, lockVars, cacheVars, loopVars, bvars, ControlTypes, PC
  <1>14. CASE EnterBarrier(t)
    BY <1>1, <1>14 DEF EnterBarrier, Arrive, Goto, lockVars, cacheVars, loopVars, bvars, ControlTypes, PC
  <1>15. CASE LeaveBarrier(t)
    BY <1>1, <1>15 DEF LeaveBarrier, Leave, Goto, lockVars, cacheVars, loopVars, bvars, ControlTypes, PC
  <1> QED
    BY <1>2, <1>3, <1>4, <1>5, <1>6, <1>7, <1>8, <1>9, <1>10, <1>11, <1>12, <1>13, <1>14, <1>15 DEF Step

(* The types of what it computes                                           *)
LEMMA LoopTypesStep ==
  ASSUME IInv, NEW t \in Threads, Step(t)
  PROVE  LoopTypes'
  <1>1. LoopTypes
    BY DEF IInv, TypeInv
  <1>2. CASE StaticInit(t)
    BY <1>1, <1>2 DEF StaticInit, LoopTypes, Given
  <1>3. CASE ReadTotal(t)
    BY <1>1, <1>3 DEF ReadTotal, LoopTypes, Given
  <1>4. CASE WriteTotal(t)
    <2>1. Combined(t, value[t]) \in [Iterations(loop) -> Nat]
      BY <1>1 DEF LoopTypes, Combined
    <2> QED
      BY <1>1, <1>4, <2>1 DEF WriteTotal, LoopTypes, Given
  <1>5. CASE UNCHANGED loopVars
    BY <1>1, <1>5 DEF loopVars, LoopTypes, Given
  <1> QED
    BY <1>2, <1>3, <1>4, <1>5
       DEF Step, LockTest, LockSet, TestCache, AllocateCache, CacheUnlock, ReadSlot, StoreSlot,
           Reduce, EndReduce, EnterBarrier, LeaveBarrier

(* Who has contributed changes only where the shared variable is written.  *)
LEMMA ContributedStep ==
  ASSUME IInv, NEW t \in Threads, Step(t), pc[t] # "write"
  PROVE  \A q \in Threads : Contributed(q)' <=> Contributed(q)
  <1>1. /\ pc \in [Threads -> PC] /\ private \in [Threads -> Seq(Nat)]
        /\ \A q \in Threads : PhaseInv(q)
        /\ private[t] # << >> => cache = 1
    BY EntryOf DEF IInv, TypeInv, ControlTypes
  <1>2. CASE LockTest(t)
    BY <1>1, <1>2 DEF LockTest, Goto, lockVars, cacheVars, loopVars, bvars, Contributed, PhaseInv, PC
  <1>3. CASE LockSet(t)
    BY <1>1, <1>3 DEF LockSet, Goto, lockVars, cacheVars, loopVars, bvars, Contributed, PhaseInv, PC
  <1>4. CASE TestCache(t)
    BY <1>1, <1>4 DEF TestCache, WantLock, Goto, lockVars, cacheVars, loopVars, bvars, Contributed, PhaseInv, PC
  <1>5. CASE AllocateCache(t)
    BY <1>1, <1>5 DEF AllocateCache, Goto, lockVars, cacheVars, loopVars, bvars, Contributed, PhaseInv, PC
  <1>6. CASE CacheUnlock(t)
    BY <1>1, <1>6 DEF CacheUnlock, bomp_unlock, Goto, lockVars, cacheVars, loopVars, bvars, Contributed, PhaseInv, PC
  <1>7. CASE ReadSlot(t)
    <2>1. private'[t] # << >> <=> private[t] # << >> \/ caches[cache][t] # 0
      <3>1. caches[cache][t] \in Nat /\ private[t] \in Seq(Nat)
        BY <1>1, <1>7, EntryOf DEF ReadSlot
      <3>2. Append(private[t], caches[cache][t]) # << >>
        BY <3>1, OneMoreCopy
      <3> QED
        BY <1>1, <1>7, <3>2 DEF ReadSlot, ReturnPrivate
    <2>2. caches[cache][t] = 0 <=> private[t] = << >>
      BY <1>7, EntryOf DEF ReadSlot
    <2> QED
      BY <1>1, <1>7, <2>1, <2>2 DEF ReadSlot, ReturnPrivate, Goto, Contributed, PC
  <1>8. CASE StoreSlot(t)
    BY <1>1, <1>8 DEF StoreSlot, ReturnPrivate, Goto, lockVars, cacheVars, loopVars, bvars, Contributed, PhaseInv, PC
  <1>9. CASE StaticInit(t)
    BY <1>1, <1>9 DEF StaticInit, Goto, lockVars, cacheVars, loopVars, bvars, Contributed, PhaseInv, PC
  <1>10. CASE Reduce(t)
    BY <1>1, <1>10 DEF Reduce, WantLock, Goto, lockVars, cacheVars, loopVars, bvars, Contributed, PhaseInv, PC
  <1>11. CASE ReadTotal(t)
    BY <1>1, <1>11 DEF ReadTotal, Goto, lockVars, cacheVars, loopVars, bvars, Contributed, PhaseInv, PC
  <1>12. CASE WriteTotal(t)
    BY <1>12 DEF WriteTotal
  <1>13. CASE EndReduce(t)
    BY <1>1, <1>13 DEF EndReduce, bomp_unlock, Goto, lockVars, cacheVars, loopVars, bvars, Contributed, PhaseInv, PC
  <1>14. CASE EnterBarrier(t)
    BY <1>1, <1>14 DEF EnterBarrier, Arrive, Goto, lockVars, cacheVars, loopVars, bvars, Contributed, PhaseInv, PC
  <1>15. CASE LeaveBarrier(t)
    BY <1>1, <1>15 DEF LeaveBarrier, Leave, Goto, lockVars, cacheVars, loopVars, bvars, Contributed, PhaseInv, PC
  <1> QED
    BY <1>2, <1>3, <1>4, <1>5, <1>6, <1>7, <1>8, <1>9, <1>10, <1>11, <1>12, <1>13, <1>14, <1>15 DEF Step

(* The shared variable holds the contributions of those who have written   *)
(* it; what a thread read of it under the lock is still what it holds.     *)
LEMMA ReductionStep ==
  ASSUME IInv, NEW t \in Threads, Step(t)
  PROVE  ReductionInv'
  <1>1. TypeInv /\ ReductionInv /\ LockInv
    BY DEF IInv
  <1>2. pc \in [Threads -> PC] /\ value \in [Threads -> [Iterations(loop) -> Nat]]
    BY <1>1 DEF TypeInv, LoopTypes, ControlTypes
  <1>3. loop' = loop /\ \A q \in Threads : Given(q)' = Given(q)
    BY DEF Step, LockTest, LockSet, TestCache, AllocateCache, CacheUnlock, ReadSlot, StoreSlot,
           StaticInit, Reduce, ReadTotal, WriteTotal, EndReduce, EnterBarrier, LeaveBarrier,
           loopVars, Given
  <1>4. CASE pc[t] # "write"
    <2>1. \A q \in Threads : Contributed(q)' <=> Contributed(q)
      BY <1>4, ContributedStep
    <2>2. \A iv \in Iterations(loop) : Contains(iv)' <=> Contains(iv)
      BY <1>3, <2>1 DEF Contains
    <2>3. total' = total
      BY <1>4 DEF Step, LockTest, LockSet, TestCache, AllocateCache, CacheUnlock, ReadSlot,
           StoreSlot, StaticInit, Reduce, ReadTotal, WriteTotal, EndReduce, EnterBarrier,
           LeaveBarrier, loopVars
    <2>4. \A q \in Threads : pc'[q] = "write" => value'[q] = total
      <3>1. CASE ReadTotal(t)
        BY <1>1, <1>2, <3>1 DEF ReadTotal, Goto, ReductionInv
      <3>2. CASE ~ReadTotal(t)
        <4>1. value' = value
          BY <1>4, <3>2 DEF Step, LockTest, LockSet, TestCache, AllocateCache, CacheUnlock,
             ReadSlot, StoreSlot, StaticInit, Reduce, WriteTotal, EndReduce, EnterBarrier,
             LeaveBarrier, loopVars
        <4>2. PhaseInv(t)
          BY DEF IInv
        <4>3. \A q \in Threads : pc'[q] = "write" => pc[q] = "write"
          BY <1>2, <1>4, <3>2, <4>2 DEF Step, LockTest, LockSet, TestCache, AllocateCache,
             CacheUnlock, ReadSlot, StoreSlot, StaticInit, Reduce, WriteTotal, EndReduce,
             EnterBarrier, LeaveBarrier, WantLock, ReturnPrivate, bomp_unlock, Goto, PhaseInv
        <4> QED
          BY <1>1, <4>1, <4>3 DEF ReductionInv
      <3> QED
        BY <3>1, <3>2
    <2> QED
      BY <1>1, <1>3, <2>2, <2>3, <2>4 DEF ReductionInv
  <1>5. CASE WriteTotal(t)
    <2>1. /\ value[t] = total /\ share[t] = Given(t)
          /\ ~Contributed(t) /\ Contributed(t)'
          /\ \A q \in Threads : q # t => (Contributed(q)' <=> Contributed(q))
          /\ \A q \in Threads : pc'[q] # "write"
      <3>1. PhaseInv(t) /\ LoopInv(t)
        BY DEF IInv
      <3>2. pc[t] = "write" /\ pc' = [pc EXCEPT ![t] = "endreduce"] /\ private' = private
        BY <1>5 DEF WriteTotal, Goto, cacheVars
      <3>3. value[t] = total /\ share[t] = Given(t)
        BY <1>1, <3>1, <3>2 DEF ReductionInv, PhaseInv, LoopInv, LoopDone
      <3>4. \A q \in Threads : pc'[q] # "write"
        BY <1>1, <1>2, <3>2 DEF LockInv, Critical
      <3>5. /\ ~Contributed(t) /\ Contributed(t)'
            /\ \A q \in Threads : q # t => (Contributed(q)' <=> Contributed(q))
        BY <1>2, <3>1, <3>2 DEF Contributed, PhaseInv
      <3> QED
        BY <3>3, <3>4, <3>5
    <2>2. \A iv \in Iterations(loop) :
            total'[iv] = IF iv \in Share(loop, Given(t)) THEN total[iv] + 1 ELSE total[iv]
      BY <1>5, <2>1 DEF WriteTotal, Combined
    <2>3. ASSUME NEW iv \in Iterations(loop), iv \in Share(loop, Given(t))
          PROVE  ~Contains(iv) /\ Contains(iv)'
      BY <1>1, <1>3, <2>1, <2>3, Shares DEF Contains
    <2>4. ASSUME NEW iv \in Iterations(loop), iv \notin Share(loop, Given(t))
          PROVE  Contains(iv)' <=> Contains(iv)
      BY <1>3, <2>1, <2>4 DEF Contains
    <2> QED
      BY <1>1, <1>3, <2>1, <2>2, <2>3, <2>4 DEF ReductionInv
  <1> QED
    BY <1>4, <1>5 DEF Step, LockTest, LockSet, TestCache, AllocateCache, CacheUnlock, ReadSlot,
       StoreSlot, StaticInit, Reduce, ReadTotal, EndReduce, EnterBarrier, LeaveBarrier

-----------------------------------------------------------------------------
(* The invariant holds when the region begins ...                          *)
LEMMA InitInvariant == Init => IInv
  <1> SUFFICES ASSUME Init PROVE IInv
    OBVIOUS
  <1>1. LoopTypes
    BY LoopsAssumption DEF Init, LoopTypes
  <1>2. ControlTypes
    BY DEF Init, BInit, ControlTypes, PC
  <1>3. LockInv
    BY DEF Init, LockInv, Critical
  <1>4. \A t \in Threads : PhaseInv(t) /\ LoopInv(t) /\ BarrierInv(t)
    BY DEF Init, BInit, PhaseInv, LoopInv, LoopDone, BarrierInv, PastBarrier
  <1>5. \A t \in Threads : CacheInv(t)
    BY DEF Init, CacheInv, Entry
  <1>6. ReductionInv
    BY DEF Init, ReductionInv, Contains, Contributed
  <1> QED
    BY <1>1, <1>2, <1>3, <1>4, <1>5, <1>6 DEF IInv, TypeInv

(* ... and is kept by every step.                                          *)
LEMMA NextInvariant == IInv /\ [Next]_vars => IInv'
  <1> SUFFICES ASSUME IInv, [Next]_vars PROVE IInv'
    OBVIOUS
  <1>1. ASSUME NEW t \in Threads, Step(t) PROVE IInv'
    <2>1. LoopTypes' /\ ControlTypes'
      BY <1>1, LoopTypesStep, ControlTypesStep
    <2>2. LockInv' /\ ReductionInv'
      BY <1>1, LockStep, ReductionStep
    <2>3. \A q \in Threads : PhaseInv(q)' /\ CacheInv(q)' /\ LoopInv(q)' /\ BarrierInv(q)'
      BY <1>1, PhaseStep, CacheStep, LoopStep, BarrierStep
    <2> QED
      BY <2>1, <2>2, <2>3 DEF IInv, TypeInv
  <1>2. CASE UNCHANGED vars
    BY <1>2 DEF vars, lockVars, cacheVars, loopVars, bvars, IInv, TypeInv, LoopTypes, ControlTypes,
       LockInv, PhaseInv, CacheInv, LoopInv, BarrierInv, ReductionInv, Entry, Given, LoopDone,
       PastBarrier, Contains, Contributed
  <1> QED
    BY <1>1, <1>2 DEF Next

(* The invariant holds in every state of every team, in particular at most *)
(* one thread is between a bomp_lock of critical_lock and its unlock.      *)
THEOREM TeamInvariant == Spec => []IInv
  BY InitInvariant, NextInvariant, PTL DEF Spec

(* No iteration is run by two threads and none is left out, for any type,  *)
(* team, schedule, chunk size and increment (__kmpc_for_static_init).      *)
THEOREM EveryIterationOnce == Spec => []IterationsPartitioned
  <1>1. IInv => IterationsPartitioned
    <2> SUFFICES ASSUME IInv PROVE IterationsPartitioned
      OBVIOUS
    <2>1. TypeInv /\ \A t \in Threads : LoopDone(t) => share[t] = Given(t)
      BY DEF IInv, LoopInv
    <2> QED
      BY <2>1, Shares DEF IterationsPartitioned
  <1> QED
    BY <1>1, TeamInvariant, PTL

(* *plastiter is set for exactly the thread that runs the last iteration.  *)
THEOREM LastFlagIsRight == Spec => []LastFlag
  <1>1. IInv => LastFlag
    <2> SUFFICES ASSUME IInv, NEW t \in Threads, LoopDone(t)
                 PROVE  share[t].last <=> LastIteration(loop) \in Share(loop, share[t])
      BY DEF LastFlag
    <2>1. share[t] = for_static_init(t, nthreads, loop) /\ IsLoop(loop) /\ NoOverflow(nthreads, loop)
      BY DEF IInv, TypeInv, LoopTypes, LoopInv, Given
    <2> QED
      BY <2>1, Team, LastIterationFlag
  <1> QED
    BY <1>1, TeamInvariant, PTL

(* Behind the barrier of __kmpc_end_reduce the shared variable holds the   *)
(* contribution of every iteration of the loop, once.                      *)
THEOREM ReductionIsComplete == Spec => []ReductionComplete
  <1>1. IInv => ReductionComplete
    <2> SUFFICES ASSUME IInv, NEW t \in Threads, PastBarrier(t)
                 PROVE  total = [iv \in Iterations(loop) |-> 1]
      BY DEF ReductionComplete
    <2>1. \A q \in Threads : BarrierInv(q) /\ PhaseInv(q)
      BY DEF IInv
    <2>2. \A q \in Threads : arrived[q] = 1
      BY <2>1 DEF BarrierInv
    <2>3. \A q \in Threads : Contributed(q)
      BY <2>1, <2>2 DEF BarrierInv, PhaseInv, PastBarrier, Contributed
    <2>4. TypeInv /\ total \in [Iterations(loop) -> Nat]
      BY DEF IInv, TypeInv, LoopTypes
    <2>5. \A iv \in Iterations(loop) : Contains(iv)
      BY <2>3, <2>4, Shares DEF Contains
    <2>6. \A iv \in Iterations(loop) : total[iv] = 1
      BY <2>5 DEF IInv, ReductionInv
    <2> QED
      BY <2>4, <2>6
  <1> QED
    BY <1>1, TeamInvariant, PTL

(* Every call of __kmpc_threadprivate_cached gives a thread the copy its   *)
(* first call did, and no two threads share one, although the cache is     *)
(* looked up without the lock.                                             *)
THEOREM PrivateCopiesAreKept == Spec => []PrivateKept
  <1>1. IInv => PrivateKept
    <2> SUFFICES ASSUME IInv, NEW t \in Threads, NEW q \in Threads,
                        NEW i \in DOMAIN private[t], NEW j \in DOMAIN private[q]
                 PROVE  private[t][i] = private[q][j] <=> t = q
      BY DEF PrivateKept
    <2>1. CacheInv(t) /\ CacheInv(q) /\ private[t] \in Seq(Nat)
      BY DEF IInv, TypeInv, ControlTypes
    <2>2. private[t] # << >>
      BY <2>1
    <2>3. private[t][i] = Entry(t) /\ private[q][j] = Entry(q) /\ Entry(t) # 0
      BY <2>1, <2>2 DEF CacheInv
    <2> QED
      BY <2>1, <2>3 DEF CacheInv
  <1> QED
    BY <1>1, TeamInvariant, PTL
=============================================================================
