---------------------------- MODULE StaticSchedule ----------------------------
(***************************************************************************)
(* The static work-sharing schedules of lib/libbomp/kmp.c                  *)
(* (__kmpc_for_static_init_4 and its variants): from the bounds of a whole *)
(* loop, the bounds, stride and last-iteration flag of one thread's share. *)
(***************************************************************************)
EXTENDS Integers

CONSTANT Width    \* the number of bits of TYPE

(* The last two conjuncts hold of every width; the provers need to be told *)
(* of them, since they know nothing of exponentiation.                     *)
ASSUME WidthAssumption ==
  /\ Width \in Nat \ {0}
  /\ 2^(Width - 1) \in Nat \ {0}
  /\ 2^Width = 2 * 2^(Width - 1)

(* Two's complement arithmetic on Width bits                               *)
TypeMax == 2^(Width - 1) - 1
TypeMin == -(2^(Width - 1))
Wrap(x) == ((x - TypeMin) % 2^Width) + TypeMin

(* A loop: for (iv = lower; iv <= upper; iv += incr), or >= when incr < 0, *)
(* with the schedule the compiler asks for.  A loop has an iteration: the  *)
(* compiler skips the call for one that has none.                          *)
Static == "static"
StaticChunked == "static_chunked"

IsLoop(loop) ==
  /\ loop \in [sched : {Static, StaticChunked}, lower : TypeMin .. TypeMax,
               upper : TypeMin .. TypeMax, incr : Int \ {0}, chunk : Int]
  /\ IF loop.incr > 0 THEN loop.lower <= loop.upper ELSE loop.upper <= loop.lower

(* C's division by a positive number rounds towards zero.                  *)
Quot(a, b) == IF a >= 0 THEN a \div b ELSE -((-a) \div b)

total_trips(loop) ==
  IF loop.incr > 0
    THEN Wrap(Quot(Wrap(loop.upper - loop.lower), loop.incr) + 1)
    ELSE Wrap(Quot(Wrap(loop.lower - loop.upper), -loop.incr) + 1)

(* kmp_sch_static: one contiguous piece per thread, the first `extras'     *)
(* threads getting one iteration more                                      *)
FewTrips(gtid, loop) ==
  LET trips == total_trips(loop)
      at == Wrap(loop.lower + gtid * loop.incr)
      past == Wrap(loop.upper + loop.incr)
  IN  [lower  |-> IF gtid < trips THEN at ELSE past,
       upper  |-> IF gtid < trips THEN at ELSE loop.upper,
       stride |-> 0,
       last   |-> gtid = trips - 1]

(* Mutant: the extra iterations are not accounted for in the lower bound.  *)
ManyTripsNoExtras(gtid, nthreads, loop) ==
  LET chunk == total_trips(loop) \div nthreads
      extras == total_trips(loop) % nthreads
      low == Wrap(loop.lower + loop.incr * gtid * chunk)
  IN  [lower  |-> low,
       upper  |-> Wrap(low + chunk * loop.incr - (IF gtid < extras THEN 0 ELSE loop.incr)),
       stride |-> 0,
       last   |-> gtid = nthreads - 1]

ManyTrips(gtid, nthreads, loop) ==
  LET chunk == total_trips(loop) \div nthreads
      extras == total_trips(loop) % nthreads
      before == gtid * chunk + (IF gtid < extras THEN gtid ELSE extras)
      low == Wrap(loop.lower + loop.incr * before)
  IN  [lower  |-> low,
       upper  |-> Wrap(low + chunk * loop.incr - (IF gtid < extras THEN 0 ELSE loop.incr)),
       stride |-> 0,
       last   |-> gtid = nthreads - 1]

(* Mutant: the last chunk is counted from one past the last iteration.     *)
ChunkedLastOffByOne(gtid, nthreads, loop) ==
  LET chunk == IF loop.chunk < 1 THEN 1 ELSE loop.chunk
      span == chunk * loop.incr
      low == Wrap(loop.lower + span * gtid)
  IN  [lower  |-> low,
       upper  |-> Wrap(low + span - loop.incr),
       stride |-> Wrap(span * nthreads),
       last   |-> gtid = Quot(total_trips(loop), chunk) % nthreads]

(* kmp_sch_static_chunked: chunks dealt out in turn; the caller adds the   *)
(* stride for its next chunk and cuts the last one short                   *)
Chunked(gtid, nthreads, loop) ==
  LET chunk == IF loop.chunk < 1 THEN 1 ELSE loop.chunk
      span == chunk * loop.incr
      low == Wrap(loop.lower + span * gtid)
  IN  [lower  |-> low,
       upper  |-> Wrap(low + span - loop.incr),
       stride |-> Wrap(span * nthreads),
       last   |-> gtid = Quot(total_trips(loop) - 1, chunk) % nthreads]

for_static_init(gtid, nthreads, loop) ==
  CASE loop.sched = StaticChunked -> Chunked(gtid, nthreads, loop)
    [] loop.sched = Static /\ total_trips(loop) < nthreads -> FewTrips(gtid, loop)
    [] OTHER -> ManyTrips(gtid, nthreads, loop)

-----------------------------------------------------------------------------
(* The code the compiler emits around the call (external): the share's     *)
(* upper bound is cut at the loop's, and a chunked share goes on by stride *)
(* for as long as a chunk starts inside the loop.                          *)
Inside(loop, iv) == IF loop.incr > 0 THEN iv <= loop.upper ELSE iv >= loop.upper

Between(a, b, incr) ==
  IF incr > 0 THEN {iv \in a .. b : (iv - a) % incr = 0}
              ELSE {iv \in b .. a : (a - iv) % (-incr) = 0}

Piece(loop, low, up) ==
  Between(low, IF Inside(loop, up) THEN up ELSE loop.upper, loop.incr)

Share(loop, s) ==
  IF s.stride = 0
    THEN Piece(loop, s.lower, s.upper)
    ELSE UNION {Piece(loop, s.lower + k * s.stride, s.upper + k * s.stride) :
                  k \in 0 .. total_trips(loop)}

(* The iterations of the whole loop, from its definition                   *)
Iterations(loop) == Between(loop.lower, loop.upper, loop.incr)

LastIteration(loop) == CHOOSE iv \in Iterations(loop) : ~Inside(loop, iv + loop.incr)

(* Neither the trip count nor the stride, nor a bound of any thread's      *)
(* share or the one after it, leaves TYPE.                                 *)
NoOverflow(nthreads, loop) ==
  LET reach == loop.incr * nthreads * (IF loop.chunk < 1 THEN 1 ELSE loop.chunk)
  IN  /\ loop.upper - loop.lower + 1 \in TypeMin .. TypeMax
      /\ loop.lower - loop.upper + 1 \in TypeMin .. TypeMax
      /\ reach \in TypeMin .. TypeMax
      /\ loop.upper + reach \in TypeMin .. TypeMax
=============================================================================
