------------------------------ MODULE Toolchain ------------------------------
(***************************************************************************)
(* From the object files of a program to two binaries between which a      *)
(* thread may migrate (util/Makefile.pyalign.template): pyalign and the    *)
(* linker lay out the symbols, gen-stackinfo then runs on each binary, and *)
(* the runtime looks up in one binary where a frame returns to and in the  *)
(* other what corresponds to it.                                           *)
(***************************************************************************)
EXTENDS PyAlign, StackMetadata

CONSTANT Text       \* the section of the functions

VARIABLES
  objs,     \* arch -> sequence of its object files
  bin       \* arch -> the sections gen-stackinfo has added, if it has

vars == <<alignVars, objs, bin>>

Unprocessed == [written |-> FALSE, run |-> FALSE]

Build == AlignNext /\ UNCHANGED <<objs, bin>>

(* gen-stackinfo, once per binary.                                         *)
PostProcess(a) ==
  /\ phase = "linked"
  /\ bin[a] = Unprocessed
  /\ bin' = [bin EXCEPT ![a] = add_sections(a, objs[a], at[a])]
  /\ UNCHANGED <<alignVars, objs>>

(* pyalign has given up, or the binaries are done.                         *)
Done ==
  /\ phase = "failed" \/ \A a \in Archs : bin[a] # Unprocessed
  /\ UNCHANGED vars

Next == Build \/ (\E a \in Archs : PostProcess(a)) \/ Done

(* The calls of a binary, as its stack maps list them.                     *)
Records(a) == Linked([i \in DOMAIN objs[a] |-> objs[a][i].recs])

(* What the compiler emits for a call, and for the registers of a function.*)
CallRecords ==
  [call : Symbols \X Nat, func : Symbols, offset : Nat, id : 0 .. UINT64_MAX,
   stack_size : Nat, num_unwind : Nat, arch_live : Nat,
   locs : Seq([size : Nat, is_duplicate : BOOLEAN])]
SavedRegisters == [func : Symbols, num : Nat]

(* The object files of architecture a: a function with a stack map has its *)
(* registers in the same file, each function once; calls return into their *)
(* functions (a call that does not return and ends its function is not one *)
(* of them, though InsertStackMaps gives it a stack map too), to different *)
(* places; at most one call keeps each of the special IDs, and there are   *)
(* enough others.                                                          *)
Compiled(a) ==
  /\ \A i \in DOMAIN objs[a] : \A k \in DOMAIN objs[a][i].recs :
       \E l \in DOMAIN objs[a][i].saved :
         /\ objs[a][i].saved[l].func = objs[a][i].recs[k].func
         /\ objs[a][i].saved[l].num = objs[a][i].recs[k].num_unwind
  /\ \A i, j \in DOMAIN objs[a] : \A k \in DOMAIN objs[a][i].saved, l \in DOMAIN objs[a][j].saved :
       objs[a][i].saved[k].func = objs[a][j].saved[l].func => i = j /\ k = l
  /\ LET rs == Records(a)
     IN  /\ \A i \in DOMAIN rs : \E k \in DOMAIN pending[a] :
              /\ pending[a][k].name = rs[i].func
              /\ pending[a][k].section = Text /\ ~pending[a][k].blacklisted
              /\ rs[i].offset < pending[a][k].size
         /\ \A i, j \in DOMAIN rs :
              rs[i].func = rs[j].func /\ rs[i].offset = rs[j].offset => i = j
         /\ \A i \in DOMAIN rs : rs[i].id \in Special =>
              \A j \in DOMAIN rs : rs[i].id = rs[j].id => i = j
         /\ start_id + Len(rs) <= UINT64_MAX - 2

(* On all architectures the same calls keep their IDs (LibcStackMaps.cpp   *)
(* gives them to calls of three functions of the C library).               *)
ObjectFiles ==
  /\ Text \in Sections
  /\ objs \in [Archs -> Seq([recs : Seq(CallRecords), saved : Seq(SavedRegisters)])]
  /\ \A a \in Archs : Compiled(a)
  /\ \A a, b \in Archs :
       LET ra == Records(a)
           rb == Records(b)
       IN  \A i \in DOMAIN ra : ra[i].id \in Special =>
             \A j \in DOMAIN rb : ra[i].call = rb[j].call => ra[i].id = rb[j].id

Started == AlignInit /\ bin = [a \in Archs |-> Unprocessed]

(* The binaries of any object files.                                       *)
BuildInit == MapFiles /\ ObjectFiles /\ Started

BuildSpec == BuildInit /\ [][Next]_vars

-----------------------------------------------------------------------------
RetAddr(a, r) == at[a][r.func] + r.offset

Ready(a) == st_init(bin[a])

(* The functions' symbols exist where their code does.                     *)
Site(a, r) == CHOOSE s \in get_site_by_addr(bin[a], RetAddr(a, r)) : TRUE

(* The compilers listed the calls in one order on all architectures.       *)
SameOrder ==
  \A a, b \in Archs :
    /\ Len(Records(a)) = Len(Records(b))
    /\ \A i \in DOMAIN Records(a) : Records(a)[i].call = Records(b)[i].call

Checked(a, b) == check_stackmaps(objs[a], at[a], objs[b], at[b])

-----------------------------------------------------------------------------
(* The return address of every call is found, alone of all addresses from  *)
(* before the first function to after the last, and when the stack maps of *)
(* the binaries list the calls in the same order its ID leads to the same  *)
(* call on the other architecture (util.c:113-171, write.c:244-281):       *)
(* unwind_and_size never fails on, or mistakes, a frame.                   *)
SitesCorrespond ==
  \A a \in Archs : Ready(a) =>
    /\ \A i \in DOMAIN Records(a) :
         {s.addr : s \in get_site_by_addr(bin[a], RetAddr(a, Records(a)[i]))}
           = {RetAddr(a, Records(a)[i])}
    /\ \A n \in (0..(dot[a] + 1)) \ {RetAddr(a, Records(a)[i]) : i \in DOMAIN Records(a)} :
         get_site_by_addr(bin[a], n) = {}
    /\ \A b \in Archs : Ready(b) /\ SameOrder =>
         \A i \in DOMAIN Records(a) :
           \E d \in get_site_by_id(bin[b], Site(a, Records(a)[i]).id) :
             d.addr = RetAddr(b, Records(b)[i])

(* The offsets and numbers of a call site select what the compiler emitted *)
(* for its function and for that call, and nothing of another one, however *)
(* the linker put the sections of the object files together                *)
(* (write.c:87-95, 252-280): registers are restored from and live values   *)
(* copied between the right places.                                        *)
SitesSelectTheirOwn ==
  \A a \in Archs : Ready(a) =>
    \A i \in DOMAIN Records(a) :
      LET r == Records(a)[i]
          s == Site(a, r)
          b == bin[a]
      IN  /\ Slice(b.unwind_locs, s.unwind_offset, s.num_unwind)
               = [k \in 1..r.num_unwind |-> <<r.func, k>>]
          /\ Slice(b.live_vals, s.live_offset, s.num_live) = r.locs
          /\ Slice(b.arch_live_vals, s.arch_live_offset, s.num_arch_live)
               = [k \in 1..r.arch_live |-> r.call]

(* "functions are aligned & we're only transforming starting at the        *)
(* beginning of functions, so source pc == destination pc"                 *)
(* (rewrite.c:116-119): the function found for a call on one architecture  *)
(* is where the same function is on every other that has it.               *)
EntryPointsAgree ==
  \A a \in Archs : Ready(a) /\ SameBase(Text) =>
    \A i \in DOMAIN Records(a) :
      LET f == Records(a)[i].func
      IN  \A b \in Archs : at[b][f] # -1 =>
            get_function_address(bin[a], RetAddr(a, Records(a)[i])) = {at[b][f]}

(* No value comes after a duplicate of another one.                        *)
DuplicatesLast(r) ==
  \A k \in DOMAIN r.locs : r.locs[k].is_duplicate =>
    \A l \in DOMAIN r.locs : k < l => r.locs[l].is_duplicate

Sizes(h, s) ==
  LET values == NonDuplicate(Slice(h.live_vals, s.live_offset, s.num_live))
  IN  [k \in DOMAIN values |-> values[k].size]

(* When check-stackmaps accepts the binaries, then whatever the order of   *)
(* the stack maps the ID of a call leads to a call of the same function,   *)
(* and the values that rewrite_frame pairs there have the same sizes       *)
(* (check_stackmaps.c:105-260; where a value comes after a duplicate the   *)
(* checker stops early and nothing is claimed).  The checker is run by     *)
(* hand: Makefile.pyalign.template:115-116 has it commented out.           *)
CheckedMeansTransformable ==
  \A a, b \in Archs :
    (/\ Ready(a) /\ Ready(b) /\ Checked(a, b)
     /\ \A c \in {a, b} : \A i \in DOMAIN Records(c) : DuplicatesLast(Records(c)[i])) =>
      \A i \in DOMAIN Records(a) :
        LET s == Site(a, Records(a)[i])
        IN  \E d \in get_site_by_id(bin[b], s.id) :
              /\ get_function_address(bin[a], s.addr) = get_function_address(bin[b], d.addr)
              /\ Sizes(bin[a], s) = Sizes(bin[b], d)
=============================================================================
