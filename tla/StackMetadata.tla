---------------------------- MODULE StackMetadata ----------------------------
(***************************************************************************)
(* The metadata of the stack transformation, from the compiler to the      *)
(* runtime: the unwinding records an object file gets (UnwindInfo.cpp),    *)
(* the tables gen-stackinfo makes of them and of the stack maps            *)
(* (tool/stack_metadata), the comparison check-stackmaps makes of two      *)
(* binaries, and the searches of the runtime                               *)
(* (lib/stack_transformation/src/util.c).                                  *)
(*                                                                         *)
(* An object file is a record: recs, its stack map records, one per call,  *)
(* and saved, for each function in the order of the compiler's map how     *)
(* many registers it saves.  at gives the functions their addresses.       *)
(* Indices begin at 0 as in the code.                                      *)
(***************************************************************************)
EXTENDS Integers, Sequences, FiniteSetsExt, SequencesExt

CONSTANTS
  UINT64_MAX,       \* larger than the number of call sites
  start_id,
  X86               \* where a call pushes the return address

ASSUME IdAssumption ==
  start_id \in Nat /\ UINT64_MAX \in Nat /\ start_id < UINT64_MAX - 2

NULL == -1

(* The sum of the first i numbers of ns.                                   *)
SumOf(ns, i) ==
  LET sum[j \in 0..Len(ns)] == IF j = 0 THEN 0 ELSE sum[j - 1] + ns[j]
  IN  sum[i]

(* The elements of s that are in S, in their order.                        *)
Keep(s, S) ==
  LET keep[j \in 0..Len(s)] ==
        IF j = 0 THEN << >>
        ELSE IF s[j] \in S THEN Append(keep[j - 1], s[j]) ELSE keep[j - 1]
  IN  keep[Len(s)]

(* The elements of s by their keys, those with equal keys as they were.    *)
Upto(keys, i) ==
  {j \in DOMAIN keys : keys[j] < keys[i] \/ (keys[j] = keys[i] /\ j <= i)}
Nth(keys, k) == CHOOSE i \in DOMAIN keys : Cardinality(Upto(keys, i)) = k
Sorted(s, keys) == [k \in DOMAIN s |-> s[Nth(keys, k)]]

Slice(s, offset, n) == SubSeq(s, offset + 1, offset + n)

-----------------------------------------------------------------------------
(* Object files, and what the linker makes of their sections.              *)

(* recordUnwindInfo: only functions with a stack map have unwinding        *)
(* records.                                                                *)
hasStackMap(o, f) == \E i \in DOMAIN o.recs : o.recs[i].func = f
FuncCalleeSaved(o) == Keep(o.saved, {e \in Range(o.saved) : hasStackMap(o, e.func)})

(* emitUnwindInfo: the saved registers of f, in the order of the map.      *)
Registers(e) == [k \in 1..e.num |-> <<e.func, k>>]
emitUnwindInfo(o) ==
  LET csr == FuncCalleeSaved(o)
  IN  FlattenSeq([i \in DOMAIN csr |-> Registers(csr[i])])

(* emitAddrRangeInfo: the other map has the same order.                    *)
emitAddrRangeInfo(o, at) ==
  LET csr == FuncCalleeSaved(o)
  IN  [i \in DOMAIN csr |->
         [addr |-> at[csr[i].func], num_unwind |-> csr[i].num,
          unwind_offset |-> SumOf([j \in DOMAIN csr |-> csr[j].num], i - 1)]]

(* The linker puts the sections of the object files one after another.     *)
Linked(sections) == FlattenSeq(sections)

-----------------------------------------------------------------------------
(* gen-stackinfo.                                                          *)

Recompute(ua) ==
  [i \in DOMAIN ua |->
     [ua[i] EXCEPT !.unwind_offset = SumOf([j \in DOMAIN ua |-> ua[j].num_unwind], i - 1)]]
SortByAddr(s) == Sorted(s, [i \in DOMAIN s |-> s[i].addr])
SortById(s) == Sorted(s, [i \in DOMAIN s |-> s[i].id])

(* A bug: the offsets follow the sorted order.                             *)
SortedFirst(ua) == Recompute(SortByAddr(ua))

update_function_addr(ua) == SortByAddr(Recompute(ua))

(* A bug: the last record is never searched.                               *)
SearchButLast(addrs, addr) ==
  LET n == Len(addrs)
      search[lohi \in (0..n) \X (-1..(n - 1))] ==
        LET lo == lohi[1]
            hi == lohi[2]
            mid == (hi + lo) \div 2
            here == addrs[mid + 1].addr
        IN  IF hi < lo THEN NULL
            ELSE IF mid = n - 1 THEN NULL
            ELSE IF here <= addr /\ addr < addrs[mid + 2].addr THEN mid
            ELSE IF addr > here THEN search[<<mid + 1, hi>>]
            ELSE search[<<lo, mid - 1>>]
  IN  search[<<0, n - 1>>]

(* The search for the record of the function that an address is in; the    *)
(* last record has no end.                                                 *)
SearchRange(addrs, addr) ==
  LET n == Len(addrs)
      search[lohi \in (0..n) \X (-1..(n - 1))] ==
        LET lo == lohi[1]
            hi == lohi[2]
            mid == (hi + lo) \div 2
            here == addrs[mid + 1].addr
        IN  IF hi < lo THEN NULL
            ELSE IF mid = n - 1 THEN IF here <= addr THEN mid ELSE NULL
            ELSE IF here <= addr /\ addr < addrs[mid + 2].addr THEN mid
            ELSE IF addr > here THEN search[<<mid + 1, hi>>]
            ELSE search[<<lo, mid - 1>>]
  IN  search[<<0, n - 1>>]

get_func_unwind_data(addr, addrs) == SearchRange(addrs, addr)

(* Calls from the functions that start the program and its threads keep    *)
(* the ID of the stack map; the others are counted.                        *)
Special == {UINT64_MAX, UINT64_MAX - 1, UINT64_MAX - 2}
cfa_correction(arch, size) == IF arch = X86 THEN size + 8 ELSE size

CallSite(arch, recs, i, at, ua) ==
  LET r == recs[i]
      addr == at[r.func] + r.offset
      u == get_func_unwind_data(addr, ua)
  IN  [id |-> IF r.id \in Special THEN r.id
              ELSE start_id + SumOf([j \in DOMAIN recs |-> IF recs[j].id \in Special THEN 0 ELSE 1], i - 1),
       addr |-> addr,
       frame_size |-> cfa_correction(arch, r.stack_size),
       num_unwind |-> r.num_unwind,
       unwind_offset |-> IF u = NULL THEN NULL ELSE ua[u + 1].unwind_offset,
       num_live |-> Len(r.locs),
       live_offset |-> SumOf([j \in DOMAIN recs |-> Len(recs[j].locs)], i - 1),
       num_arch_live |-> r.arch_live,
       arch_live_offset |-> SumOf([j \in DOMAIN recs |-> recs[j].arch_live], i - 1)]

create_call_site_metadata(arch, recs, at, ua) ==
  [i \in DOMAIN recs |-> CallSite(arch, recs, i, at, ua)]

(* A run of gen-stackinfo on the binary of arch; it writes nothing unless  *)
(* every call site has its unwinding records.                              *)
add_sections(arch, objs, at) ==
  LET ua == update_function_addr(Linked([i \in DOMAIN objs |-> emitAddrRangeInfo(objs[i], at)]))
      recs == Linked([i \in DOMAIN objs |-> objs[i].recs])
      sites == create_call_site_metadata(arch, recs, at, ua)
  IN  IF ua = << >> \/ \E i \in DOMAIN sites : sites[i].unwind_offset = NULL
      THEN [written |-> FALSE]
      ELSE [written |-> TRUE,
            unwind_addrs |-> ua,
            unwind_locs |-> Linked([i \in DOMAIN objs |-> emitUnwindInfo(objs[i])]),
            sites_id |-> SortById(sites),
            sites_addr |-> SortByAddr(sites),
            live_vals |-> FlattenSeq([i \in DOMAIN recs |-> recs[i].locs]),
            arch_live_vals |->
              FlattenSeq([i \in DOMAIN recs |-> [k \in 1..recs[i].arch_live |-> recs[i].call]])]

-----------------------------------------------------------------------------
(* check-stackmaps, on the sections of two binaries.                       *)

NonDuplicate(locs) == Keep(locs, {v \in Range(locs) : ~v.is_duplicate})

(* The index after k and the duplicates that follow it.  The code reads    *)
(* one record too far at the end, where the loop stops anyhow.             *)
Skip(locs, k) ==
  Min({j \in (k + 1)..Len(locs) : j = Len(locs) \/ ~locs[j + 1].is_duplicate})

(* A bug: the numbers of values are not compared.                          *)
LocationsButCount(la, lb) ==
  \A k \in DOMAIN la \cap DOMAIN lb : la[k].size = lb[k].size

(* The loop stops at the number of values that are no duplicates, while    *)
(* its counters are indices into all location records.  size stands for    *)
(* all that is compared: size, pointer and alloca flags, alloca size.      *)
SameLocations(la, lb) ==
  LET na == Len(NonDuplicate(la))
      nb == Len(NonDuplicate(lb))
      same[kl \in (0..Len(la)) \X (0..Len(lb))] ==
        (kl[1] < na /\ kl[2] < nb) =>
          /\ la[kl[1] + 1].size = lb[kl[2] + 1].size
          /\ same[<<Skip(la, kl[1]), Skip(lb, kl[2])>>]
  IN  na = nb /\ same[<<0, 0>>]

SameRecord(ra, ata, rb, atb) ==
  ata[ra.func] = atb[rb.func] /\ SameLocations(ra.locs, rb.locs)

check_stackmaps(objsa, ata, objsb, atb) ==
  LET sa == Keep(objsa, {o \in Range(objsa) : o.recs # << >>})
      sb == Keep(objsb, {o \in Range(objsb) : o.recs # << >>})
  IN  /\ Len(sa) = Len(sb)
      /\ \A i \in DOMAIN sa :
           /\ Len(sa[i].recs) = Len(sb[i].recs)
           /\ \A j \in DOMAIN sa[i].recs : SameRecord(sa[i].recs[j], ata, sb[i].recs[j], atb)

-----------------------------------------------------------------------------
(* The runtime.                                                            *)

(* st_init: no handle without records of every kind but the last.          *)
st_init(b) ==
  /\ b.written
  /\ b.unwind_addrs # << >> /\ b.unwind_locs # << >>
  /\ b.sites_id # << >> /\ b.live_vals # << >>

(* A bug: the search ends when one site is left.                           *)
SearchWhileTwo(keys, want) ==
  LET n == Len(keys)
      search[lohi \in (0..n) \X (-1..(n - 1))] ==
        LET lo == lohi[1]
            hi == lohi[2]
            mid == (hi + lo) \div 2
        IN  IF hi <= lo THEN NULL
            ELSE IF keys[mid + 1] = want THEN mid
            ELSE IF want > keys[mid + 1] THEN search[<<mid + 1, hi>>]
            ELSE search[<<lo, mid - 1>>]
  IN  search[<<0, n - 1>>]

(* The search of get_site_by_addr and get_site_by_id.                      *)
Search(keys, want) ==
  LET n == Len(keys)
      search[lohi \in (0..n) \X (-1..(n - 1))] ==
        LET lo == lohi[1]
            hi == lohi[2]
            mid == (hi + lo) \div 2
        IN  IF hi < lo THEN NULL
            ELSE IF keys[mid + 1] = want THEN mid
            ELSE IF want > keys[mid + 1] THEN search[<<mid + 1, hi>>]
            ELSE search[<<lo, mid - 1>>]
  IN  search[<<0, n - 1>>]

Found(s, k) == IF k = NULL THEN {} ELSE {s[k + 1]}

(* What is found: a set of at most one site or record.                     *)
get_site_by_addr(h, ret_addr) ==
  Found(h.sites_addr, Search([k \in DOMAIN h.sites_addr |-> h.sites_addr[k].addr], ret_addr))
get_site_by_id(h, csid) ==
  Found(h.sites_id, Search([k \in DOMAIN h.sites_id |-> h.sites_id[k].id], csid))

(* A bug: no function is found for addresses in the last one.              *)
UnwindOffsetButLast(h, addr) == Found(h.unwind_addrs, SearchButLast(h.unwind_addrs, addr))

get_unwind_offset_by_addr(h, addr) == Found(h.unwind_addrs, SearchRange(h.unwind_addrs, addr))
get_function_address(h, pc) == {u.addr : u \in get_unwind_offset_by_addr(h, pc)}
=============================================================================
