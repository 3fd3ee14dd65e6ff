----------------------------- MODULE StackRewrite -----------------------------
(***************************************************************************)
(* Stack transformation (lib/stack_transformation/src/rewrite.c): a thread *)
(* of a multi-ISA binary runs on one architecture until it calls the       *)
(* migration shim; st_rewrite_stack then builds, on the other half of its  *)
(* stack, the frames the same calls would have on the other architecture;  *)
(* and the thread goes on there, returning through these frames.           *)
(*                                                                         *)
(* The program (external) is a chain of calls of the functions the         *)
(* metadata describes; chain[1] is the start function.                     *)
(***************************************************************************)
EXTENDS StackFrames, SequencesExt, Bitwise

CONSTANTS
  Functions,       \* the program's functions
  FnAddr(_),       \* where a function begins, in both binaries
  Start, Shim,     \* the function that starts the thread, and the migration shim
  MaxCalls,        \* bound on the calls between the two
  MaxPointers,     \* bound on their pointers to the stack
  SrcBase, DestBase, Half   \* the bases of the two halves of the stack, and their size

ASSUME HalvesAssumption == DestBase = SrcBase - Half /\ Half \in Nat

VARIABLES
  phase,
  from,        \* the architecture the thread comes from
  mem, cpu,    \* the stack and the registers of the thread
  chain,       \* history: the calls, [fn, fbp, target], oldest first
  src, dest,   \* the two rewrite contexts
  act,         \* src->act and dest->act, which go together
  i, j,        \* indices of the live values, in rewrite_frame
  needs,       \* needs_local_fixup
  fixups,      \* dest->stack_pointers
  node, found  \* fixup_node and found_fixup, in fixup_local_pointers

vars == <<phase, from, mem, cpu, chain, src, dest, act, i, j, needs, fixups, node, found>>
frameVars == <<i, j, needs>>
fixupVars == <<fixups, node, found>>

to == IF from = "x86_64" THEN "aarch64" ELSE "x86_64"
AllFns == Functions \cup {Start, Shim}
Live(arch, fn) == Site(arch, fn).live

(* The values of a site: its records that are no duplicates, which both    *)
(* architectures list in the same order.                                   *)
Values(arch, fn) == SelectSeq(Live(arch, fn), LAMBDA val : ~val.dup)
ValueOf(arch, fn, k) == Cardinality({l \in 1 .. k : ~Live(arch, fn)[l].dup})

(* A va_list is 24 bytes on x86-64 and 32 on aarch64.                      *)
IsVaList(val) == val.kind = "alloca" /\ val.size \in {3, 4}

-----------------------------------------------------------------------------
(* The running program (external)                                          *)

(* What the program stores in word o of value v of the d-th call           *)
Token(d, v, o) == 32 * d + 4 * v + o
Heap == 15

Pointers(fn) == {v \in DOMAIN Values(from, fn) : Values(from, fn)[v].kind = "ptr"}

(* Where a pointer of the d-th call may point: to a word of an alloca, or  *)
(* to a va_list, of the same or an older call, outside of the stack, or    *)
(* nowhere (to what a call that has returned left behind).                 *)
Words(d, fn) ==
  {[d |-> d, v |-> v, o |-> o] : v \in DOMAIN Values(from, fn), o \in 0 .. 3}
Buffer(t, fn) ==
  LET val == Values(from, fn)[t.v]
  IN  val.kind = "alloca" /\ t.o < (IF IsVaList(val) THEN 1 ELSE val.size)
Dangling == [d |-> -1, v |-> 0, o |-> 0]
Outside == [d |-> 0, v |-> 0, o |-> 0]
Targets(fn) ==
  LET own == Len(chain) + 1
      fnOf(d) == IF d = own THEN fn ELSE chain[d].fn
  IN  {Dangling, Outside}
        \cup {t \in UNION {Words(d, fnOf(d)) : d \in 1 .. own} : Buffer(t, fnOf(t.d))}

(* The word value v of the d-th call holds on arch, its frame pointer      *)
(* being fbp and those of the older frames fbps                            *)
Word(arch, d, fn, v, target, fbps) ==
  LET val == Values(arch, fn)[v]
      consts == {a \in Archs : Values(a, fn)[v].type = "constant"}
      pointee == Values(arch, IF target[v].d = d THEN fn ELSE chain[target[v].d].fn)[target[v].v]
  IN  CASE consts # {} -> Values(CHOOSE a \in consts : TRUE, fn)[v].off
        [] consts = {} /\ val.kind # "ptr" -> Token(d, v, 0)
        [] val.kind = "ptr" /\ target[v] = Outside -> Heap
        [] val.kind = "ptr" /\ target[v] = Dangling -> fbps[d] + 1 - Site(arch, fn).size
        [] OTHER -> fbps[target[v].d] + pointee.off + target[v].o

(* A call: the callee's prologue saves registers, its body uses some of    *)
(* them and its frame, up to its own call site.                            *)
Call(fn, target, next) ==
  LET site == Site(from, fn)
      fbp == setup_fbp(cpu["sp"])
      d == Len(chain) + 1
      fbps == [k \in 1 .. d |-> IF k = d THEN fbp ELSE chain[k].fbp]
      caller == [cpu EXCEPT !["ra"] = cpu["pc"]]
      word(k) == Word(from, d, fn, ValueOf(from, fn, k), target, fbps)
      live(type) == {k \in DOMAIN site.live : site.live[k].type = type}
      saved(a) == {r \in DOMAIN site.saved : fbp + site.saved[r] = a}
      spilled(a) == {k \in live("indirect") : fbp + site.live[k].off = a}
      buffer(a) == {k \in live("direct") :
                      a - (fbp + site.live[k].off) \in 0 .. site.live[k].size - 1}
      held(r) == {k \in live("register") : site.live[k].reg = r}
      any(S) == CHOOSE x \in S : TRUE
  IN  /\ mem' = [a \in DOMAIN mem |->
           CASE a - fbp \notin 2 - site.size .. 1 -> mem[a]
             [] saved(a) # {} -> caller[any(saved(a))]
             [] spilled(a) # {} -> word(any(spilled(a)))
             [] buffer(a) # {} ->
                  LET k == any(buffer(a))
                  IN  Token(d, ValueOf(from, fn, k), a - (fbp + site.live[k].off))
             [] OTHER -> mem[a]]
      /\ cpu' = [r \in Regs |->
           CASE r = "sp" -> cpu["sp"] - site.size
             [] r = "fbp" -> fbp
             [] r = "pc" -> SiteAddr(from, fn)
             [] held(r) # {} -> word(any(held(r)))
             [] r \in DOMAIN site.saved /\ held(r) = {} -> 0
             [] OTHER -> cpu[r]]
      /\ chain' = Append(chain, [fn |-> fn, fbp |-> fbp, target |-> target])
      /\ phase' = next
      /\ UNCHANGED <<from, src, dest, act, frameVars, fixupVars>>

NoContext == [arch |-> "none", acts |-> << >>]

Init ==
  /\ phase = "run"
  /\ from \in Archs
  /\ mem = [a \in SrcBase - 2 * Half .. SrcBase - 1 |-> 0]
  /\ cpu = [NoRegs EXCEPT !["sp"] = SrcBase - Site(from, Start).size,
                          !["fbp"] = SrcBase - 2, !["pc"] = SiteAddr(from, Start)]
  /\ chain = <<[fn |-> Start, fbp |-> SrcBase - 2, target |-> << >>]>>
  /\ src = NoContext /\ dest = NoContext
  /\ act = 1 /\ i = 1 /\ j = 1 /\ needs = FALSE
  /\ fixups = << >> /\ node = 1 /\ found = FALSE

StackPointers(target) == Cardinality({v \in DOMAIN target : target[v] # Outside})

ProgramCalls ==
  /\ phase = "run"
  /\ Len(chain) <= MaxCalls
  /\ \E fn \in Functions : \E target \in [Pointers(fn) -> Targets(fn)] :
       /\ FoldLeft(LAMBDA n, call : n + StackPointers(call.target),
                   StackPointers(target), chain) <= MaxPointers
       /\ Call(fn, target, "run")

ProgramMigrates ==
  /\ phase = "run"
  /\ Len(chain) > 1
  /\ Call(Shim, << >>, "init")

-----------------------------------------------------------------------------
(* init_src_context and init_dest_context: the destination is set up as if *)
(* it entered the function that the source is in                           *)
SiteByAddr(arch, addr) == CHOOSE fn \in AllFns : SiteAddr(arch, fn) = addr
get_function_address(arch, addr) == FnAddr(SiteByAddr(arch, addr))

InitContexts ==
  /\ phase = "init"
  /\ LET fn == SiteByAddr(from, cpu["pc"])
         blank == [fn |-> fn, cfa |-> 0, regs |-> NoRegs, saved |-> {}]
     IN  /\ src' = [arch |-> from,
                    acts |-> <<[blank EXCEPT !.cfa = cpu["sp"] + Site(from, fn).size,
                                             !.regs = cpu]>>]
         /\ dest' = [arch |-> to,
                     acts |-> <<[blank EXCEPT !.regs["pc"] =
                                                get_function_address(from, cpu["pc"])]>>]
  /\ fixups' = << >>
  /\ phase' = "unwind"
  /\ UNCHANGED <<from, mem, cpu, chain, act, frameVars, node, found>>

(* unwind_and_size: one turn of its loop, which ends at the start function *)
Unwind ==
  /\ phase = "unwind"
  /\ LET top == Len(src.acts)
         sp == src.acts[top].cfa
         regs == [CallerRegs(src, mem, top) EXCEPT !["sp"] = sp]
         fn == SiteByAddr(from, regs["pc"])
     IN  /\ src' = [src EXCEPT !.acts = Append(@,
                      [fn |-> fn, cfa |-> sp + Site(from, fn).size, regs |-> regs, saved |-> {}])]
         /\ dest' = [dest EXCEPT !.acts = Append(@,
                       [fn |-> fn, cfa |-> 0, regs |-> NoRegs, saved |-> {}])]
         /\ phase' = IF fn = Start THEN "size" ELSE "unwind"
  /\ UNCHANGED <<from, mem, cpu, chain, act, frameVars, fixupVars>>

(* Mutant: the frames are as large as they were.                           *)
stack_sizeOfSource ==
  FoldLeft(LAMBDA sum, a : sum + Site(from, a.fn).size, 0, Tail(dest.acts))

stack_size ==
  FoldLeft(LAMBDA sum, a : sum + Site(to, a.fn).size, 0, Tail(dest.acts))

(* ... and its end: one more frame is popped, the start function's, into   *)
(* an activation that has no call site; then the destination stack and its *)
(* outermost activation, as on entry to the function                       *)
SizeStack ==
  /\ phase = "size"
  /\ LET top == Len(src.acts)
         regs == [CallerRegs(src, mem, top) EXCEPT !["sp"] = src.acts[top].cfa]
     IN  src' = [src EXCEPT !.acts = Append(@,
                   [fn |-> "none", cfa |-> 0, regs |-> regs, saved |-> {}])]
  /\ LET sp == align_sp(to, DestBase - stack_size)
     IN  dest' = [dest EXCEPT !.acts[1].regs["sp"] = sp,
                              !.acts[1].cfa = sp + cfa_offset_funcentry(to)]
  /\ phase' = "entry"
  /\ UNCHANGED <<from, mem, cpu, chain, act, frameVars, fixupVars>>

(* set_return_address_funcentry and pop_frame_funcentry                    *)
RewriteEntry ==
  /\ phase = "entry"
  /\ LET retaddr == SiteAddr(to, dest.acts[2].fn)
         cfa == dest.acts[1].cfa
         regs == IF has_ra_reg(to) THEN [dest.acts[1].regs EXCEPT !["ra"] = retaddr]
                                   ELSE dest.acts[1].regs
         next == WithBounds(to, dest.acts[2].fn, [regs EXCEPT !["pc"] = retaddr], cfa)
     IN  /\ mem' = IF has_ra_reg(to) THEN mem ELSE [mem EXCEPT ![cfa + ra_offset] = retaddr]
         /\ dest' = [dest EXCEPT !.acts[2] = next,
                                 !.acts[1].regs = [regs EXCEPT !["fbp"] = next.regs["fbp"]]]
  /\ act' = 2
  /\ phase' = "frame"
  /\ UNCHANGED <<from, cpu, chain, src, frameVars, fixupVars>>

-----------------------------------------------------------------------------
(* The loop over the frames; the start function's is not rewritten         *)
BeginFrame ==
  /\ phase = "frame"
  /\ act < Len(src.acts) - 1
  /\ mem' = [mem EXCEPT ![dest.acts[act].cfa + ra_offset] =
                          SiteAddr(to, dest.acts[act + 1].fn)]
  /\ i' = 1 /\ j' = 1 /\ needs' = FALSE
  /\ phase' = "values"
  /\ UNCHANGED <<from, cpu, chain, src, dest, act, fixupVars>>

SrcLive == Live(from, src.acts[act].fn)
DestLive == Live(to, dest.acts[act].fn)

(* points_to_stack, 0 standing for NULL                                    *)
PointsToStack(val) ==
  LET word == ReadWord(src, mem, act, val)
  IN  IF val.kind = "ptr" /\ src.acts[1].regs["sp"] <= word /\ word < SrcBase
        THEN word ELSE 0

(* The fixups that point into the alloca vs are applied, and dropped.      *)
Resolve(world, list, vs, vd) ==
  LET reify(addr) == Addr(world.ctx, act, vd) + (addr - Addr(src, act, vs))
  IN  FoldLeft(LAMBDA w, f : PutWord(w, f.act, f.loc, reify(f.addr)), world,
               SelectSeq(list, LAMBDA f : PointsInto(src, act, vs, f.addr)))

Unresolved(list, vs) == SelectSeq(list, LAMBDA f : ~PointsInto(src, act, vs, f.addr))

(* The next record that is no duplicate: live_vals[k + 1] belongs to the   *)
(* next call site when k is the last record of this one.                   *)
PastDuplicates(live, k) ==
  CHOOSE l \in k + 1 .. Len(live) + 1 :
    /\ l = Len(live) + 1 \/ ~live[l].dup
    /\ \A m \in k + 1 .. l - 1 : live[m].dup

(* The indices of rewrite_frame after the record j of the destination      *)
Advance ==
  /\ j' = j + 1
  /\ i' = IF j < Len(DestLive) /\ DestLive[j + 1].dup THEN i ELSE PastDuplicates(SrcLive, i)

Copied(vs, vd) ==
  IF vs.kind = "alloca"
    THEN PutAlloca([ctx |-> dest, mem |-> mem], act, vd, Addr(src, act, vs))
    ELSE PutWord([ctx |-> dest, mem |-> mem], act, vd, ReadWord(src, mem, act, vs))

IsVaListPair(vs, vd) ==
  vs.kind = "alloca" /\ vd.kind = "alloca" /\ {vs.size, vd.size} = {3, 4}

SkipVaList ==
  /\ phase = "values" /\ j <= Len(DestLive)
  /\ IsVaListPair(SrcLive[i], DestLive[j])
  /\ Advance
  /\ UNCHANGED <<phase, from, mem, cpu, chain, src, dest, act, needs, fixupVars>>

(* Mutant: an alloca met after the pointers to it is not matched.          *)
CopyValUnmatched ==
  /\ phase = "values" /\ j <= Len(DestLive)
  /\ LET vs == SrcLive[i]
         vd == DestLive[j]
         world == Copied(vs, vd)
     IN  /\ PointsToStack(vs) = 0 /\ ~IsVaListPair(vs, vd)
         /\ mem' = world.mem /\ dest' = world.ctx
         /\ UNCHANGED fixups
  /\ Advance
  /\ UNCHANGED <<phase, from, cpu, chain, src, act, needs, node, found>>

(* rewrite_val of a value that is no pointer to the stack                  *)
CopyVal ==
  /\ phase = "values" /\ j <= Len(DestLive)
  /\ LET vs == SrcLive[i]
         vd == DestLive[j]
         world == IF vs.kind = "alloca" THEN Resolve(Copied(vs, vd), fixups, vs, vd)
                                        ELSE Copied(vs, vd)
     IN  /\ PointsToStack(vs) = 0 /\ ~IsVaListPair(vs, vd)
         /\ mem' = world.mem /\ dest' = world.ctx
         /\ fixups' = Unresolved(fixups, vs)
  /\ Advance
  /\ UNCHANGED <<phase, from, cpu, chain, src, act, needs, node, found>>

(* ... and of one that is: a fixup, unless it points to a younger frame    *)
RecordFixup ==
  /\ phase = "values" /\ j <= Len(DestLive)
  /\ LET ptr == PointsToStack(SrcLive[i])
         upward == ptr >= src.acts[act - 1].cfa
     IN  /\ ptr # 0
         /\ fixups' = IF upward THEN Append(fixups, [addr |-> ptr, act |-> act, loc |-> DestLive[j]])
                                ELSE fixups
         /\ needs' = (needs \/ (upward /\ ptr < src.acts[act].cfa))
  /\ Advance
  /\ UNCHANGED <<phase, from, mem, cpu, chain, src, dest, act, node, found>>

-----------------------------------------------------------------------------
(* put_val_arch.  The word is unsigned, so both shifts to the right are    *)
(* logical.                                                                *)
Operand(ctx, val) ==
  CASE val.operand.type = "constant" -> val.operand.off
    [] val.operand.type = "register" -> ctx.acts[act].regs[val.operand.reg]
    [] OTHER -> Addr(ctx, act, val.operand)

PutArch(world, val) ==
  LET old == ReadWord(world.ctx, world.mem, act, val.loc)
      operand == Operand(world.ctx, val)
  IN  PutWord(world, act, val.loc,
              CASE val.inst = "Set" -> operand
                [] val.inst = "Add" -> old + operand
                [] val.inst = "Subtract" -> old - operand
                [] val.inst = "Multiply" -> old * operand
                [] val.inst = "Divide" -> old \div operand
                [] val.inst = "LeftShift" -> old * 2^operand
                [] val.inst \in {"RightShiftLog", "RightShiftArith"} -> old \div 2^operand
                [] val.inst = "Mask" -> old & operand)

ArchLive == Site(to, dest.acts[act].fn).arch
Loads == \E k \in DOMAIN ArchLive : ArchLive[k].inst = "Load"

(* The end of rewrite_frame, but for the local fixups.  found_fixup is not *)
(* initialized.                                                            *)
ArchVals ==
  /\ phase = "values" /\ j > Len(DestLive)
  /\ ~Loads
  /\ LET world == FoldLeft(PutArch, [ctx |-> dest, mem |-> mem], ArchLive)
     IN  mem' = world.mem /\ dest' = world.ctx
  /\ phase' = IF needs THEN "fixups" ELSE "pop"
  /\ node' = 1
  /\ found' \in IF needs THEN BOOLEAN ELSE {FALSE}
  /\ UNCHANGED <<from, cpu, chain, src, act, frameVars, fixups>>

(* apply_arch_operation runs from the case of Load into the default: exit  *)
ArchLoadExits ==
  /\ phase = "values" /\ j > Len(DestLive)
  /\ Loads
  /\ phase' = "exited"
  /\ UNCHANGED <<from, mem, cpu, chain, src, dest, act, frameVars, fixupVars>>

-----------------------------------------------------------------------------
(* fixup_local_pointers, one fixup at a time                               *)

(* The allocas of the frame a fixup points into                            *)
Pointees(f) ==
  LET ss == Values(from, src.acts[act].fn)
      ds == Values(to, dest.acts[act].fn)
  IN  {k \in DOMAIN ss : ds[k].kind = "alloca" /\ PointsInto(src, act, ss[k], f.addr)}

(* A fixup for an older frame: the loop goes on to the next one only if    *)
(* found_fixup, left from the fixup before, is false; otherwise it comes   *)
(* back to this one for ever, which is a step that changes nothing.        *)
FixupElsewhere ==
  /\ phase = "fixups" /\ node <= Len(fixups)
  /\ fixups[node].addr > src.acts[act].cfa
  /\ node' = IF found THEN node ELSE node + 1
  /\ UNCHANGED <<phase, from, mem, cpu, chain, src, dest, act, frameVars, fixups, found>>

(* An unresolved one of a younger frame                                    *)
FixupStale ==
  /\ phase = "fixups" /\ node <= Len(fixups)
  /\ fixups[node].addr <= src.acts[act].cfa
  /\ fixups[node].act # act
  /\ node' = node + 1
  /\ UNCHANGED <<phase, from, mem, cpu, chain, src, dest, act, frameVars, fixups, found>>

FixupLocal ==
  /\ phase = "fixups" /\ node <= Len(fixups)
  /\ fixups[node].addr <= src.acts[act].cfa
  /\ fixups[node].act = act
  /\ LET f == fixups[node]
         hit == Pointees(f)
         k == CHOOSE k \in hit : \A l \in hit : k <= l
         world == Resolve([ctx |-> dest, mem |-> mem], <<f>>,
                          Values(from, src.acts[act].fn)[k], Values(to, dest.acts[act].fn)[k])
     IN  IF hit # {}
           THEN /\ mem' = world.mem /\ dest' = world.ctx
                /\ fixups' = RemoveAt(fixups, node)
                /\ node' = node
           ELSE /\ node' = node + 1
                /\ UNCHANGED <<mem, dest, fixups>>
  /\ found' = (Pointees(fixups[node]) # {})
  /\ UNCHANGED <<phase, from, cpu, chain, src, act, frameVars>>

FixupsDone ==
  /\ phase = "fixups" /\ node > Len(fixups)
  /\ phase' = "pop"
  /\ UNCHANGED <<from, mem, cpu, chain, src, dest, act, frameVars, fixupVars>>

(* pop_frame(dest, true), and the caller's frame pointer into its slot     *)
PopFrame ==
  /\ phase = "pop"
  /\ LET this == dest.acts[act]
         next == WithBounds(to, dest.acts[act + 1].fn, CallerRegs(dest, mem, act), this.cfa)
     IN  /\ dest' = [dest EXCEPT !.acts[act].saved = DOMAIN Site(to, this.fn).saved,
                                 !.acts[act + 1] = next]
         /\ mem' = [mem EXCEPT ![this.cfa + savedfbp_offset] = next.regs["fbp"]]
  /\ act' = act + 1
  /\ phase' = "frame"
  /\ UNCHANGED <<from, cpu, chain, src, frameVars, fixupVars>>

(* The registers are copied out and the contexts, with the fixups nobody   *)
(* resolved, are freed.                                                    *)
CopyOut ==
  /\ phase = "frame"
  /\ act = Len(src.acts) - 1
  /\ cpu' = dest.acts[1].regs
  /\ act' = 1
  /\ fixups' = << >>
  /\ phase' = "resumed"
  /\ UNCHANGED <<from, mem, chain, src, dest, frameVars, node, found>>

-----------------------------------------------------------------------------
(* The thread on the other architecture (external): the shim returns from  *)
(* its entry, and each function by its epilogue.  act is the frame it is   *)
(* in.                                                                     *)
ShimReturns ==
  /\ phase = "resumed" /\ act = 1
  /\ cpu' = IF has_ra_reg(to)
              THEN [cpu EXCEPT !["pc"] = cpu["ra"]]
              ELSE [cpu EXCEPT !["pc"] = mem[cpu["sp"]], !["sp"] = @ + 1]
  /\ act' = 2
  /\ UNCHANGED <<phase, from, mem, chain, src, dest, frameVars, fixupVars>>

Returns ==
  /\ phase = "resumed" /\ act > 1 /\ act < Len(dest.acts)
  /\ LET saved == Site(to, dest.acts[act].fn).saved
         restored == [r \in Regs |-> IF r \in DOMAIN saved THEN mem[cpu["fbp"] + saved[r]]
                                                           ELSE cpu[r]]
     IN  cpu' = [restored EXCEPT !["sp"] = cpu["fbp"] + 2,
                                 !["pc"] = IF has_ra_reg(to) THEN restored["ra"] ELSE @]
  /\ act' = act + 1
  /\ UNCHANGED <<phase, from, mem, chain, src, dest, frameVars, fixupVars>>

(* Back in the start function, or gone                                     *)
Over ==
  /\ phase = "exited" \/ (phase = "resumed" /\ act = Len(dest.acts))
  /\ UNCHANGED vars

Rewrite ==
  \/ InitContexts \/ Unwind \/ SizeStack \/ RewriteEntry
  \/ BeginFrame \/ SkipVaList \/ CopyVal \/ RecordFixup \/ ArchVals \/ ArchLoadExits
  \/ FixupElsewhere \/ FixupStale \/ FixupLocal \/ FixupsDone
  \/ PopFrame \/ CopyOut

Next ==
  \/ ProgramCalls \/ ProgramMigrates
  \/ Rewrite
  \/ ShimReturns \/ Returns \/ Over

Spec == Init /\ [][Next]_vars

(* st_rewrite_stack is called by the thread itself, which keeps running.   *)
FairSpec == Spec /\ WF_vars(Rewrite)

-----------------------------------------------------------------------------
Depth == Len(chain) + 1 - act       \* the call the thread has returned to
Resumed == phase = "resumed" /\ act > 1

(* Frame pointers of the calls on the destination stack                    *)
DestFbps == [d \in 1 .. Len(chain) |-> dest.acts[Len(chain) + 1 - d].regs["fbp"]]

(* After the migration the thread returns through the calls it made before *)
(* it: it enters the shim at its beginning, with the alignment the ABI     *)
(* asks for; every return lands behind the call in the destination's code, *)
(* with the stack and frame pointers of a frame of that function; and the  *)
(* oldest frame ends at the stack's base.                                  *)
ReturnsThroughItsCalls ==
  /\ phase = "resumed" /\ act = 1 =>
       /\ cpu["pc"] = FnAddr(Shim)
       /\ to = "x86_64" => (cpu["sp"] + 1) % 2 = 0
  /\ Resumed =>
       /\ cpu["pc"] = SiteAddr(to, chain[Depth].fn)
       /\ cpu["fbp"] = DestFbps[Depth]
       /\ cpu["sp"] + Site(to, chain[Depth].fn).size = cpu["fbp"] + 2
       /\ act = Len(dest.acts) => cpu["fbp"] + 2 = DestBase

(* Where the thread finds a live value now                                 *)
Found(val, o) ==
  CASE val.type = "register" -> cpu[val.reg]
    [] val.type = "constant" -> val.off
    [] OTHER -> mem[cpu[val.reg] + val.off + o]

LiveHere == {k \in DOMAIN Live(to, chain[Depth].fn) : ~IsVaList(Live(to, chain[Depth].fn)[k])}

(* In every frame the thread returns to, every location of every live      *)
(* value (duplicates, registers that other frames saved, buffers and       *)
(* constants included) holds what it held before the migration.            *)
LiveValuesCarried ==
  Resumed =>
    \A k \in LiveHere :
      LET fn == chain[Depth].fn
          val == Live(to, fn)[k]
          v == ValueOf(to, fn, k)
      IN  CASE val.kind = "data" ->
                 Found(val, 0) = Word(to, Depth, fn, v, chain[Depth].target, DestFbps)
            [] val.kind = "alloca" ->
                 \A o \in 0 .. val.size - 1 : Found(val, o) = Token(Depth, v, o)
            [] OTHER -> TRUE

GivenUp(t) ==
  \/ t = Dangling
  \/ t.d > 0 /\ IsVaList(Values(from, chain[t.d].fn)[t.v])

(* In every frame the thread returns to, a pointer to a local variable of  *)
(* that or of an older call points to the same byte of the same variable   *)
(* on the destination stack, and other pointers are unchanged; only those  *)
(* to a va_list or to calls that have returned are given up.               *)
PointersReified ==
  Resumed =>
    \A k \in LiveHere :
      LET fn == chain[Depth].fn
          val == Live(to, fn)[k]
          v == ValueOf(to, fn, k)
      IN  val.kind = "ptr" /\ ~GivenUp(chain[Depth].target[v]) =>
            Found(val, 0) = Word(to, Depth, fn, v, chain[Depth].target, DestFbps)

(* The transformation never writes to the stack it reads: until the last   *)
(* value is copied, nothing of the source half changes.                    *)
SourceUntouched ==
  [][phase # "run" => \A a \in DestBase .. SrcBase - 1 : mem'[a] = mem[a]]_vars

(* A migration ends: st_rewrite_stack returns, or gives up.                *)
RewriteEnds == phase = "init" ~> phase \in {"resumed", "exited"}
=============================================================================
