------------------------------ MODULE StackFrames ------------------------------
(***************************************************************************)
(* Frames as the stack transformation library sees them                    *)
(* (lib/stack_transformation: data.c, unwind.c, src/arch): where a live    *)
(* value is, where a callee-saved register really lives, and what popping  *)
(* a frame restores.  Addresses and sizes are counted in 8-byte words.     *)
(*                                                                         *)
(* A context is a record [arch, acts]; act 1 is the outermost frame (the   *)
(* most recent call; acts[0] in the code), and each activation a record    *)
(*   [fn, cfa, regs, saved]                                                *)
(* saved being the bitmap callee_saved.  A location is a live_value, a     *)
(* record [kind, dup, type, reg, off, size] with kind in {"data", "ptr",   *)
(* "alloca"} and type in {"register", "direct", "indirect", "constant"}.   *)
(***************************************************************************)
EXTENDS Integers, Sequences

CONSTANTS
  Site(_, _),     \* Site(arch, fn): the call_site record of fn's one call site
  SiteAddr(_, _), \* SiteAddr(arch, fn): its return address
  ConstBits       \* the width of offset_or_constant

Archs == {"x86_64", "aarch64"}
Regs == {"sp", "fbp", "pc", "ra", "r1", "r2", "r3"}

(* is_callee_saved: all of those a value can be live in across a call      *)
CalleeSaved == {"r1", "r2", "r3"}

(* properties_x86_64 and properties_aarch64, in words                      *)
has_ra_reg(arch) == arch = "aarch64"
cfa_offset_funcentry(arch) == IF arch = "x86_64" THEN 1 ELSE 0
ra_offset == -1
savedfbp_offset == -2
setup_fbp(cfa) == cfa - 2

(* Mutant: the stack pointer is left as it is.                             *)
align_spNever(arch, sp) == sp

align_sp(arch, sp) ==
  IF arch = "x86_64" /\ (sp + 1) % 2 # 0 THEN sp - 1 ELSE sp

NoRegs == [r \in Regs |-> 0]

-----------------------------------------------------------------------------
(* get_val_loc: the word of memory a stack location stands for             *)
Addr(ctx, act, val) == ctx.acts[act].regs[val.reg] + val.off

(* get_src_loc and what is read there: a constant is read as a whole word  *)
(* from a field of ConstBits bits, so that its sign is lost                *)
ReadWord(ctx, mem, act, val) ==
  CASE val.type = "register" -> ctx.acts[act].regs[val.reg]
    [] val.type = "constant" -> val.off % 2^ConstBits
    [] OTHER -> mem[Addr(ctx, act, val)]

(* Mutant: only the next younger frame is looked at.                       *)
SaverNextOnly(ctx, reg, act) ==
  {k \in 1 .. act - 1 : k = act - 1 /\ reg \in ctx.acts[k].saved}

(* callee_saved_loc: the younger frames that saved reg                     *)
Saver(ctx, reg, act) == {k \in 1 .. act - 1 : reg \in ctx.acts[k].saved}

(* ... of which the one nearest to act holds act's value of it             *)
Nearest(S) == CHOOSE k \in S : \A l \in S : l <= k

(* get_register_save_loc                                                   *)
SaveLoc(ctx, reg, k) ==
  ctx.acts[k].regs["fbp"] + Site(ctx.arch, ctx.acts[k].fn).saved[reg]

(* put_val and put_val_data for one word, on world = [ctx, mem]: into the  *)
(* frame's own register set and, for a callee-saved register, where it is  *)
(* saved or into the outermost frame's registers if it still is live there *)
PutRegister(world, act, reg, word) ==
  LET ctx == world.ctx
      own == [world EXCEPT !.ctx.acts[act].regs[reg] = word]
  IN  IF reg \notin CalleeSaved \/ act = 1
        THEN own
        ELSE IF Saver(ctx, reg, act) # {}
               THEN [own EXCEPT
                       !.mem[SaveLoc(ctx, reg, Nearest(Saver(ctx, reg, act)))] = word]
               ELSE [own EXCEPT !.ctx.acts[1].regs[reg] = word]

PutWord(world, act, val, word) ==
  CASE val.type = "register" -> PutRegister(world, act, val.reg, word)
    [] val.type = "constant" -> world
    [] OTHER -> [world EXCEPT !.mem[Addr(world.ctx, act, val)] = word]

(* put_val of an alloca copies all of it.                                  *)
PutAlloca(world, act, val, from) ==
  LET to == Addr(world.ctx, act, val)
  IN  [world EXCEPT !.mem =
         [a \in DOMAIN @ |-> IF a - to \in 0 .. val.size - 1 THEN @[from + a - to] ELSE @[a]]]

(* points_to_data: ptr points into the alloca val                          *)
PointsInto(ctx, act, val, ptr) ==
  val.kind = "alloca" /\ ptr - Addr(ctx, act, val) \in 0 .. val.size - 1

-----------------------------------------------------------------------------
(* setup_regset and restore_callee_saved_regs: the registers of act's      *)
(* caller, as far as act's frame says                                      *)
CallerRegs(ctx, mem, act) ==
  LET a == ctx.acts[act]
      saved == Site(ctx.arch, a.fn).saved
      restored == [r \in Regs |-> IF r \in DOMAIN saved THEN mem[a.regs["fbp"] + saved[r]]
                                                        ELSE a.regs[r]]
  IN  IF has_ra_reg(ctx.arch) THEN [restored EXCEPT !["pc"] = restored["ra"]]
                              ELSE restored

(* setup_frame_bounds for the caller of an activation that ends at sp      *)
WithBounds(arch, fn, regs, sp) ==
  LET cfa == sp + Site(arch, fn).size
  IN  [fn |-> fn, cfa |-> cfa, saved |-> {},
       regs |-> [regs EXCEPT !["sp"] = sp, !["fbp"] = setup_fbp(cfa)]]
=============================================================================
