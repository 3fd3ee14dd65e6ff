---------------------------- MODULE MCStackRewrite ----------------------------
(***************************************************************************)
(* A small program for StackRewrite, with the metadata a compiler could    *)
(* emit for it on both architectures: frames of different sizes, values    *)
(* live in different registers, spilled, duplicated or folded into         *)
(* constants, pointers before and after what they point to.                *)
(***************************************************************************)
EXTENDS StackRewrite

Val(kind, type, reg, off, size) ==
  [kind |-> kind, dup |-> FALSE, type |-> type, reg |-> reg, off |-> off, size |-> size]
Reg(kind, r) == Val(kind, "register", r, 0, 1)
Slot(kind, off) == Val(kind, "indirect", "fbp", off, 1)
Buf(off, size) == Val("alloca", "direct", "fbp", off, size)
Const(c) == Val("data", "constant", "sp", c, 1)
Dup(val) == [val EXCEPT !.dup = TRUE]

(* The return address and the caller's frame pointer are always saved.     *)
Saved(arch, slots) ==
  [r \in {"fbp", IF arch = "x86_64" THEN "pc" ELSE "ra"} \cup DOMAIN slots |->
     IF r = "fbp" THEN 0 ELSE IF r \in {"pc", "ra"} THEN 1 ELSE slots[r]]

Frame(arch, size, slots, live, archlive) ==
  [size |-> size, saved |-> Saved(arch, slots), live |-> live, arch |-> archlive]
None == [r \in {} |-> 0]

SetR3 == [loc |-> Reg("data", "r3"), inst |-> "Set", operand |-> Buf(-2, 1)]
OnSlot(inst, c) == [loc |-> Slot("data", -2), inst |-> inst, operand |-> Const(c)]
Compute == <<OnSlot("Set", 5), OnSlot("LeftShift", 2), OnSlot("Add", 3), OnSlot("Divide", 2),
             OnSlot("Multiply", 6), OnSlot("Subtract", 2), OnSlot("RightShiftArith", 1),
             OnSlot("RightShiftLog", 1), OnSlot("Mask", 24)>>
LoadR3 == [loc |-> Reg("data", "r3"), inst |-> "Load", operand |-> Buf(-2, 1)]

MCSite(arch, fn) ==
  LET x86 == arch = "x86_64"
  IN
  CASE fn = "start" -> [size |-> 2, saved |-> None, live |-> << >>, arch |-> << >>]
    [] fn = "shim" ->
         IF x86 THEN Frame(arch, 4, [r1 |-> -1], << >>, << >>)
                ELSE Frame(arch, 2, None, << >>, << >>)
    [] fn = "walk" ->       \* a pointer and the buffer it may point to
         IF x86 THEN Frame(arch, 6, [r1 |-> -1], <<Reg("ptr", "r1"), Buf(-3, 2)>>, << >>)
                ELSE Frame(arch, 8, [r2 |-> -1],
                           <<Slot("ptr", -2), Dup(Reg("ptr", "r2")), Buf(-4, 2)>>, << >>)
    [] fn = "count" ->      \* a variable, two pointers, two numbers
         IF x86 THEN Frame(arch, 8, [r2 |-> -1],
                           <<Buf(-2, 1), Slot("ptr", -3), Slot("ptr", -4), Reg("data", "r2"),
                             Const(3)>>, << >>)
                ELSE Frame(arch, 8, [r1 |-> -1, r2 |-> -2],
                           <<Buf(-5, 1), Reg("ptr", "r1"), Slot("ptr", -3), Reg("data", "r2"),
                             Slot("data", -4)>>, << >>)
    [] fn = "plain" ->      \* a number, a va_list and a pointer; aarch64 keeps an address at hand
         IF x86 THEN Frame(arch, 8, None,
                           <<Slot("data", -1), Dup(Slot("data", -1)), Buf(-4, 3), Slot("ptr", -5)>>,
                           << >>)
                ELSE Frame(arch, 10, [r1 |-> -1, r3 |-> -6],
                           <<Reg("data", "r1"), Buf(-5, 4), Slot("ptr", -7)>>, <<SetR3>>)
    [] fn = "vector" ->     \* a number, and on aarch64 a value loaded from memory
         IF x86 THEN Frame(arch, 4, None, <<Slot("data", -1)>>, Compute)
                ELSE Frame(arch, 4, [r3 |-> -2], <<Slot("data", -1)>>, <<LoadR3>>)

MCSiteAddr(arch, fn) ==
  LET id == CASE fn = "start" -> 1 [] fn = "shim" -> 2 [] fn = "walk" -> 3
              [] fn = "count" -> 4 [] fn = "plain" -> 5 [] fn = "vector" -> 6
  IN  IF arch = "x86_64" THEN 1000 + id ELSE 2000 - id
MCFnAddr(fn) == MCSiteAddr("x86_64", fn) - 500
=============================================================================
