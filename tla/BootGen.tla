------------------------------ MODULE BootGen ------------------------------
(***************************************************************************)
(* The code generator of stage0 (codegen.c).  An instruction is one unit   *)
(* long: [op, a, b, d], d the number of words the generator believes are   *)
(* on the stack below the frame.  A jump's displacement counts from the    *)
(* instruction after it and is patched in when the target is known.        *)
(*                                                                         *)
(* The generator's state g: code; depth; the open loops and the open       *)
(* blocks' deferred statements, innermost first; dd, the block depth; the  *)
(* references to patch at the end; and the function, types and globals it  *)
(* reads.                                                                  *)
(***************************************************************************)
EXTENDS BootTypes, TLC

CallRegs == <<"rdi", "rsi", "rdx", "rcx", "r8", "r9">>
SysRegs  == <<"rdi", "rsi", "rdx", "r10", "r8", "r9">>

Ins(op, a, b) == [op |-> op, a |-> a, b |-> b, d |-> 0]
\* Mutant: a word pushed straight from memory is not counted.
PushesOfRegisters(op) == IF op = "push" THEN 1 ELSE IF op = "pop" THEN -1 ELSE 0
Pushes(op) == IF op \in {"push", "pushax"} THEN 1 ELSE IF op = "pop" THEN -1 ELSE 0

Emit(g, op, a, b) ==
  [g EXCEPT !.code = Append(@, [Ins(op, a, b) EXCEPT !.d = g.depth]),
            !.depth = @ + Pushes(op)]
RECURSIVE Emits(_, _), PatchAll(_, _)
Emits(g, ins) ==
  IF ins = <<>> THEN g
  ELSE Emits(Emit(g, ins[1][1], ins[1][2], ins[1][3]), Tail(ins))
GenFail(g, why) == [g EXCEPT !.err = why]

\* Indices in code count from 1; the instruction emitted last, and patching
\* a jump to go to the instruction emitted next.
Here(g) == Len(g.code)
Patch(g, at, target) == [g EXCEPT !.code[at].b = target - at - 1]
PatchHere(g, at) == Patch(g, at, Here(g) + 1)
PatchAll(g, ats) == IF ats = <<>> THEN g ELSE PatchAll(PatchHere(g, ats[1]), Tail(ats))

Reg(r)        == <<"push", r, 0>>
Popped(r)     == <<"pop", r, 0>>
Const(r, v)   == <<"imm", r, v>>
Move(dst, src) == <<"mov", dst, src>>
LeaLocal(r, off) == <<"lea", r, off>>
LdLocal(r, off)  == <<"ldl", r, off>>
StLocal(off, r)  == <<"stl", r, off>>
LdAtRax(r, disp) == <<"ldax", r, disp>>
PushAtRax(disp)  == <<"pushax", "rax", disp>>
Alu(op, dst, src) == <<op, dst, src>>
TestRax    == <<"test", "rax", "rax">>
SetCc(cc)  == <<"setcc", cc, 0>>
AddImm(v)  == IF v = 0 THEN <<>> ELSE << <<"addimm", "rax", v>> >>
Access(ty) == [size |-> ty.size, uns |-> ty.uns \/ (ty.size = 1 /\ ty.k = "bool")]
Load(ty)   == <<"load", "rax", Access(ty)>>
Store(ty)  == << Popped("rdi"), <<"store", "rax", Access(ty)>> >>
Truncate(ty) == IF ty.size = 8 THEN <<>> ELSE << <<"trunc", "rax", Access(ty)>> >>
ScaleBy(size) == IF size = 1 THEN <<>> ELSE << Const("rcx", size), Alu("mul", "rax", "rcx") >>
Syscall    == <<"syscall", "rax", 0>>

CopyRsiRdi(size) == << Const("rcx", size), <<"movsb", "rdi", "rsi">> >>
CopyAggregate(size) ==
  << Popped("rdi"), Move("rsi", "rax"), Reg("rdi") >> \o CopyRsiRdi(size) \o << Popped("rax") >>
Clear(off, size) == << LeaLocal("rdi", off), Const("rax", 0), Const("rcx", size),
                       <<"stosb", "rdi", 0>> >>

ElemSize(g, ty) == SizeOf(g.types, ty.base[1])
GSize(g, ty) == SizeOf(g.types, ty)
Slot(g, id)  == g.fn.locals[id]
Off(g, id)   == Slot(g, id).off
GByRef(g, ty) == IsAggregate(ty) /\ GSize(g, ty) > 16

\* A comparison that jumps to the panic stub, unless bounds checks are off;
\* calls, strings and globals are found when all code is there.
BoundsHere(g)   == [g EXCEPT !.bounds = Append(@, Here(g))]
Bounds(g, cmp, cc) == IF g.nobounds THEN g ELSE BoundsHere(Emits(g, <<cmp, <<"jcc", cc, 0>> >>))
CallHere(g, name) == [g EXCEPT !.calls = Append(@, [at |-> Here(g), name |-> name])]
AddCall(g, name) == CallHere(Emit(g, "call", 0, 0), name)
StrHere(g, id)  == [g EXCEPT !.strrefs = Append(@, [at |-> Here(g), id |-> id])]
AddStrRef(g, r, id) == StrHere(Emit(g, "rel", r, 0), id)
DataHere(g, id) == [g EXCEPT !.datarefs = Append(@, [at |-> Here(g), id |-> id])]
AddDataRef(g, id) == DataHere(Emit(g, "rel", "rax", 0), id)

Unsigned64(ty) == ty.uns \/ ty.k = "ptr"
\* rax op rdi, the left operand in rax.
Binop(op, ty, lty) ==
  CASE op \in {"add", "sub", "and", "or", "xor", "mul"} -> << Alu(op, "rax", "rdi") >>
    [] op \in {"div", "mod"} ->
         << <<IF ty.uns THEN "div" ELSE "idiv", "rdi", 0>> >>
         \o (IF op = "mod" THEN << Move("rax", "rdx") >> ELSE <<>>)
    [] op = "shl" -> << Move("rcx", "rdi"), Alu("shl", "rax", "rcx") >>
    [] op = "shr" -> << Move("rcx", "rdi"),
                        Alu(IF ty.uns THEN "shr" ELSE "sar", "rax", "rcx") >>
    [] op \in CompareOps ->
         << Alu("cmp", "rax", "rdi"),
            SetCc(CASE op = "eq" -> "e" [] op = "ne" -> "ne"
                    [] op = "lt" -> IF Unsigned64(lty) THEN "b" ELSE "l"
                    [] op = "le" -> IF Unsigned64(lty) THEN "be" ELSE "le") >>

\* gen_addr, gen_expr and gen_stmt take each other in: Gen is all three, by
\* what they leave in rax (an address, a value, nothing).
RECURSIVE Gen(_, _, _)
RECURSIVE GenArgs(_, _, _, _, _, _), GenFields(_, _, _, _), GenArms(_, _, _, _, _),
          GenBinds(_, _, _, _, _), GenStmts(_, _, _), UnwindAll(_, _)

\* A pointer's value, or the address of what is no pointer.
GenBase(n, g) == Gen(IF n.ty.k = "ptr" THEN "expr" ELSE "addr", n, g)

IndexValue(lt, idx, g) ==
  IF lt.k = "slice"
  THEN Bounds(Emit(Gen("expr", idx, Emits(g, << PushAtRax(0), PushAtRax(8) >>)), "pop", "rdi", 0),
              Alu("cmp", "rax", "rdi"), "ae")
  ELSE IF lt.k = "array"
  THEN Bounds(Gen("expr", idx, Emit(g, "push", "rax", 0)), <<"cmpimm", "rax", lt.len>>, "ae")
  ELSE Gen("expr", idx, Emit(g, "push", "rax", 0))
GenIndex(n, g) ==
  Emits(IndexValue(n.sub[1].ty, n.sub[2], GenBase(n.sub[1], g)),
        ScaleBy(ElemSize(g, n.sub[1].ty)) \o << Popped("rdi"), Alu("add", "rax", "rdi") >>)

\* The temporary holds (pointer, length) of the base, then of the slice.
SliceBase(lt, off) ==
  IF lt.k = "slice"
  THEN << LdAtRax("rdi", 0), StLocal(off, "rdi"), LdAtRax("rdi", 8), StLocal(off - 8, "rdi") >>
  ELSE << StLocal(off, "rax"), Const("rdi", lt.len), StLocal(off - 8, "rdi") >>
SliceLow(n, g)  == Emit(IF n.k = "nil" THEN Emit(g, "imm", "rax", 0) ELSE Gen("expr", n, g),
                        "push", "rax", 0)
SliceHigh(n, off, g) ==
  Emit(IF n.k = "nil" THEN Emit(g, "ldl", "rax", off - 8) ELSE Gen("expr", n, g), "pop", "rdi", 0)
SliceBounds(off, g) ==
  Bounds(Bounds(g, <<"cmpl", "rax", off - 8>>, "a"), Alu("cmp", "rdi", "rax"), "a")
SliceMade(off, elem) ==
  << Alu("sub", "rax", "rdi"), StLocal(off - 8, "rax"), Move("rax", "rdi") >> \o ScaleBy(elem)
  \o << <<"addl", "rax", off>>, StLocal(off, "rax"), LeaLocal("rax", off) >>
GenSlice(n, off, g) ==
  Emits(SliceBounds(off,
          SliceHigh(n.sub[3], off,
            SliceLow(n.sub[2],
              Emits(Gen("addr", n.sub[1], g), SliceBase(n.sub[1].ty, off))))),
        SliceMade(off, ElemSize(g, n.sub[1].ty)))

GenVar(id, g) ==
  IF id < 0 THEN AddDataRef(g, -id)
  ELSE IF Slot(g, id).byref THEN Emits(g, << LdLocal("rax", Off(g, id)) >>)
  ELSE Emits(g, << LeaLocal("rax", Off(g, id)) >>)
GenAddr(n, g) ==
  CASE n.k = "var" -> GenVar(n.x, g)
    [] n.k = "deref" -> Gen("expr", n.sub[1], g)
    [] n.k = "member" -> Emits(GenBase(n.sub[1], g), AddImm(n.v))
    [] n.k = "index" -> GenIndex(n, g)
    [] n.k = "slice" -> GenSlice(n, Off(g, n.tmp), g)
    [] OTHER -> IF IsAggregate(n.ty) THEN Gen("expr", n, g) ELSE GenFail(g, "not addressable")

GenLvalue(n, g) ==
  Emits(Gen("addr", n, g), IF IsAggregate(n.ty) THEN <<>> ELSE << Load(n.ty) >>)

\* Each value is pushed as it is computed; the registers are filled at the
\* end, in reverse.  A register past the sixth is read past the table.
RegAt(regs, i) == IF i > Len(regs) THEN "wild" ELSE regs[i]
RegsOf(regs, ri, words) == [k \in 1..words |-> RegAt(regs, ri + k - 1)]
ArgWords(g, ty) == IF IsAggregate(ty) /\ GSize(g, ty) \in 9..16 THEN 2 ELSE 1
ArgPushed(g, a) ==
  IF GByRef(g, a.ty)
  THEN << Move("rsi", "rax"), LeaLocal("rdi", Off(g, a.tmp)) >> \o CopyRsiRdi(GSize(g, a.ty))
       \o << LeaLocal("rax", Off(g, a.tmp)), Reg("rax") >>
  ELSE IF ~IsAggregate(a.ty) THEN << Reg("rax") >>
  ELSE IF ArgWords(g, a.ty) = 1 THEN << PushAtRax(0) >>
  ELSE << PushAtRax(0), PushAtRax(8) >>
GenArg(a, g) == Emits(Gen("expr", a, g), ArgPushed(g, a))
ArgsPopped(dest) == [j \in DOMAIN dest |-> Popped(dest[Len(dest) + 1 - j])]
GenArgs(args, i, regs, ri, dest, g) ==
  IF i > Len(args) \/ g.err # "" THEN Emits(g, ArgsPopped(dest))
  ELSE GenArgs(args, i + 1, regs, ri + ArgWords(g, args[i].ty),
               dest \o RegsOf(regs, ri, ArgWords(g, args[i].ty)), GenArg(args[i], g))

\* An odd number of words on the stack is made even around a call.
CallPadded(name, g) ==
  IF g.depth % 2 = 1
  THEN Emit(AddCall(Emit(g, "subsp", "rsp", 8), name), "addsp", "rsp", 8)
  ELSE AddCall(g, name)
CallResult(off, size) ==
  << StLocal(off, "rax") >> \o (IF size > 8 THEN << StLocal(off - 8, "rdx") >> ELSE <<>>)
  \o << LeaLocal("rax", off) >>
GenCall(n, g) ==
  IF GByRef(g, n.ty)
  THEN CallPadded(n.nm, GenArgs(n.sub, 1, CallRegs, 2, <<"rdi">>,
                                Emits(g, << LeaLocal("rax", Off(g, n.tmp)), Reg("rax") >>)))
  ELSE Emits(CallPadded(n.nm, GenArgs(n.sub, 1, CallRegs, 1, <<>>, g)),
             IF IsAggregate(n.ty) THEN CallResult(Off(g, n.tmp), GSize(g, n.ty)) ELSE <<>>)

GenSyscall(n, g) ==
  Emits(GenArgs(n.sub, 1, <<"rax">> \o SysRegs, 1, <<>>, g), << Syscall >>)

\* The fields of a literal: address pushed, value computed, stored.
StoreTyped(g, ty) == IF IsAggregate(ty) THEN CopyAggregate(GSize(g, ty)) ELSE Store(ty)
GenField(val, f, off, g) ==
  Emits(Gen("expr", val, Emits(g, << LeaLocal("rdi", off - f.off), Reg("rdi") >>)),
        StoreTyped(g, f.ty))
GenFields(vals, fields, off, g) ==
  IF vals = <<>> THEN g
  ELSE GenFields(Tail(vals), Tail(fields), off, GenField(Head(vals), Head(fields), off, g))

GenVariant(vals, vr, off, g) ==
  Emits(GenFields(vals, vr.fields, off, Emits(g, << Const("rax", vr.tag), StLocal(off, "rax") >>)),
        << LeaLocal("rax", off) >>)
GenEnumLit(n, g) == GenVariant(n.sub, VariantOf(g.types, n.ty, n.nm)[1], Off(g, n.tmp), g)

GenStructLit(n, off, g) ==
  Emits(GenFields([i \in DOMAIN n.sub |-> n.sub[i].sub[1]],
                  [i \in DOMAIN n.sub |-> [ty |-> n.sub[i].ty, off |-> n.sub[i].v]], off,
                  Emits(g, IF Len(n.sub) < Len(MembersOf(g.types, n.ty))
                           THEN Clear(off, GSize(g, n.ty)) ELSE <<>>)),
        << LeaLocal("rax", off) >>)

PtrScale(g, lt) == IF lt.k = "ptr" THEN ScaleBy(ElemSize(g, lt)) ELSE <<>>
OpAssigned(op, lt, g) ==
  PtrScale(g, lt) \o << Move("rdi", "rax"), Popped("rax") >> \o Binop(op, lt, lt)
  \o Truncate(lt) \o Store(lt)
GenOpAssign(n, g) ==
  Emits(Gen("expr", n.sub[2], Emits(Gen("addr", n.sub[1], g),
                                    << Reg("rax"), Load(n.sub[1].ty), Reg("rax") >>)),
        OpAssigned(n.v, n.sub[1].ty, g))

\* A value tested, with a jump to be patched.
GenTest(n, cc, g) == Emits(Gen("expr", n, g), << TestRax, <<"jcc", cc, 0>> >>)
LogicEnd(k, first, second, g) ==
  PatchHere(Emits(PatchHere(PatchHere(g, first), second), << Const("rax", Truth(k = "lor")) >>),
            Here(g))
LogicRight(k, first, g) ==
  LogicEnd(k, first, Here(g),
           Emits(g, << Const("rax", Truth(k = "land")), <<"jmp", 0, 0>> >>))
LogicLeft(n, cc, g) == LogicRight(n.k, Here(g), GenTest(n.sub[2], cc, g))
GenLogicOn(n, cc, g) == LogicLeft(n, cc, GenTest(n.sub[1], cc, g))
GenLogic(n, g) == GenLogicOn(n, IF n.k = "land" THEN "e" ELSE "ne", g)

\* The right operand first; an integer next to a pointer on the left is
\* scaled by the size of what it points at.
Difference(n, g) ==
  IF n.k = "sub" /\ n.sub[1].ty.k = "ptr" /\ n.sub[2].ty.k = "ptr"
  THEN << Const("rdi", ElemSize(g, n.sub[1].ty)), <<"idiv", "rdi", 0>> >> ELSE <<>>
GenRight(n, g) ==
  Emits(Gen("expr", n.sub[2], g),
        (IF n.sub[2].ty.k # "ptr" THEN PtrScale(g, n.sub[1].ty) ELSE <<>>) \o << Reg("rax") >>)
GenBinary(n, g) ==
  Emits(Gen("expr", n.sub[1], GenRight(n, g)),
        << Popped("rdi") >> \o Binop(n.k, n.ty, n.sub[1].ty) \o Difference(n, g))

GenZero(off, ty, size, g) ==
  Emits(g, IF size <= 8 /\ ~IsAggregate(ty) THEN << Const("rax", 0), StLocal(off, "rax") >>
           ELSE Clear(off, size))

GenAssign(n, g) ==
  Emits(Gen("expr", n.sub[2], Emits(Gen("addr", n.sub[1], g), << Reg("rax") >>)),
        StoreTyped(g, n.sub[1].ty))

GenExpr(n, g) ==
  CASE n.k \in {"num", "comptime"} -> Emits(g, << Const("rax", n.v) >>)
    [] n.k = "str" -> AddStrRef(g, "rax", n.v)
    [] n.k = "sizeof" -> Emits(g, << Const("rax", GSize(g, n.tv)) >>)
    [] n.k \in {"var", "member", "index", "slice"} -> GenLvalue(n, g)
    [] n.k = "addr" -> Gen("addr", n.sub[1], g)
    [] n.k = "deref" -> Emits(Gen("expr", n.sub[1], g),
                              IF IsAggregate(n.ty) THEN <<>> ELSE << Load(n.ty) >>)
    [] n.k = "cast" -> Emits(Gen("expr", n.sub[1], g),
                             IF n.ty.k = "bool" THEN << TestRax, SetCc("ne") >>
                             ELSE Truncate(n.ty))
    [] n.k = "assign" -> GenAssign(n, g)
    [] n.k = "opassign" -> GenOpAssign(n, g)
    [] n.k = "enumlit" -> GenEnumLit(n, g)
    [] n.k = "structlit" -> GenStructLit(n, Off(g, n.tmp), g)
    [] n.k = "zero" -> GenZero(Off(g, n.x), Slot(g, n.x).ty, GSize(g, Slot(g, n.x).ty), g)
    [] n.k = "comma" -> Gen("expr", n.sub[2], Gen("expr", n.sub[1], g))
    [] n.k \in {"neg", "bitnot"} -> Emits(Gen("expr", n.sub[1], g), << <<n.k, "rax", 0>> >>)
    [] n.k = "not" -> Emits(Gen("expr", n.sub[1], g), << TestRax, SetCc("e") >>)
    [] n.k = "syscall" -> GenSyscall(n, g)
    [] n.k = "call" -> GenCall(n, g)
    [] n.k \in {"land", "lor"} -> GenLogic(n, g)
    [] n.k \in BinaryOps -> GenBinary(n, g)
    [] OTHER -> GenFail(g, "crash")

\* ------------------------------------------------------------- statements
\* The deferred statements of a block, the latest first; those of every open
\* block deeper than target, the innermost first.
RunDefers(list, g) == GenStmts(list, 1, g)
UnwindAll(scopes, g) ==
  IF scopes = <<>> THEN g ELSE UnwindAll(Tail(scopes), RunDefers(scopes[1].list, g))
DeeperThan(g, depth) == SelectSeq(g.defers, LAMBDA s : s.depth > depth)
\* Mutant: the block around the loop is unwound with those inside it.
UnwindPast(target, g) == UnwindAll(DeeperThan(g, target - 1), g)
UnwindTo(target, g) == UnwindAll(DeeperThan(g, target), g)

BlockClosed(g) == [g EXCEPT !.defers = Tail(@), !.dd = @ - 1]
BlockDone(g) == BlockClosed(RunDefers(g.defers[1].list, g))
GenBlock(n, g) ==
  BlockDone(GenStmts(n.sub, 1,
    [g EXCEPT !.dd = @ + 1, !.defers = <<[list |-> <<>>, depth |-> g.dd + 1]>> \o @]))
GenStmts(stmts, i, g) ==
  IF i > Len(stmts) THEN g ELSE GenStmts(stmts, i + 1, Gen("stmt", stmts[i], g))

GenDefer(n, g) ==
  IF g.defers = <<>> THEN GenFail(g, "'defer' outside of a block")
  ELSE [g EXCEPT !.defers[1].list = <<n.sub[1]>> \o @]

\* A result in registers is kept on the stack while deferred code runs.
AggregateRet(g, size) ==
  IF g.fn.retSlot # 0
  THEN << Move("rsi", "rax"), LdLocal("rdi", Off(g, g.fn.retSlot)) >> \o CopyRsiRdi(size)
       \o << LdLocal("rax", Off(g, g.fn.retSlot)) >>
  ELSE (IF size > 8 THEN << LdAtRax("rdx", 8) >> ELSE <<>>) \o << LdAtRax("rax", 0) >>
RetValue(v, g) ==
  IF v.k = "nil" THEN Emits(g, << Const("rax", 0) >>)
  ELSE Emits(Gen("expr", v, g), IF IsAggregate(v.ty) THEN AggregateRet(g, GSize(g, v.ty)) ELSE <<>>)
RetRegs(v, g) ==
  IF v.k # "nil" /\ ArgWords(g, v.ty) = 2 THEN << "rax", "rdx" >> ELSE << "rax" >>
RetUnwound(kept, g) ==
  IF g.defers = <<>> THEN g
  ELSE Emits(UnwindTo(0, Emits(g, [i \in DOMAIN kept |-> Reg(kept[i])])), ArgsPopped(kept))
GenRet(v, g) ==
  Emits(RetUnwound(RetRegs(v, g), RetValue(v, g)), << <<"leave", 0, 0>>, <<"ret", 0, 0>> >>)

IfElse(els, skip, over, g) == PatchHere(Gen("stmt", els, PatchHere(g, skip)), over)
IfThen(els, skip, g) ==
  IF els.k = "nil" THEN PatchHere(g, skip)
  ELSE IfElse(els, skip, Here(g) + 1, Emit(g, "jmp", 0, 0))
IfTested(n, g) == IfThen(n.sub[3], Here(g), Gen("stmt", n.sub[2], g))
GenIf(n, g) == IfTested(n, GenTest(n.sub[1], "e", g))

\* The condition is looked at before, the step taken after every round; a
\* continue goes to the step.
Breaks(g) == [g EXCEPT !.loops[1].brk = Append(@, Here(g))]
Continues(g) == [g EXCEPT !.loops[1].cont = Append(@, Here(g))]
LoopClosed(g) == [PatchAll(g, g.loops[1].brk) EXCEPT !.loops = Tail(@)]
LoopBack(g, top) == LoopClosed(Patch(g, Here(g), top))
LoopStep(step, top, g) ==
  IF g.err # "" THEN g
  ELSE LoopBack(Emit(IF step.k = "nil" THEN g ELSE Gen("expr", step, g), "jmp", 0, 0), top)
LoopBody(n, top, g) == LoopStep(n.sub[3], top, PatchAll(g, g.loops[1].cont))
LoopTest(n, top, g) ==
  LoopBody(n, top, Gen("stmt", n.sub[4],
                       IF n.sub[2].k = "nil" THEN g ELSE Breaks(GenTest(n.sub[2], "e", g))))
LoopFrom(n, g) ==
  LoopTest(n, Here(g) + 1,
           [g EXCEPT !.loops = <<[brk |-> <<>>, cont |-> <<>>, depth |-> g.dd]>> \o @])
GenFor(n, g) == LoopFrom(n, IF n.sub[1].k = "nil" THEN g ELSE Gen("stmt", n.sub[1], g))

\* break and continue first run what was deferred inside the loop.
JumpOut(k, g) == IF k = "break" THEN Breaks(g) ELSE Continues(g)
GenJump(n, g) ==
  IF g.loops = <<>> THEN GenFail(g, "outside of a loop")
  ELSE JumpOut(n.k, Emit(UnwindTo(g.loops[1].depth, g), "jmp", 0, 0))

\* The bindings of an arm are copied out of the value before its body runs.
GenBind(g, soff, id, f) ==
  Emits(g, << LeaLocal("rdi", Off(g, id)), Reg("rdi"), LdLocal("rax", soff) >> \o AddImm(f.off)
           \o (IF IsAggregate(f.ty) THEN <<>> ELSE << Load(f.ty) >>) \o StoreTyped(g, f.ty))

GenBinds(arm, fields, b, soff, g) ==
  IF b = Len(arm.sub) THEN g
  ELSE GenBinds(arm, fields, b + 1, soff, GenBind(g, soff, arm.sub[b + 1].x, fields[b]))

ArmTest(soff, tag) ==
  << LdLocal("rax", soff), <<"cmptag", "rax", tag>>, <<"jcc", "ne", 0>> >>
\* A last arm falls out; one before it jumps to the end.
ArmDone(arms, i, soff, ends, skip, g) ==
  IF i = Len(arms)
  THEN GenArms(arms, i + 1, soff, ends, IF skip = 0 THEN g ELSE PatchHere(g, skip))
  ELSE GenArms(arms, i + 1, soff, Append(ends, Here(g) + 1),
               IF skip = 0 THEN Emit(g, "jmp", 0, 0) ELSE PatchHere(Emit(g, "jmp", 0, 0), skip))
ArmCode(arm, fields, soff, g) == Gen("stmt", arm.sub[1], GenBinds(arm, fields, 1, soff, g))
ArmOf(arms, i, soff, ends, vr, g) ==
  ArmDone(arms, i, soff, ends, Here(g), ArmCode(arms[i], vr.fields, soff, g))
GenArm(arms, i, soff, ends, vr, g) == ArmOf(arms, i, soff, ends, vr, Emits(g, ArmTest(soff, vr.tag)))
GenArms(arms, i, soff, ends, g) ==
  IF i > Len(arms) THEN PatchAll(g, ends)
  ELSE IF arms[i].nm = "" THEN ArmDone(arms, i, soff, ends, 0, ArmCode(arms[i], <<>>, soff, g))
  ELSE GenArm(arms, i, soff, ends, VariantOf(g.types, arms[i].tv, arms[i].nm)[1], g)

GenMatch(n, soff, g) ==
  GenArms(Tail(n.sub), 1, soff, <<>>,
          Emits(Gen("addr", n.sub[1], g), << StLocal(soff, "rax") >>))

GenStmt(n, g) ==
  CASE n.k = "block" -> GenBlock(n, g)
    [] n.k = "defer" -> GenDefer(n, g)
    [] n.k = "match" -> GenMatch(n, Off(g, n.tmp), g)
    [] n.k = "exprstmt" -> Gen("expr", n.sub[1], g)
    [] n.k = "ret" -> GenRet(n.sub[1], g)
    [] n.k = "if" -> GenIf(n, g)
    [] n.k = "for" -> GenFor(n, g)
    [] n.k \in {"break", "continue"} -> GenJump(n, g)
    [] OTHER -> Gen("expr", n, g)

Gen(what, n, g) ==
  IF g.err # "" THEN g
  ELSE CASE what = "addr" -> GenAddr(n, g)
         [] what = "expr" -> GenExpr(n, g)
         [] what = "stmt" -> GenStmt(n, g)

\* gen_func: the frame is cleared before the parameters are put in it.
GenParams(f, types) ==
  LET aggr(id) == IsAggregate(f.locals[id].ty) /\ ~f.locals[id].byref
                  /\ SizeOf(types, f.locals[id].ty) > 8
      offs == FoldLeft(LAMBDA os, id : os \o (IF aggr(id) THEN << f.locals[id].off, f.locals[id].off - 8 >>
                                              ELSE << f.locals[id].off >>),
                       IF f.retSlot = 0 THEN <<>> ELSE << f.locals[f.retSlot].off >>, f.params)
  IN [i \in DOMAIN offs |-> StLocal(offs[i], RegAt(CallRegs, i))]

Entered(f, size, g) ==
  [g EXCEPT !.depth = 0, !.fn = f, !.loops = <<>>, !.defers = <<>>, !.dd = 0,
            !.addrs = Append(@, [name |-> f.name, at |-> Here(g) + 1, frame |-> size])]
Prologue(f, size, types) ==
  << <<"enter", "rbp", 0>>, Move("rbp", "rsp") >>
  \o (IF size = 0 THEN <<>> ELSE << <<"subsp", "rsp", size>>, <<"clear", "rsp", "rbp">> >>)
  \o GenParams(f, types)
GenFunc(f, size, g) ==
  Emits(Gen("stmt", f.folded, Emits(Entered(f, size, g), Prologue(f, size, g.types))),
        << Const("rax", 0), <<"leave", 0, 0>>, <<"ret", 0, 0>> >>)
=============================================================================
