---------------------------- MODULE BootMeaning ----------------------------
(***************************************************************************)
(* What a program means, told without registers, stack, frames or          *)
(* addresses: an evaluator of the typed tree, as it is before folding.     *)
(* It is the reference the image stage0 writes is compared with.           *)
(*                                                                         *)
(* A value is an integer (b = 0), a pointer to place o of block b, or an   *)
(* aggregate (cells: the scalars it holds, by offset; one that is not      *)
(* there is zero).  Every variable of an activation, global and string is  *)
(* a block of its own.  The state e: the blocks; env, the block of each    *)
(* local; sig, why control leaves where it is (ret, break, continue) or    *)
(* the end of the program (exited, trap, fault, fuel); rv, what is being   *)
(* returned; and the system calls made.                                    *)
(***************************************************************************)
EXTENDS BootLex, TLC

CONSTANT Fuel     \* rounds of loops and calls one program may take

IntV(v)    == [b |-> 0, o |-> v, cells |-> <<>>]
PtrV(b, o) == [b |-> b, o |-> o, cells |-> <<>>]
AggV(cells) == [b |-> 0, o |-> 0, cells |-> cells]
NoCells   == [x \in {} |-> 0]
Val(v, e) == [v |-> v, e |-> e]
Going(e)  == e.sig = ""
Ended(e)  == e.sig \in {"exited", "trap", "fault", "fuel"}
Sig(e, s) == IF Going(e) THEN [e EXCEPT !.sig = s] ELSE e
Spend(e)  == IF e.fuel = 0 THEN Sig(e, "fuel") ELSE [e EXCEPT !.fuel = @ - 1]
Ends(e, call, s) == IF Going(e) THEN [e EXCEPT !.trace = @ \o call, !.sig = s] ELSE e

IndexMessage  == "qela: index out of range\n"
PanicEnd(e, bytes) == Ends(e, << <<"write", 2, bytes>>, <<"exit", 134>> >>, "exited")

\* --------------------------------------------------------------- blocks
CellAt(cells, o) == IF o \in DOMAIN cells THEN cells[o] ELSE IntV(0)
Within(cells, o, size) == {x \in DOMAIN cells : x \in o..(o + size - 1)}
Part(cells, from, size) ==
  [x \in {y - from : y \in Within(cells, from, size)} |-> cells[x + from]]
Moved(cells, by) == [x \in {y + by : y \in DOMAIN cells} |-> cells[x - by]]
Without(cells, o, size) == [x \in DOMAIN cells \ Within(cells, o, size) |-> cells[x]]
ReadPlace(p, ty, e, types) ==
  IF p.b = 0 THEN Val(IntV(0), Sig(e, "fault"))
  ELSE Val(IF IsAggregate(ty) THEN AggV(Part(e.mem[p.b], p.o, SizeOf(types, ty)))
           ELSE CellAt(e.mem[p.b], p.o), e)
WritePlace(p, ty, v, e, types) ==
  IF ~Going(e) THEN e
  ELSE IF p.b = 0 THEN Sig(e, "fault")
  ELSE [e EXCEPT !.mem[p.b] = (IF IsAggregate(ty) THEN Moved(v.cells, p.o) ELSE p.o :> v)
                              @@ Without(@, p.o, SizeOf(types, ty))]
Allocate(e, n) == [e EXCEPT !.mem = @ \o [i \in 1..n |-> NoCells]]

\* ------------------------------------------------------------ operators
Convert(v, ty) ==
  IF ty.k = "bool" THEN IntV(Truth(v.b # 0 \/ v.o # 0))
  ELSE IF v.b # 0 \/ ty.k = "void" THEN v ELSE IntV(TruncTo(v.o, ty))

\* On the values of an unsigned type division, shifts to the right and order
\* are those of the number the word stands for.
Arith(op, a, b, uns) ==
  CASE uns /\ op = "div" -> Word(UWord(a) \div UWord(b))
    [] uns /\ op = "mod" -> Word(UWord(a) % UWord(b))
    [] uns /\ op = "shr" -> Word(UWord(a) \div 2 ^ (UWord(b) % WordBits))
    [] uns /\ op = "lt"  -> Truth(UWord(a) < UWord(b))
    [] uns /\ op = "le"  -> Truth(UWord(a) <= UWord(b))
    [] OTHER -> I64(op, a, b)
Traps(op, a, b, uns) == op \in {"div", "mod"} /\ (b = 0 \/ (~uns /\ Overflows(op, a, b)))

\* l op r, at pointers in units of what they point at.
Operated(op, l, r, scale, uns, e) ==
  IF l.b # 0 /\ r.b = l.b /\ op = "sub" THEN Val(IntV((l.o - r.o) \div scale), e)
  ELSE IF l.b # 0 /\ r.b = 0 /\ op \in {"add", "sub"}
  THEN Val(PtrV(l.b, IF op = "add" THEN l.o + r.o * scale ELSE l.o - r.o * scale), e)
  ELSE IF l.b # r.b THEN Val(IntV(Truth(op = "ne")), e)
  ELSE IF Traps(op, l.o, r.o, uns) THEN Val(IntV(0), Sig(e, "trap"))
  ELSE Val(IntV(Arith(op, l.o, r.o, uns)), e)
Operate(op, l, r, lty, ty, e, types) ==
  Operated(op, l, r, IF lty.k = "ptr" THEN SizeOf(types, lty.base[1]) ELSE 1,
           IF op \in CompareOps THEN lty.uns ELSE ty.uns, e)

\* What a tree gives as a value, as a place, or by being executed.
RECURSIVE Do(_, _, _, _)
RECURSIVE EvArgs(_, _, _, _, _), ExBlock(_, _, _, _, _), ExDefers(_, _, _), ExLoop(_, _, _)
Ev(n, e, c)      == Do("value", n, e, c)
PlaceOf(n, e, c) == Do("place", n, e, c)
Ex(n, e, c)      == Do("statement", n, e, c).e
Nothing(e)       == Val(IntV(0), e)
IsTrue(v)        == v.b # 0 \/ v.o # 0

\* ------------------------------------------------------ where things are
ReadIn(p, ty, c) == IF Going(p.e) THEN ReadPlace(p.v, ty, p.e, c.types) ELSE p
IndexBase(n, e, c) ==
  IF n.ty.k = "ptr" THEN Ev(n, e, c)
  ELSE IF n.ty.k = "array" THEN PlaceOf(n, e, c)
  ELSE ReadIn(PlaceOf(n, e, c), n.ty, c)
\* The first element and how many there are, of an array's place or a slice.
FirstAt(ty, v) == IF ty.k = "slice" THEN CellAt(v.cells, 0) ELSE v
CountOf(ty, v) == IF ty.k = "slice" THEN CellAt(v.cells, 8).o ELSE ty.len
Indexed(ty, v, i, c) ==
  IF ~Going(i.e) THEN i
  ELSE IF ty.k # "ptr" /\ UWord(i.v.o) >= UWord(CountOf(ty, v)) THEN Nothing(PanicEnd(i.e, c.panic))
  ELSE Val(PtrV(FirstAt(ty, v).b, FirstAt(ty, v).o + i.v.o * SizeOf(c.types, ty.base[1])), i.e)
IndexAt(n, b, c) == Indexed(n.sub[1].ty, b.v, Ev(n.sub[2], b.e, c), c)
PlaceIndex(n, e, c) == IndexAt(n, IndexBase(n.sub[1], e, c), c)

\* An aggregate that is nobody's variable is put in a block of its own.
FieldAt(p, off) == Val(PtrV(p.v.b, p.v.o + off), p.e)
Housed(v, ty, e, c) == Val(PtrV(Len(e.mem), 0), WritePlace(PtrV(Len(e.mem), 0), ty, v, e, c.types))
InNewBlock(r, ty, c) == Housed(r.v, ty, Allocate(r.e, 1), c)
DoPlace(n, e, c) ==
  CASE n.k = "var" -> Val(PtrV(IF n.x < 0 THEN -n.x ELSE e.env + n.x, 0), e)
    [] n.k = "deref" -> Ev(n.sub[1], e, c)
    [] n.k = "member" ->
         FieldAt(Do(IF n.sub[1].ty.k = "ptr" THEN "value" ELSE "place", n.sub[1], e, c), n.v)
    [] n.k = "index" -> PlaceIndex(n, e, c)
    [] OTHER -> InNewBlock(Ev(n, e, c), n.ty, c)

\* ----------------------------------------------------------- expressions
SliceV(at, lo, len, size) ==
  AggV((0 :> PtrV(at.b, at.o + lo * size)) @@ (8 :> IntV(len)))
Sliced(ty, base, lo, hi, c) ==
  IF ~Going(hi.e) THEN hi
  ELSE IF UWord(hi.v.o) > UWord(CountOf(ty, base)) \/ UWord(lo.o) > UWord(hi.v.o)
  THEN Nothing(PanicEnd(hi.e, c.panic))
  ELSE Val(SliceV(FirstAt(ty, base), lo.o, hi.v.o - lo.o, SizeOf(c.types, ty.base[1])), hi.e)
EvOr(n, v, e, c) == IF n.k = "nil" THEN Val(v, e) ELSE Ev(n, e, c)
SliceFrom(n, base, lo, c) ==
  Sliced(n.sub[1].ty, base, lo.v,
         EvOr(n.sub[3], IntV(CountOf(n.sub[1].ty, base)), lo.e, c), c)
SliceOn(n, b, c) == IF Going(b.e) THEN SliceFrom(n, b.v, EvOr(n.sub[2], IntV(0), b.e, c), c) ELSE b
EvSlice(n, e, c) == SliceOn(n, IndexBase(n.sub[1], e, c), c)

\* The cells of a literal: the fields' values at their offsets.
RECURSIVE Spread(_, _, _, _)
FieldCells(v, f) == IF IsAggregate(f.ty) THEN Moved(v.cells, f.off) ELSE f.off :> v
Spread(vals, fields, i, cells) ==
  IF i > Len(vals) THEN cells
  ELSE Spread(vals, fields, i + 1, FieldCells(vals[i], fields[i]) @@ cells)

LiteralOf(r, fields, first) ==
  IF ~Going(r.e) THEN Nothing(r.e) ELSE Val(AggV(Spread(r.v, fields, 1, first)), r.e)
EnumLiteral(n, vr, e, c) == LiteralOf(EvArgs(n.sub, 1, <<>>, e, c), vr.fields, 0 :> IntV(vr.tag))
EvEnumLit(n, e, c) == EnumLiteral(n, VariantOf(c.types, n.ty, n.nm)[1], e, c)
EvStructLit(n, e, c) ==
  LiteralOf(EvArgs([i \in DOMAIN n.sub |-> n.sub[i].sub[1]], 1, <<>>, e, c),
          [i \in DOMAIN n.sub |-> [ty |-> n.sub[i].ty, off |-> n.sub[i].v]], NoCells)

OpStored(p, ty, q, c) ==
  IF ~Going(q.e) THEN q
  ELSE Val(Convert(q.v, ty), WritePlace(p, ty, Convert(q.v, ty), q.e, c.types))
OpWith(op, p, old, ty, r, c) ==
  IF ~Going(r.e) THEN r ELSE OpStored(p, ty, Operate(op, old, r.v, ty, ty, r.e, c.types), c)
OpRead(n, p, o, c) == OpWith(n.v, p, o.v, n.sub[1].ty, Ev(n.sub[2], o.e, c), c)
OpPlace(n, p, c) == IF Going(p.e) THEN OpRead(n, p.v, ReadIn(p, n.sub[1].ty, c), c) ELSE p
EvOpAssign(n, e, c) == OpPlace(n, PlaceOf(n.sub[1], e, c), c)

AsTruth(r) == Val(IntV(Truth(IsTrue(r.v))), r.e)
LogicOn(n, l, c) ==
  AsTruth(IF ~Going(l.e) \/ IsTrue(l.v) = (n.k = "lor") THEN l ELSE Ev(n.sub[2], l.e, c))
EvLogic(n, e, c) == LogicOn(n, Ev(n.sub[1], e, c), c)

\* A call has variables of its own; its arguments are values.
RECURSIVE BindParams(_, _, _, _, _)
BindParams(f, i, vals, e, types) ==
  IF i > Len(f.params) THEN e
  ELSE BindParams(f, i + 1, vals, WritePlace(PtrV(e.env + f.params[i], 0),
                                             f.locals[f.params[i]].ty, vals[i], e, types), types)

Returned(e, env) ==
  IF Ended(e) THEN Nothing(e)
  ELSE Val(IF e.sig = "ret" THEN e.rv ELSE IntV(0), [e EXCEPT !.sig = "", !.env = env])
Called(f, vals, e, env, c) == Returned(Ex(f.body, BindParams(f, 1, vals, e, c.types), c), env)
CallOn(f, r, env, c) ==
  IF ~Going(r.e) THEN Nothing(r.e)
  ELSE Called(f, r.v, [Allocate(r.e, Len(f.locals)) EXCEPT !.env = Len(r.e.mem)], env, c)
EvCall(n, e, c) ==
  CallOn(c.funcs[FindFunc(c, n.nm)], EvArgs(n.sub, 1, <<>>, Spend(e), c), e.env, c)

BytesAt(cells, o, k) == [i \in 1..k |-> CellAt(cells, o + i - 1).o]
Traced(v, e, call) == Val(v, [e EXCEPT !.trace = Append(@, call)])
SyscallOn(v, e) ==
  IF ~Going(e) THEN Nothing(e)
  ELSE CASE v[1].o = 60 -> Nothing(Ends(e, << <<"exit", v[2].o>> >>, "exited"))
         [] v[1].o = 1 ->
              Traced(v[4], e, <<"write", v[2].o, BytesAt(e.mem[v[3].b], v[3].o, v[4].o)>>)
         [] OTHER -> Traced(IntV(-38), e, <<"call", v[1].o, v[2].o>>)
SyscallArgs(r) == SyscallOn(r.v, r.e)
EvSyscall(n, e, c) == SyscallArgs(EvArgs(n.sub, 1, <<>>, e, c))

ArgThen(args, i, acc, r, c) == EvArgs(args, i + 1, Append(acc, r.v), r.e, c)
EvArgs(args, i, acc, e, c) ==
  IF i > Len(args) \/ ~Going(e) THEN Val(acc, e) ELSE ArgThen(args, i, acc, Ev(args[i], e, c), c)

UnaryOn(op, v, ty) ==
  CASE op = "neg" -> IntV(Word(-v.o))
    [] op = "bitnot" -> IntV(-v.o - 1)
    [] op = "not" -> IntV(Truth(~IsTrue(v)))
    [] op = "cast" -> Convert(v, ty)
UnaryOf(n, r) == IF ~Going(r.e) THEN r ELSE Val(UnaryOn(n.k, r.v, n.ty), r.e)

AssignedTo(p, ty, r, c) == Val(r.v, WritePlace(p, ty, r.v, r.e, c.types))
AssignAt(n, p, c) == AssignedTo(p.v, n.sub[1].ty, Ev(n.sub[2], p.e, c), c)

\* A comptime block means what it would mean at run time.
ComptimeOf(e) == IF e.sig = "ret" THEN Val(e.rv, [e EXCEPT !.sig = ""]) ELSE Nothing(e)

BinaryOf(n, l, r, c) ==
  IF ~Going(l.e) THEN l ELSE Operate(n.k, l.v, r, n.sub[1].ty, n.ty, l.e, c.types)
BinaryRight(n, r, c) == BinaryOf(n, Ev(n.sub[1], r.e, c), r.v, c)

DoValue(n, e, c) ==
  CASE n.k = "num" -> Val(IntV(n.v), e)
    [] n.k = "comptime" -> ComptimeOf(Ex(n.sub[1], e, c))
    [] n.k = "str" -> Val(SliceV(PtrV(Len(c.globals) + n.v, 0), 0, Len(c.strs[n.v]), 1), e)
    [] n.k = "sizeof" -> Val(IntV(SizeOf(c.types, n.tv)), e)
    [] n.k \in {"var", "member", "index", "deref"} -> ReadIn(PlaceOf(n, e, c), n.ty, c)
    [] n.k = "slice" -> EvSlice(n, e, c)
    [] n.k = "addr" -> PlaceOf(n.sub[1], e, c)
    [] n.k = "cast" /\ n.sub[1].ty.k = "array" -> PlaceOf(n.sub[1], e, c)
    [] n.k \in {"neg", "bitnot", "not"} \/ (n.k = "cast" /\ n.sub[1].ty.k # "array") ->
         UnaryOf(n, Ev(n.sub[1], e, c))
    [] n.k = "assign" -> AssignAt(n, PlaceOf(n.sub[1], e, c), c)
    [] n.k = "opassign" -> EvOpAssign(n, e, c)
    [] n.k = "enumlit" -> EvEnumLit(n, e, c)
    [] n.k = "structlit" -> EvStructLit(n, e, c)
    [] n.k = "zero" -> Nothing([e EXCEPT !.mem[e.env + n.x] = NoCells])
    [] n.k = "comma" -> Ev(n.sub[2], Ev(n.sub[1], e, c).e, c)
    [] n.k = "call" -> EvCall(n, e, c)
    [] n.k = "syscall" -> EvSyscall(n, e, c)
    [] n.k \in {"land", "lor"} -> EvLogic(n, e, c)
    [] n.k \in BinaryOps -> BinaryRight(n, Ev(n.sub[2], e, c), c)

\* ------------------------------------------------------------ statements
\* A block's deferred statements run when it is left, whichever way, the one
\* reached last first; only the end of the program skips them.
DefersRun(d, sig, rv) == IF Ended(d) THEN d ELSE [d EXCEPT !.sig = sig, !.rv = rv]
ExBlock(stmts, i, defers, e, c) ==
  IF Going(e) /\ i <= Len(stmts)
  THEN IF stmts[i].k = "defer" THEN ExBlock(stmts, i + 1, <<stmts[i].sub[1]>> \o defers, e, c)
       ELSE ExBlock(stmts, i + 1, defers, Ex(stmts[i], e, c), c)
  ELSE IF Ended(e) THEN e
  ELSE DefersRun(ExDefers(defers, [e EXCEPT !.sig = ""], c), e.sig, e.rv)
ExDefers(defers, e, c) ==
  IF defers = <<>> THEN e ELSE ExDefers(Tail(defers), Ex(Head(defers), e, c), c)

Stepped(n, e, c) ==
  IF ~Going(e) THEN e ELSE ExLoop(n, EvOr(n.sub[3], IntV(0), e, c).e, c)
AfterRound(n, e, c) ==
  IF e.sig = "break" THEN [e EXCEPT !.sig = ""]
  ELSE Stepped(n, [e EXCEPT !.sig = IF @ = "continue" THEN "" ELSE @], c)
Round(n, r, c) ==
  IF ~Going(r.e) \/ ~IsTrue(r.v) THEN r.e ELSE AfterRound(n, Ex(n.sub[4], Spend(r.e), c), c)
ExLoop(n, e, c) == Round(n, EvOr(n.sub[2], IntV(1), e, c), c)

\* The first arm for the tag, or 0; the bindings of an arm, from the value at pl.
ArmFor(arms, ty, tag, types) ==
  FirstIn({i \in DOMAIN arms : IF arms[i].nm = "" THEN TRUE
                               ELSE VariantOf(types, ty, arms[i].nm)[1].tag = tag})
RECURSIVE BindFields(_, _, _, _, _, _)
BindField(id, f, pl, e, types) ==
  WritePlace(PtrV(e.env + id, 0), f.ty,
             ReadPlace(PtrV(pl.b, pl.o + f.off), f.ty, e, types).v, e, types)
BindFields(arm, fields, b, pl, e, types) ==
  IF b = Len(arm.sub) THEN e
  ELSE BindFields(arm, fields, b + 1, pl, BindField(arm.sub[b + 1].x, fields[b], pl, e, types), types)

MatchArm(arm, ty, pl, e, c) ==
  Ex(arm.sub[1], IF arm.nm = "" THEN e
                 ELSE BindFields(arm, VariantOf(c.types, ty, arm.nm)[1].fields, 1, pl, e, c.types), c)
MatchFound(n, hit, p, c) ==
  IF hit = 0 THEN p.e ELSE MatchArm(n.sub[hit + 1], n.sub[1].ty, p.v, p.e, c)
TagAt(p, ty, c) == CellAt(ReadPlace(p.v, ty, p.e, c.types).v.cells, 0).o
MatchAt(n, p, c) ==
  IF ~Going(p.e) THEN p.e
  ELSE MatchFound(n, ArmFor(Tail(n.sub), n.sub[1].ty, TagAt(p, n.sub[1].ty, c), c.types), p, c)

ExOr(n, e, c) == IF ~Going(e) \/ n.k = "nil" THEN e ELSE Ex(n, e, c)
IfOn(n, r, c) == ExOr(IF IsTrue(r.v) THEN n.sub[2] ELSE n.sub[3], r.e, c)
Return(r) == IF Going(r.e) THEN [r.e EXCEPT !.sig = "ret", !.rv = r.v] ELSE r.e

DoStatement(n, e, c) ==
  CASE n.k = "block" -> ExBlock(n.sub, 1, <<>>, e, c)
    [] n.k = "exprstmt" -> Ev(n.sub[1], e, c).e
    [] n.k = "ret" -> Return(EvOr(n.sub[1], IntV(0), e, c))
    [] n.k \in {"break", "continue"} -> Sig(e, n.k)
    [] n.k = "if" -> IfOn(n, Ev(n.sub[1], e, c), c)
    [] n.k = "for" -> ExLoop(n, ExOr(n.sub[1], e, c), c)
    [] n.k = "match" -> MatchAt(n, PlaceOf(n.sub[1], e, c), c)
    [] OTHER -> Ev(n, e, c).e

Do(what, n, e, c) ==
  IF ~Going(e) THEN Nothing(e)
  ELSE CASE what = "value" -> DoValue(n, e, c)
         [] what = "place" -> DoPlace(n, e, c)
         [] what = "statement" -> Nothing(DoStatement(n, e, c))

\* -------------------------------------------------------------- programs
\* main is called with (argc, argv) when it takes them; the status is the low
\* half of what it returns.
InitialCells(init) == IF init = 0 THEN NoCells ELSE 0 :> IntV(init)
StringCells(bytes) == [o \in 0..(Len(bytes) - 1) |-> IntV(bytes[o + 1])]
Beginning(c) ==
  [mem |-> [i \in DOMAIN c.globals |-> InitialCells(c.globals[i].init)]
           \o [i \in DOMAIN c.strs |-> StringCells(BytesOf(c.strs[i]))] \o << NoCells >>,
   env |-> 0, sig |-> "", rv |-> IntV(0), trace |-> <<>>, fuel |-> Fuel]
MainArgs(f, argv, e) ==
  IF Len(f.params) # 2 THEN e
  ELSE [e EXCEPT !.mem[argv + f.params[1]] = 0 :> IntV(1),
                 !.mem[argv + f.params[2]] = 0 :> PtrV(argv, 0)]
MainFrame(f, e) ==
  MainArgs(f, Len(e.mem), [Allocate(e, Len(f.locals)) EXCEPT !.env = Len(e.mem)])
Outcome(e) ==
  IF Ended(e) THEN [st |-> e.sig, trace |-> e.trace]
  ELSE [st |-> "exited",
        trace |-> Append(e.trace, <<"exit", Unsigned(IF e.sig = "ret" THEN e.rv.o ELSE 0,
                                                     4 * ByteBits)>>)]
Ran(f, c) == Outcome(Ex(f.body, MainFrame(f, Beginning(c)), c))
Meaning(c) == Ran(c.funcs[FindFunc(c, "main")], c @@ ("panic" :> BytesOf(IndexMessage)))
=============================================================================
