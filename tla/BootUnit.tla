------------------------------ MODULE BootUnit ------------------------------
(***************************************************************************)
(* The top level of stage0's parser (parse.c): the declarations of a unit, *)
(* imports spliced into the tokens that follow, and, once all is parsed,   *)
(* the frame each function gets.                                           *)
(***************************************************************************)
EXTENDS BootParse, BootLex

CONSTANTS Files,      \* the files an import can reach, by path
          MaxFiles    \* MAX_FILES of diag.c

ASSUME MaxFilesAssumption == MaxFiles \in Nat

NewCompiler(tokens, defs) ==
  [t |-> tokens, err |-> "", scopes |-> <<<<>>>>, cur |-> 0, funcs |-> <<>>,
   globals |-> <<>>, types |-> <<>>, tvars |-> <<>>, nest |-> 0, indefer |-> FALSE,
   strs |-> <<>>, defs |-> defs, parsed |-> FALSE, imported |-> <<>>]

\* -------------------------------------------------------------- functions
NewFunc(name) ==
  [name |-> name, params |-> <<>>, nct |-> 0, ret |-> Void, retSlot |-> 0,
   locals |-> <<>>, body |-> Nil, folded |-> Nil, td |-> FALSE, listed |-> FALSE]

AddParam(c, byref) ==
  IF Stop(c) THEN c
  ELSE [c EXCEPT !.funcs[c.cur].params = Append(@, LastDeclared(c)),
                 !.funcs[c.cur].locals[LastDeclared(c)].byref = byref]

\* A comptime parameter names a type variable; what is written as its type is
\* parsed and not used.
TypeParam(c, name) ==
  AddParam(Declare([c EXCEPT !.tvars = Append(@, TypeVar(name))], name, TypeVar(name)), FALSE)
PTypeParam(c, name, f) ==
  IF Stop(c) THEN c
  ELSE IF f.nct # Len(f.params) \/ f.nct = 6 THEN Fail(c, "comptime parameters")
  ELSE [PType(TypeParam(c, name)).c EXCEPT !.funcs[c.cur].nct = @ + 1]

\* Six registers: an aggregate of up to two words takes one for each.
Words(types, ty) == IF IsAggregate(ty) /\ SizeOf(types, ty) \in 9..16 THEN 2 ELSE 1
ByRefTy(types, ty) == IsAggregate(ty) /\ SizeOf(types, ty) > 16

RECURSIVE PParams(_, _)
PParam(name, y, words) ==
  IF Stop(y.c) THEN y.c
  ELSE IF y.ty.k = "array" \/ words > 6 \/ Len(y.c.funcs[y.c.cur].params) = 6
  THEN Fail(y.c, "parameter")
  ELSE PParams(AddParam(Declare(y.c, name, y.ty), ByRefTy(y.c.types, y.ty)), words)
PParamTyped(name, y, words) == PParam(name, y, words + Words(y.c.types, y.ty))
PParamAt(c, words) ==
  IF Stop(c) THEN c
  ELSE IF Is(c, "comptime")
  THEN PParams(PTypeParam(Expect(ExpectId(Adv(c)), ":"), TokAt(c, 2).t, c.funcs[c.cur]), words)
  ELSE PParamTyped(Tok(c).t, PType(ExpectId(c)), words)
PParams(c, words) ==
  IF Stop(c) THEN c
  ELSE IF Is(c, ")") THEN Adv(c)
  ELSE PParamAt(IF c.funcs[c.cur].params = <<>> THEN c ELSE Expect(c, ","), words)

\* function: its name is found by calls only when it is complete.
FuncDone(b) ==
  IF Stop(b.c) THEN b.c
  ELSE [LeaveScope(b.c) EXCEPT !.funcs[b.c.cur].body = b.n, !.funcs[b.c.cur].listed = TRUE,
                               !.tvars = <<>>, !.cur = 0]
FuncBody(y) ==
  IF Stop(y.c) THEN y.c
  ELSE IF y.ty.k = "array" THEN Fail(y.c, "array returned")
  ELSE FuncDone(Parse("block", [y.c EXCEPT !.funcs[y.c.cur].ret = y.ty]))
FuncRet(c) == FuncBody(IF Stop(c) \/ Is(c, "{") THEN TypeOut(Void, c) ELSE PType(c))
FuncNamed(c, name) ==
  IF Stop(c) THEN c
  ELSE FuncRet(PParams(Expect(EnterScope([c EXCEPT !.funcs = Append(@, NewFunc(name)),
                                                   !.cur = Len(c.funcs) + 1]), "("), 0))
FuncDecl(c) == FuncNamed(ExpectId(Expect(c, "fn")), TokAt(c, 2).t)

\* ------------------------------------------------------------------ types
NewType(c, name, k, size, align) ==
  [c EXCEPT !.types = Append(@, [name |-> name, k |-> k, size |-> size, align |-> align,
                                 members |-> <<>>, variants |-> <<>>])]

\* Members one after the other, each at the next offset its alignment allows.
EndOf(mem, start, types) ==
  IF mem = <<>> THEN start ELSE Last(mem).off + SizeOf(types, Last(mem).ty)
\* Mutant: members are packed.
PlacePacked(mem, start, types, ty, name) ==
  Append(mem, [name |-> name, ty |-> ty, off |-> EndOf(mem, start, types)])
Place(mem, start, types, ty, name) ==
  Append(mem, [name |-> name, ty |-> ty,
               off |-> RoundUp(EndOf(mem, start, types), AlignOf(types, ty))])
Widest(mem, types) == Max({1} \cup {AlignOf(types, mem[i].ty) : i \in DOMAIN mem})
FurthestEnd(vs, types) == Max({8} \cup {EndOf(vs[i].fields, 8, types) : i \in DOMAIN vs})

RECURSIVE PMembers(_, _, _)
PMember1(name, y, id, mem) ==
  IF Stop(y.c) THEN Out(mem, y.c)
  ELSE IF y.ty = Named(id) \/ SizeOf(y.c.types, y.ty) = 0
  THEN Out(mem, Fail(y.c, "field type"))
  ELSE IF FieldOf(mem, name) # <<>> THEN Out(mem, Fail(y.c, "duplicate field"))
  ELSE PMembers(y.c, id, Place(mem, 0, y.c.types, y.ty, name))
PMemberAt(c, id, mem) ==
  IF Stop(c) THEN Out(mem, c)
  ELSE IF Is(c, "}") THEN Out(mem, Adv(c))
  ELSE PMember1(Tok(c).t, PType(ExpectId(c)), id, mem)
PMembers(c, id, mem) ==
  PMemberAt(IF mem = <<>> \/ Is(c, "}") THEN c ELSE Expect(c, ","), id, mem)

\* struct Name; gives the name one word until its definition.
StructDone(m, id, align) ==
  IF Stop(m.c) THEN m.c
  ELSE IF m.n = <<>> THEN Fail(m.c, "no field")
  ELSE [m.c EXCEPT !.types[id].members = m.n, !.types[id].align = align,
                   !.types[id].size = RoundUp(EndOf(m.n, 0, m.c.types), align)]
StructMembers(m, id) == StructDone(m, id, Widest(m.n, m.c.types))
StructBody(c, id) == StructMembers(PMembers(Expect(c, "{"), id, <<>>), id)
StructNamed(c, name, prev) ==
  IF Stop(c) THEN c
  ELSE IF Is(c, ";") THEN Adv(IF prev = NoTy THEN NewType(c, name, "struct", 8, 8) ELSE c)
  ELSE IF MembersOf(c.types, prev) # <<>> THEN Fail(c, "redefinition")
  ELSE IF KindOf(c.types, prev) = "struct" THEN StructBody(c, prev.len)
  ELSE StructBody(NewType(c, name, "struct", 0, 1), Len(c.types) + 1)
StructDecl(c) ==
  StructNamed(ExpectId(Adv(c)), TokAt(c, 2).t, TypeLookup(c.types, TokAt(c, 2).t))

RECURSIVE PPayload(_, _)
PPayloadOne(y, mem) ==
  IF Stop(y.c) THEN Out(mem, y.c)
  ELSE IF SizeOf(y.c.types, y.ty) = 0 THEN Out(mem, Fail(y.c, "field type"))
  ELSE PPayload(y.c, Place(mem, 8, y.c.types, y.ty, ""))
PPayload(c, mem) ==
  IF Stop(c) THEN Out(mem, c)
  ELSE IF Is(c, ")")
  THEN Out(mem, IF mem = <<>> THEN Fail(c, "empty payload") ELSE Adv(c))
  ELSE PPayloadOne(PType(IF mem = <<>> THEN c ELSE Expect(c, ",")), mem)

MaxVariants == 64
RECURSIVE PVariants(_, _)
PVariantDone(p, name, vs) ==
  IF Stop(p.c) THEN Out(vs, p.c)
  ELSE IF Len(vs) = MaxVariants \/ \E i \in DOMAIN vs : vs[i].name = name
  THEN Out(vs, Fail(p.c, "variant"))
  ELSE PVariants(p.c, Append(vs, [name |-> name, tag |-> Len(vs), fields |-> p.n]))
PVariantFields(c) == IF ~Stop(c) /\ Is(c, "(") THEN PPayload(Adv(c), <<>>) ELSE Out(<<>>, c)
PVariantAt(c, vs) ==
  IF Stop(c) THEN Out(vs, c)
  ELSE IF Is(c, "}") THEN Out(vs, Adv(c))
  ELSE PVariantDone(PVariantFields(ExpectId(c)), Tok(c).t, vs)
PVariants(c, vs) == PVariantAt(IF vs = <<>> \/ Is(c, "}") THEN c ELSE Expect(c, ","), vs)

\* A tag word, then room for the largest payload.
EnumDone(v, id) ==
  IF Stop(v.c) THEN v.c
  ELSE IF v.n = <<>> THEN Fail(v.c, "no variant")
  ELSE [v.c EXCEPT !.types[id].variants = v.n,
                   !.types[id].size = RoundUp(FurthestEnd(v.n, v.c.types), 8)]
EnumNamed(c, name) ==
  IF Stop(c) THEN c
  ELSE IF TypeLookup(c.types, name) # NoTy THEN Fail(c, "redefinition")
  ELSE EnumDone(PVariants(Expect(NewType(c, name, "enum", 0, 8), "{"), <<>>), Len(c.types) + 1)
EnumDecl(c) == EnumNamed(ExpectId(Adv(c)), TokAt(c, 2).t)

\* ---------------------------------------------------------------- globals
\* eval_const: literals, conversions and the operators, nothing else.
RECURSIVE EvalConst(_)
ConstV(v)   == [v |-> v, err |-> ""]
ConstError(why) == [v |-> 0, err |-> why]
ConstUnary(op, a, ty) ==
  IF a.err # "" THEN a
  ELSE ConstV(CASE op = "neg" -> Word(-a.v)
               [] op = "bitnot" -> -a.v - 1
               [] op = "not" -> Truth(a.v = 0)
               [] op = "cast" -> IF ty.k = "bool" THEN Truth(a.v # 0) ELSE TruncTo(a.v, ty))
ConstBinary(op, a, b) ==
  IF b.err # "" THEN b ELSE IF a.err # "" THEN a
  ELSE IF DivError(op, a.v, b.v) # "" THEN ConstError(DivError(op, a.v, b.v))
  ELSE ConstV(I64(op, a.v, b.v))
EvalConst(n) ==
  CASE n.k = "num" -> ConstV(n.v)
    [] n.k \in {"neg", "bitnot", "not", "cast"} -> ConstUnary(n.k, EvalConst(n.sub[1]), n.ty)
    [] n.k \in BinaryOps -> ConstBinary(n.k, EvalConst(n.sub[1]), EvalConst(n.sub[2]))
    [] OTHER -> ConstError("not constant")

GlobalDone(d, ty, v) ==
  IF Stop(d) THEN d
  ELSE Expect([d EXCEPT !.globals[-LastDeclared(d)].init = TruncTo(v, ty)], ";")
GlobalConst(c, name, ty, v) ==
  IF v.err # "" THEN Fail(c, v.err) ELSE GlobalDone(Declare(c, name, ty), ty, v.v)
GlobalInit(name, ty, r) ==
  IF Stop(r.c) THEN r.c
  ELSE IF ty.k = "ptr" \/ IsAggregate(ty) THEN Fail(r.c, "global initializer")
  ELSE GlobalConst(r.c, name, ty, EvalConst(r.n))
GlobalTyped(name, ty, r) == GlobalInit(name, IF ty = NoTy THEN r.n.ty ELSE ty, r)
GlobalNamed(name, y) ==
  IF Stop(y.c) THEN y.c
  ELSE IF Is(y.c, "=") THEN GlobalTyped(name, y.ty, CheckOut(Parse("assign", Adv(y.c))))
  ELSE IF y.ty = NoTy THEN Fail(y.c, "'let' requires an initializer")
  ELSE Expect(Declare(y.c, name, y.ty), ";")
GlobalDecl(c) == GlobalNamed(TokAt(c, 2).t, DeclType(c, ExpectId(Adv(c))))

\* ---------------------------------------------------------------- imports
\* diag_file_dir: the path up to and with its last slash.
RECURSIVE DirOf(_)
DirOf(path) == IF path = "" \/ At(path, Len(path)) = "/" THEN path
               ELSE DirOf(SubSeq(path, 1, Len(path) - 1))

\* A file is read once.  Its tokens come before what follows the import,
\* without its end of file, unless that is the only token it has.
Splice(tokens, rest) == IF Len(tokens) = 1 THEN tokens \o rest ELSE Front(tokens) \o rest

\* Mutant: only the file imported last is remembered.
JustImported(c, path) == path = Last(c.imported)
AlreadyImported(c, path) == path \in ToSet(c.imported)

ImportRead(c, path, l) ==
  IF l.err # "" THEN Fail(c, l.err)
  ELSE [c EXCEPT !.imported = Append(@, path), !.t = Splice(l.out, @)]
ImportFrom(c, path) ==
  IF Stop(c) \/ AlreadyImported(c, path) THEN c
  ELSE IF path \notin DOMAIN Files THEN Fail(c, "cannot open")
  ELSE IF Len(c.imported) = MaxFiles THEN Fail(c, "too many files")
  ELSE ImportRead(c, path, Lex(Files[path], path))
ImportPath(dir, p) == IF StartsWith(p, 1, "std/") THEN p ELSE DirOf(dir) \o p
ImportDecl(c) ==
  IF TokAt(c, 2).k # "str" THEN Fail(c, "import path")
  ELSE ImportFrom(Expect(Adv(Adv(c)), ";"), ImportPath(Tok(c).f, TokAt(c, 2).s))

\* -------------------------------------------------- what parse ends with
\* The variables of a frame in the order of the list, the latest first; each
\* ends at its offset below the frame pointer.
\* Mutant: a small variable gets its own size, though it is stored as a word.
SlotSizeBare(types, v) == IF v.byref THEN 8 ELSE SizeOf(types, v.ty)
SlotSize(types, v) == IF v.byref \/ SizeOf(types, v.ty) < 8 THEN 8 ELSE SizeOf(types, v.ty)
SlotAlign(types, v) == IF v.byref THEN 8 ELSE AlignOf(types, v.ty)

Offsets(types, locals) ==
  FoldRight(LAMBDA v, offs :
              LET off == IF offs = <<>> THEN 0 ELSE Head(offs)
              IN <<RoundUp(off + SlotSize(types, v), SlotAlign(types, v))>> \o offs,
            locals, <<>>)
LayOut(types, locals) ==
  LET offs == Offsets(types, locals)
  IN [i \in DOMAIN locals |-> [locals[i] EXCEPT !.off = offs[i]]]

StackSize(f) == IF f.locals = <<>> THEN 0 ELSE RoundUp(f.locals[1].off, 16)
=============================================================================
