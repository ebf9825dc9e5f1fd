----------------------------- MODULE BootCheck -----------------------------
(***************************************************************************)
(* The type checker of stage0 (type.c): add_type gives every node its      *)
(* type, inserts the conversions, resolves members, variants and callees,  *)
(* reserves the temporaries a value in memory needs, runs comptime blocks  *)
(* and instantiates generic functions.  Every operator takes and returns   *)
(* the compiler's state c; an error (error_at) sticks in c.err.            *)
(***************************************************************************)
EXTENDS BootComptime, TLC

Out(n, c) == [n |-> n, c |-> c]
Typed(n, ty) == [n EXCEPT !.ty = ty]
Bad(n, c, why) == Out(n, Fail(c, why))

\* can_implicit: widening, except signed to unsigned, and literals that fit.
\* Mutant: the sign is not looked at.
CanImplicitWiden(n, ty) ==
  (IsInteger(n.ty) /\ IsInteger(ty)) =>
     ty.size > n.ty.size \/ (n.k = "num" /\ IntFits(n.v, ty))
CanImplicit(n, ty) ==
  (IsInteger(n.ty) /\ IsInteger(ty)) =>
     \/ ty.size > n.ty.size /\ ~(ty.uns /\ ~n.ty.uns)
     \/ n.k = "num" /\ IntFits(n.v, ty)

CastTo(n, ty, c) ==
  IF n.ty = ty THEN Out(n, c)
  ELSE IF CanImplicit(n, ty) THEN Out(CastNode(n, ty), c)
  ELSE Bad(n, c, "implicit conversion")

ToValue(n) == IF n.ty.k = "array" THEN CastNode(n, Decayed(n.ty)) ELSE n

\* The node with a temporary of its own for its value.
WithTemp(n, ty, c) ==
  LET c1 == AllocTemp(c, ty) IN Out([n EXCEPT !.tmp = LastLocal(c1)], c1)

\* An array becomes a slice of itself where a slice is wanted.
Coerce(n, want, c) ==
  IF want.k # "slice" \/ n.ty.k # "array"
     \/ ~SameType(c.types, want.base[1], n.ty.base[1]) THEN Out(n, c)
  ELSE WithTemp([Nd("slice", <<n, Nil, Nil>>) EXCEPT !.td = TRUE, !.ty = want], want, c)

IsNull(n) == n.k = "num" /\ n.v = 0

\* A value for a place of type want: an aggregate must have that very type,
\* anything else is decayed and converted; strict also tells pointers from
\* integers, as calls and returns do and field initialisers do not.
FitScalar(v, want, strict, c) ==
  IF IsAggregate(v.ty) THEN Bad(v, c, "aggregate as a scalar")
  ELSE IF strict /\ (want.k = "ptr") # (v.ty.k = "ptr") /\ ~IsNull(v)
  THEN Bad(v, c, "pointer and integer")
  ELSE CastTo(v, want, c)
FitTo(r, want, strict) ==
  IF ~IsAggregate(want) THEN FitScalar(ToValue(r.n), want, strict, r.c)
  ELSE IF SameType(r.c.types, want, r.n.ty) THEN r ELSE Bad(r.n, r.c, "aggregate type")
Fit(n, want, strict, c) == FitTo(Coerce(n, want, c), want, strict)

\* A conversion, one after the other, of values to the types wanted.
RECURSIVE FitAll(_, _, _, _, _)
FitAll(args, wants, i, strict, c) ==
  IF i > Len(args) THEN Out(args, c)
  ELSE LET a == Fit(args[i], wants[i], strict, c)
       IN FitAll([args EXCEPT ![i] = a.n], wants, i + 1, strict, a.c)

\* usual_conv: both operands are brought to the type the two have in common.
UsualRight(n, ty, l, r) == Out([n EXCEPT !.sub = <<l, r.n>>, !.ty = ty], r.c)
UsualLeft(n, ty, l) == UsualRight(n, ty, l.n, CastTo(n.sub[2], ty, l.c))
UsualTo(n, ty, c) == UsualLeft(n, ty, CastTo(n.sub[1], ty, c))
UsualConv(n, c) == UsualTo(n, Common(n.sub[1].ty, n.sub[2].ty), c)
Decay(n) == [n EXCEPT !.sub = <<ToValue(@[1]), ToValue(@[2])>>]

BothIntegers(n) == IsInteger(n.sub[1].ty) /\ IsInteger(n.sub[2].ty)
Promoted(ty) == IF ty.size < 8 THEN TI64 ELSE ty

PointerAdd(n, p, o, c) ==
  IF IsInteger(o.ty) THEN Out([n EXCEPT !.sub = <<p, o>>, !.ty = p.ty], c)
  ELSE Bad(n, c, "pointer offset")
CheckAdditive(n, l, r, c) ==
  CASE l.ty.k = "ptr" /\ r.ty.k = "ptr" ->
         IF n.k = "add" THEN Bad(n, c, "two pointers") ELSE Out(Typed(n, TI64), c)
    [] l.ty.k = "ptr" /\ r.ty.k # "ptr" -> PointerAdd(n, l, r, c)
    [] l.ty.k # "ptr" /\ r.ty.k = "ptr" -> PointerAdd(n, r, l, c)
    [] OTHER -> IF BothIntegers(n) THEN UsualConv(n, c) ELSE Bad(n, c, "operands")

CheckMultiplicative(n, c) ==
  IF ~BothIntegers(n) THEN Bad(n, c, "operands")
  ELSE IF n.k \in {"shl", "shr"}
  THEN LET l == CastTo(n.sub[1], Promoted(n.sub[1].ty), c)
       IN Out([n EXCEPT !.sub[1] = l.n, !.ty = l.n.ty], l.c)
  ELSE UsualConv(n, c)

CheckCompare(n, c) ==
  IF IsAggregate(n.sub[1].ty) \/ IsAggregate(n.sub[2].ty) THEN Bad(n, c, "aggregates compared")
  ELSE LET r == IF BothIntegers(n) THEN UsualConv(n, c) ELSE Out(n, c)
       IN Out(Typed(r.n, Bool), r.c)

\* A pointer and an integer, or two pointers to different types.
Mixed(l, v, types) ==
  \/ l.k = "ptr" /\ IsInteger(v.ty) /\ ~IsNull(v)
  \/ IsInteger(l) /\ v.ty.k = "ptr"
  \/ /\ l.k = "ptr" /\ v.ty.k = "ptr" /\ ~SameType(types, l, v.ty)
     /\ v.ty.base[1].k # "void" /\ l.base[1].k # "void"
AssignOut(n, ty, a) == Out([n EXCEPT !.sub[2] = a.n, !.ty = ty], a.c)
CheckAssign(n, c) ==
  LET l == n.sub[1].ty
  IN IF l.k = "array" \/ (~IsAggregate(l) /\ Mixed(l, ToValue(n.sub[2]), c.types))
     THEN Bad(n, c, "assignment")
     ELSE AssignOut(n, l, Fit(n.sub[2], l, FALSE, c))

CheckOpAssign(n, c) ==
  LET l == n.sub[1].ty
  IN IF IF l.k = "ptr" THEN n.v \in {"add", "sub"} /\ IsInteger(n.sub[2].ty)
        ELSE IsInteger(l) /\ IsInteger(n.sub[2].ty)
     THEN Out(Typed(n, l), c) ELSE Bad(n, c, "operands")

CheckIndex(n, c) ==
  LET l == n.sub[1].ty
  IN IF l.k \in {"array", "ptr", "slice"} /\ l.base[1].k # "void" /\ IsInteger(n.sub[2].ty)
     THEN Out(Typed(n, l.base[1]), c) ELSE Bad(n, c, "index")

CheckSlice(n, c) ==
  LET l == n.sub[1].ty
  IN IF /\ l.k \in {"array", "slice"} /\ c.cur # 0
        /\ \A i \in 2..3 : n.sub[i].k # "nil" => IsInteger(n.sub[i].ty)
     THEN WithTemp(Typed(n, TypeSlice(l.base[1])), TypeSlice(l.base[1]), c)
     ELSE Bad(n, c, "slice")

EnumLit(n, r) == WithTemp([n EXCEPT !.sub = r.n], n.ty, r.c)
VariantLit(n, fields, c) ==
  IF Len(n.sub) # Len(fields) THEN Bad(n, c, "variant values")
  ELSE EnumLit(n, FitAll(n.sub, [i \in DOMAIN fields |-> fields[i].ty], 1, FALSE, c))
CheckEnumLit(n, vs, c) ==
  IF vs = <<>> \/ c.cur = 0 THEN Bad(n, c, "variant") ELSE VariantLit(n, vs[1].fields, c)

\* Every field of a literal is one of the struct's, and none is given twice.
FieldsNamed(n, types) ==
  [i \in DOMAIN n.sub |-> FieldOf(MembersOf(types, n.ty), n.sub[i].nm)]
StructLit(n, m, r) ==
  WithTemp([n EXCEPT !.sub = [i \in DOMAIN @ |->
              [@[i] EXCEPT !.sub = <<r.n[i]>>, !.ty = m[i][1].ty, !.v = m[i][1].off]]],
           n.ty, r.c)
CheckStructLit(n, m, c) ==
  IF \/ c.cur = 0
     \/ \E i \in DOMAIN m : m[i] = <<>> \/ \E j \in 1..(i - 1) : n.sub[j].nm = n.sub[i].nm
  THEN Bad(n, c, "field")
  ELSE StructLit(n, m, FitAll([i \in DOMAIN m |-> n.sub[i].sub[1]],
                              [i \in DOMAIN m |-> m[i][1].ty], 1, FALSE, c))

CheckMember(n, l, c) ==
  LET m == FieldOf(MembersOf(c.types, l), n.nm)
  IN IF KindOf(c.types, l) \in {"struct", "slice"} /\ m # <<>>
     THEN Out([n EXCEPT !.ty = m[1].ty, !.v = m[1].off], c) ELSE Bad(n, c, "member")
Pointee(ty) == IF ty.k = "ptr" THEN ty.base[1] ELSE ty

CheckDeref(n, c) ==
  LET t == n.sub[1].ty
  IN IF t.k # "ptr" THEN Bad(n, c, "dereference")
     ELSE IF t.base[1].k = "void" THEN Bad(n, c, "dereference")
     ELSE Out(Typed(n, t.base[1]), c)

CheckCast(n, c) ==
  IF \/ ~IsNumeric(n.ty) /\ n.ty.k # "void"
     \/ n.ty.k = "ptr" /\ KindOf(c.types, n.sub[1].ty) \in {"struct", "array", "slice"}
  THEN Bad(n, c, "cast") ELSE Out(n, c)

RetOut(n, r) == Out([n EXCEPT !.sub = <<r.n>>], r.c)
CheckRet(n, want, c) ==
  IF (n.sub[1].k = "nil") # (want.k = "void") THEN Bad(n, c, "return")
  ELSE IF n.sub[1].k = "nil" THEN Out(n, c)
  ELSE RetOut(n, Fit(n.sub[1], want, TRUE, c))

\* ------------------------------------------------------ monomorphization
RECURSIVE Subst(_, _, _), TypeName(_, _), CloneNode(_, _, _, _)
Subst(types, t, bind) ==
  LET b == Subst(types, t.base[1], bind)
  IN CASE t.k = "tvar" -> IF t.name \in DOMAIN bind THEN bind[t.name] ELSE t
       [] t.k = "ptr" -> TypePtr(b)
       [] t.k = "array" -> TypeArray(b, SizeOf(types, b), AlignOf(types, b), t.len)
       [] t.k = "slice" -> TypeSlice(b)
       [] OTHER -> t

TypeName(types, t) ==
  CASE t.k = "ptr" -> "*" \o TypeName(types, t.base[1])
    [] t.k = "slice" -> IF t.base[1] = TU8 THEN "str" ELSE "[]" \o TypeName(types, t.base[1])
    [] t.k = "array" -> "[" \o ToString(t.len) \o "]" \o TypeName(types, t.base[1])
    [] t.k = "named" -> types[t.len].name
    [] OTHER -> t.name

\* The comptime parameters are the first variables of the generic function;
\* its copy has none of them, so every other number moves down by nct.
\* Mutant: a type used as an operand stays what it was in the generic function.
CloneNodeOperands(types, n, bind, nct) ==
  LET moved(id) == IF id > nct THEN id - nct ELSE id
  IN [n EXCEPT !.ty = Subst(types, @, bind), !.x = moved(@), !.tmp = moved(@),
               !.sub = [i \in DOMAIN @ |-> CloneNode(types, @[i], bind, nct)]]
CloneNode(types, n, bind, nct) ==
  LET moved(id) == IF id > nct THEN id - nct ELSE id
  IN [n EXCEPT !.ty = Subst(types, @, bind), !.tv = Subst(types, @, bind),
               !.x = moved(@), !.tmp = moved(@),
               !.sub = [i \in DOMAIN @ |-> CloneNode(types, @[i], bind, nct)]]

InstanceName(types, f, concretes) ==
  FoldLeft(LAMBDA done, t : done \o TypeName(types, t) \o "$", f.name \o "$", concretes)

\* A variable of the copy keeps by_ref as it was decided for the generic one.
CloneFunc(types, f, name, bind) ==
  [f EXCEPT !.name = name, !.nct = 0, !.ret = Subst(types, @, bind), !.retSlot = 0,
            !.locals = [i \in 1..(Len(@) - f.nct) |->
                          [@[i + f.nct] EXCEPT !.ty = Subst(types, @, bind)]],
            !.params = [i \in 1..(Len(@) - f.nct) |-> @[i + f.nct] - f.nct],
            !.body = CloneNode(types, f.body, bind, f.nct)]

RECURSIVE Check(_, _), CheckSeq(_, _, _), AddType(_, _), CheckArms(_, _, _, _)

\* ret_slot holds the address an aggregate too big for registers goes to.
ReserveRet(c) ==
  IF IsAggregate(c.funcs[c.cur].ret) /\ SizeOf(c.types, c.funcs[c.cur].ret) > 16
  THEN LET c1 == AllocTemp(c, TypePtr(c.funcs[c.cur].ret))
       IN [c1 EXCEPT !.funcs[c.cur].retSlot = LastLocal(c1)]
  ELSE c

\* type_func, for a function and for a fresh instance: a body already typed,
\* or being typed further out, is left alone.
WithBody(i, r) == [r.c EXCEPT !.funcs[i].body = r.n]
BodyTyped(i, c) ==
  IF c.funcs[i].td THEN c
  ELSE WithBody(i, Check(c.funcs[i].body, [c EXCEPT !.funcs[i].td = TRUE]))
TypeBody(i, c) == BodyTyped(i, ReserveRet([c EXCEPT !.cur = i]))

\* The type arguments are taken off the call, which is to the instance then.
\* Until the whole unit is parsed the list of functions has no tail yet, and
\* add_func runs into a null pointer.
ToInstance(n, f, name, c) == Out([n EXCEPT !.nm = name, !.sub = SubSeq(@, f.nct + 1, Len(@))], c)
Bindings(f, types) == [t \in {f.locals[i].name : i \in 1..f.nct} |->
                         types[CHOOSE i \in 1..f.nct : f.locals[i].name = t]]
WithInstance(c, f, name, types) ==
  [c EXCEPT !.funcs = Append(@, CloneFunc(c.types, f, name, Bindings(f, types)))]
Instantiate(n, f, types, name, c) ==
  LET found == FindFunc(c, name)
  IN IF found = 0 /\ ~c.parsed THEN Bad(n, c, "crash")
     ELSE ToInstance(n, f, name,
            [TypeBody(IF found # 0 THEN found ELSE Len(c.funcs) + 1,
                      IF found # 0 THEN c ELSE WithInstance(c, f, name, types))
               EXCEPT !.cur = c.cur])
InstantiateFor(n, f, types, c) == Instantiate(n, f, types, InstanceName(c.types, f, types), c)
Monomorphize(n, f, c) ==
  IF \/ Len(n.sub) < f.nct
     \/ \E i \in 1..f.nct : n.sub[i].k # "typeexpr" \/ n.sub[i].tv.k = "tvar"
  THEN Bad(n, c, "type argument")
  ELSE InstantiateFor(n, f, [i \in 1..f.nct |-> n.sub[i].tv], c)

\* The arguments in order; one bigger than two registers is copied to a
\* temporary of the caller.
ArgPlaced(a, want) ==
  IF IsAggregate(want) /\ SizeOf(a.c.types, want) > 16 THEN WithTemp(a.n, want, a.c) ELSE a
RECURSIVE FitArgs(_, _, _, _)
FitArgs(args, wants, i, c) ==
  IF i > Len(args) THEN Out(args, c)
  ELSE LET a == ArgPlaced(Fit(args[i], wants[i], TRUE, c), wants[i])
       IN FitArgs([args EXCEPT ![i] = a.n], wants, i + 1, a.c)

CallOut(n, ret, c) == IF IsAggregate(ret) THEN WithTemp(n, ret, c) ELSE Out([n EXCEPT !.tmp = 0], c)
CallFitted(n, ret, r) ==
  IF r.c.err # "" THEN Out(n, r.c) ELSE CallOut([n EXCEPT !.sub = r.n, !.ty = ret], ret, r.c)
CheckArgs(n, f, c) ==
  IF Len(n.sub) # Len(f.params) THEN Bad(n, c, "argument count")
  ELSE CallFitted(n, f.ret,
         FitArgs(n.sub, [i \in DOMAIN f.params |-> f.locals[f.params[i]].ty], 1, c))

CallTo(r) == IF r.c.err # "" THEN r ELSE CheckArgs(r.n, r.c.funcs[FindFunc(r.c, r.n.nm)], r.c)
CheckCall(n, i, c) ==
  IF i = 0 THEN Bad(n, c, "undefined function")
  ELSE CallTo(IF c.funcs[i].nct > 0 THEN Monomorphize(n, c.funcs[i], c) ELSE Out(n, c))

CheckSyscall(n, c) ==
  LET args == [i \in DOMAIN n.sub |-> ToValue(n.sub[i])]
  IN IF \A i \in DOMAIN args : IsNumeric(args[i].ty)
     THEN Out([n EXCEPT !.sub = args, !.ty = TI64], c) ELSE Bad(n, c, "syscall argument")

CheckComptime(n, r, c) ==
  IF r.s.err # "" THEN Bad(n, c, r.s.err)
  ELSE IF r.v.k = "str" THEN Bad(n, c, "comptime string")
  ELSE IF r.v.k = "int" THEN Out([n EXCEPT !.v = r.v.num, !.ty = TI64], c)
  ELSE Out(Typed(n, Void), c)

\* type_match: the arms are typed in order, each with its bindings given the
\* types of the variant's fields just before.
BindsTyped(c, sub, fields) ==
  LET typed(id) == {b \in DOMAIN fields : b < Len(sub) /\ sub[b + 1].x = id}
  IN [c EXCEPT !.funcs[c.cur].locals =
        [id \in DOMAIN @ |-> IF typed(id) = {} THEN @[id]
                             ELSE [@[id] EXCEPT !.ty = fields[Max(typed(id))].ty]]]
ArmTyped(arm, fields, st, body) ==
  [arm EXCEPT !.td = TRUE, !.ty = Void, !.tv = st,
              !.sub = <<body>> \o [b \in 1..(Len(@) - 1) |->
                         [@[b + 1] EXCEPT !.td = TRUE,
                            !.ty = IF arm.nm = "" THEN NoTy ELSE fields[b].ty]]]
ArmBody(arms, i, fields, st, body) ==
  CheckArms([arms EXCEPT ![i] = ArmTyped(@, fields, st, body.n)], i + 1, st, body.c)
ArmBound(arms, i, fields, st, c) ==
  ArmBody(arms, i, fields, st,
          Check(arms[i].sub[1], IF fields = <<>> \/ Len(arms[i].sub) = 1 THEN c
                                ELSE BindsTyped(c, arms[i].sub, fields)))
ArmBad(arms, i, vs) ==
  LET arm == arms[i]
  IN \/ \E j \in 1..(i - 1) : arms[j].nm = arm.nm
     \/ arm.nm # "" /\ vs = <<>>
     \/ arm.nm # "" /\ Len(arm.sub) \notin {1, Len(vs[1].fields) + 1}
CheckArm(arms, i, vs, st, c) ==
  IF ArmBad(arms, i, vs) THEN Out(arms, Fail(c, "arm"))
  ELSE ArmBound(arms, i, IF arms[i].nm = "" THEN <<>> ELSE vs[1].fields, st, c)
CheckArms(arms, i, st, c) ==
  IF i > Len(arms) \/ c.err # "" THEN Out(arms, c)
  ELSE CheckArm(arms, i, VariantOf(c.types, st, arms[i].nm), st, c)

Covers(arms, vs) ==
  LET names == {arms[i].nm : i \in DOMAIN arms}
  IN "" \in names \/ \A v \in ToSet(vs) : v.name \in names
MatchOut(n, cond, r) ==
  IF r.c.err # "" THEN Out(n, r.c)
  ELSE IF ~Covers(r.n, r.c.types[cond.ty.len].variants) THEN Bad(n, r.c, "match does not cover")
  ELSE IF r.c.cur = 0 THEN Bad(n, r.c, "match")
  ELSE WithTemp([n EXCEPT !.sub = <<cond>> \o r.n, !.ty = Void], TypePtr(cond.ty), r.c)
CheckMatch(n, cond) ==
  IF cond.c.err # "" THEN cond
  ELSE IF KindOf(cond.c.types, cond.n.ty) # "enum" THEN Bad(n, cond.c, "match")
  ELSE MatchOut(n, cond.n, CheckArms(Tail(n.sub), 1, cond.n.ty, cond.c))

Resolve(n, c) ==
  CASE n.k = "num" -> Out(IF n.ty = NoTy THEN Typed(n, TI64) ELSE n, c)
    [] n.k = "str" -> Out(Typed(n, TypeStr), c)
    [] n.k = "comptime" -> CheckComptime(n, ComptimeEval(n, c), c)
    [] n.k = "var" -> Out(Typed(n, VarRec(c, n.x).ty), c)
    [] n.k = "typeexpr" -> Out(Typed(n, TypeTy), c)
    [] n.k = "sizeof" -> Out(Typed(n, TI64), c)
    [] n.k \in {"add", "sub"} -> CheckAdditive(Decay(n), ToValue(n.sub[1]), ToValue(n.sub[2]), c)
    [] n.k \in ArithOps \ {"add", "sub"} -> CheckMultiplicative(n, c)
    [] n.k \in {"neg", "bitnot"} ->
         IF IsInteger(n.sub[1].ty) THEN Out(Typed(n, Promoted(n.sub[1].ty)), c)
         ELSE Bad(n, c, "operand")
    [] n.k \in CompareOps -> CheckCompare(Decay(n), c)
    [] n.k \in {"not", "land", "lor"} -> Out(Typed(n, Bool), c)
    [] n.k = "assign" -> CheckAssign(n, c)
    [] n.k = "opassign" -> CheckOpAssign(n, c)
    [] n.k = "index" -> CheckIndex(n, c)
    [] n.k = "slice" -> CheckSlice(n, c)
    [] n.k = "enumlit" -> CheckEnumLit(n, VariantOf(c.types, n.ty, n.nm), c)
    [] n.k = "structlit" -> CheckStructLit(n, FieldsNamed(n, c.types), c)
    [] n.k = "member" -> CheckMember(n, Pointee(n.sub[1].ty), c)
    [] n.k = "addr" -> Out(Typed(n, TypePtr(n.sub[1].ty)), c)
    [] n.k = "deref" -> CheckDeref(n, c)
    [] n.k = "cast" -> CheckCast(n, c)
    [] n.k = "comma" -> Out(Typed(n, n.sub[2].ty), c)
    [] n.k = "call" -> CheckCall(n, FindFunc(c, n.nm), c)
    [] n.k = "syscall" -> CheckSyscall(n, c)
    [] n.k = "ret" -> CheckRet(n, IF c.cur = 0 THEN Void ELSE c.funcs[c.cur].ret, c)
    [] n.k = "field" -> Out(n, c)
    [] OTHER -> Out(IF n.ty = NoTy THEN Typed(n, Void) ELSE n, c)

\* A loop is typed condition first, although it runs its init first.
TypingOrder(n) == IF n.k = "for" THEN <<2, 1, 3, 4>> ELSE [i \in DOMAIN n.sub |-> i]
CheckSeq(kids, order, c) ==
  IF order = <<>> THEN Out(kids, c)
  ELSE LET r == Check(kids[order[1]], c)
       IN CheckSeq([kids EXCEPT ![order[1]] = r.n], Tail(order), r.c)

\* add_type, on a list of nodes: once per node, its children first, then the
\* nodes linked after it, and the node itself last.  A match is done before
\* what is linked to it.
HasList(n) == n.k \in {"block", "call", "syscall", "structlit", "enumlit"}
Opened(n, kids) == Out([n EXCEPT !.td = TRUE, !.sub = kids.n], kids.c)
OpenNode(n, c) ==
  Opened(n, IF HasList(n) THEN AddType(n.sub, c) ELSE CheckSeq(n.sub, TypingOrder(n), c))
Before(n, rest) == Out(<<n>> \o rest.n, rest.c)
ResolvedBefore(r, rest) == Out(<<r.n>> \o rest, r.c)
Settled(n, rest) ==
  IF rest.c.err # "" THEN Before(n, rest) ELSE ResolvedBefore(Resolve(n, rest.c), rest.n)
AddTypeFirst(n, rest, c) ==
  IF n.td \/ n.k = "nil" THEN Before(n, AddType(rest, c))
  ELSE IF n.k = "match"
  THEN LET r == CheckMatch([n EXCEPT !.td = TRUE], Check(n.sub[1], c))
       IN Before(r.n, AddType(rest, r.c))
  ELSE LET r == OpenNode(n, c) IN Settled(r.n, AddType(rest, r.c))
AddType(list, c) ==
  IF list = <<>> \/ c.err # "" THEN Out(list, c)
  ELSE AddTypeFirst(Head(list), Tail(list), c)
FirstTyped(r) == Out(Head(r.n), r.c)
Check(n, c) == FirstTyped(AddType(<<n>>, c))
=============================================================================
