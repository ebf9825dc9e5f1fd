----------------------------- MODULE BootParse -----------------------------
(***************************************************************************)
(* The parser of stage0 (parse.c).  A token is [k, t, v, s]: its kind (id, *)
(* kw, punct, num, str, eof), its text, its value and a string's contents. *)
(* c.t holds the tokens still to come, a following file's after this       *)
(* one's.  Names are resolved and `let` types inferred while parsing.      *)
(***************************************************************************)
EXTENDS BootCheck

CONSTANT MaxNest     \* 1024 in parse_enter: nested expressions and statements

ASSUME MaxNestAssumption == MaxNest \in Nat

\* ---------------------------------------------------------------- tokens
\* Past the last token is a null pointer, which ends the compiler.
NullToken == [k |-> "null", t |-> "", v |-> 0, s |-> "", f |-> ""]
Tok(c)    == IF c.t = <<>> THEN NullToken ELSE Head(c.t)
TokAt(c, i) == IF i > Len(c.t) THEN NullToken ELSE c.t[i]
Is(c, s)  == Tok(c).t = s
Adv(c)    == IF c.err # "" THEN c
             ELSE IF c.t = <<>> THEN Fail(c, "crash") ELSE [c EXCEPT !.t = Tail(@)]
Expect(c, s)  == IF Is(c, s) THEN Adv(c) ELSE Fail(c, "expected")
ExpectId(c)   == IF Tok(c).k = "id" THEN Adv(c) ELSE Fail(c, "expected a name")
Stop(c)   == c.err # ""

\* ---------------------------------------------------- scopes and variables
EnterScope(c) == [c EXCEPT !.scopes = <<<<>>>> \o @]
LeaveScope(c) == [c EXCEPT !.scopes = IF @ = <<>> THEN @ ELSE Tail(@)]

\* find_var: the innermost scope that has the name.
FindVar(c, name) ==
  LET s == FirstIn({k \in DOMAIN c.scopes : \E i \in DOMAIN c.scopes[k] : c.scopes[k][i].name = name})
  IN IF s = 0 THEN 0
     ELSE c.scopes[s][FirstIn({i \in DOMAIN c.scopes[s] : c.scopes[s][i].name = name})].id

\* declare: a local of the function being parsed, or a global; a name once
\* per scope.  Its number is LastDeclared afterwards.
Declare(c, name, ty) ==
  LET id == IF c.cur = 0 THEN -(Len(c.globals) + 1)
            ELSE Len(c.funcs[c.cur].locals) + 1
      c1 == IF c.cur = 0
            THEN [c EXCEPT !.globals = Append(@, [name |-> name, ty |-> ty, init |-> 0,
                                                  src |-> Nil, off |-> 0])]
            ELSE AddLocal(c, name, ty)
  IN IF Stop(c) THEN c
     ELSE IF \E i \in DOMAIN c.scopes[1] : c.scopes[1][i].name = name
     THEN Fail(c, "redeclaration")
     ELSE [c1 EXCEPT !.scopes[1] = Append(@, [name |-> name, id |-> id])]
LastDeclared(c) == Last(c.scopes[1]).id

\* ------------------------------------------- conditional compilation: $if
\* skip_balanced: where the brace that closes the block is, from i on.
RECURSIVE Close(_, _, _)
Close(t, i, depth) ==
  IF i > Len(t) THEN 0
  ELSE LET d == depth + (IF t[i].t = "{" THEN 1 ELSE IF t[i].t = "}" THEN -1 ELSE 0)
       IN IF d = 0 THEN i ELSE Close(t, i + 1, d)

DefOf(c, name) == IF name \in DOMAIN c.defs THEN c.defs[name] ELSE ""
Truthy(v) == v \notin {"", "0", "false"}

\* eval_comptime_cond on the tokens from i on: the condition and what follows.
CondOut(ok, val, next) == [ok |-> ok, val |-> val, next |-> next]
CondOf(c, i, neg, op, val) ==
  IF op \in {"==", "!="}
  THEN CondOut(TokAt(c, i).k = "id" /\ ~neg /\ TokAt(c, i + 2).k = "str",
               (val = TokAt(c, i + 2).s) = (op = "=="), i + 3)
  ELSE CondOut(TokAt(c, i).k = "id", Truthy(val) # neg, i + 1)
CondFrom(c, i, neg) == CondOf(c, i, neg, TokAt(c, i + 1).t, DefOf(c, TokAt(c, i).t))
CondAt(c, i) == IF TokAt(c, i).t = "!" THEN CondFrom(c, i + 1, TRUE) ELSE CondFrom(c, i, FALSE)

IsComptimeIf(c) == Is(c, "$") /\ TokAt(c, 2).t = "if"

\* parse_comptime_if: the tokens of the branch taken are spliced in, the
\* other branch and the braces of both are dropped.
Spliced(c, from, to, after) == [c EXCEPT !.t = SubSeq(@, from, to) \o SubSeq(@, after, Len(@))]
TakeElse(c, val, open, closeA, closeB) ==
  IF closeB = 0 THEN Fail(c, "crash")
  ELSE IF val THEN Spliced(c, open + 1, closeA - 1, closeB + 1)
  ELSE Spliced(c, closeA + 4, closeB - 1, closeB + 1)
TakeBranch(c, val, open, close) ==
  IF close = 0 THEN Fail(c, "crash")
  ELSE IF ~(TokAt(c, close + 1).t = "$" /\ TokAt(c, close + 2).t = "else")
  THEN Spliced(c, open + 1, IF val THEN close - 1 ELSE open, close + 1)
  ELSE IF TokAt(c, close + 3).t # "{" THEN Fail(c, "$else")
  ELSE TakeElse(c, val, open, close, Close(c.t, close + 4, 1))
ComptimeBranch(c, cond) ==
  IF ~(TokAt(c, 3).t = "(" /\ cond.ok /\ TokAt(c, cond.next).t = ")"
       /\ TokAt(c, cond.next + 1).t = "{") THEN Fail(c, "$if")
  ELSE TakeBranch(c, cond.val, cond.next + 1, Close(c.t, cond.next + 2, 1))
ComptimeIf(c) == ComptimeBranch(c, CondAt(c, 4))

RECURSIVE ResolveComptime(_)
ResolveComptime(c) == IF ~Stop(c) /\ IsComptimeIf(c) THEN ResolveComptime(ComptimeIf(c)) ELSE c

\* ----------------------------------------------------------------- types
TypeVarNamed(c, name) == SelectSeq(c.tvars, LAMBDA v : v.name = name)
ArrayLimit == Modulus(4 * ByteBits - 1) - 1        \* 0x7fffffff

TypeOut(ty, c) == [ty |-> ty, c |-> c]
NoType(c, why) == TypeOut(NoTy, Fail(c, why))
PointerTo(r)  == TypeOut(TypePtr(r.ty), r.c)
SliceOf(r)    == IF SizeOf(r.c.types, r.ty) = 0 THEN NoType(r.c, "type")
                 ELSE TypeOut(TypeSlice(r.ty), r.c)
ArrayOf(r, n) ==
  LET size == SizeOf(r.c.types, r.ty)
  IN IF size = 0 \/ n > ArrayLimit \div size THEN NoType(r.c, "type")
     ELSE TypeOut(TypeArray(r.ty, size, AlignOf(r.c.types, r.ty), n), r.c)
TypeNamed(c, ty) == IF ty = NoTy THEN NoType(c, "unknown type") ELSE TypeOut(ty, Adv(c))

RECURSIVE PType(_)
PType(c) ==
  IF Stop(c) THEN TypeOut(NoTy, c)
  ELSE IF Is(c, "*") THEN PointerTo(PType(Adv(c)))
  ELSE IF Is(c, "[") /\ TokAt(c, 2).t = "]" THEN SliceOf(PType(Adv(Adv(c))))
  ELSE IF Is(c, "[")
  THEN IF TokAt(c, 2).k # "num" \/ TokAt(c, 2).v <= 0 THEN NoType(c, "array length")
       ELSE ArrayOf(PType(Expect(Adv(Adv(c)), "]")), TokAt(c, 2).v)
  ELSE IF Tok(c).k # "id" THEN NoType(c, "expected a type")
  ELSE IF TypeVarNamed(c, Tok(c).t) # <<>> THEN TypeOut(TypeVarNamed(c, Tok(c).t)[1], Adv(c))
  ELSE TypeNamed(c, TypeLookup(c.types, Tok(c).t))

\* ------------------------------------------------------------ expressions
\* parse_enter and parse_leave around what recurses.
Enter(c) == IF c.nest >= MaxNest THEN Fail(c, "nested too deeply")
            ELSE [c EXCEPT !.nest = @ + 1]
Leave(r) == Out(r.n, [r.c EXCEPT !.nest = @ - 1])

\* The binary operators by level, loosest first; "gt" and "ge" are lt and le
\* with the operands exchanged.
\* Mutant: shifts bind as loosely as additions.
LevelsOfShifts ==
  << ("||" :> "lor"), ("&&" :> "land"), ("==" :> "eq" @@ "!=" :> "ne"),
     ("<" :> "lt" @@ "<=" :> "le" @@ ">" :> "gt" @@ ">=" :> "ge"),
     ("+" :> "add" @@ "-" :> "sub" @@ "|" :> "or" @@ "^" :> "xor" @@ "<<" :> "shl" @@ ">>" :> "shr"),
     ("*" :> "mul" @@ "/" :> "div" @@ "%" :> "mod" @@ "&" :> "and") >>
Levels ==
  << ("||" :> "lor"), ("&&" :> "land"), ("==" :> "eq" @@ "!=" :> "ne"),
     ("<" :> "lt" @@ "<=" :> "le" @@ ">" :> "gt" @@ ">=" :> "ge"),
     ("+" :> "add" @@ "-" :> "sub" @@ "|" :> "or" @@ "^" :> "xor"),
     ("*" :> "mul" @@ "/" :> "div" @@ "%" :> "mod" @@ "<<" :> "shl" @@ ">>" :> "shr"
      @@ "&" :> "and") >>
Join(op, l, r) ==
  CASE op = "gt" -> Binary("lt", r, l)
    [] op = "ge" -> Binary("le", r, l)
    [] OTHER -> Binary(op, l, r)

UnaryOps == "-" :> "neg" @@ "!" :> "not" @@ "~" :> "bitnot" @@ "&" :> "addr" @@ "*" :> "deref"
AssignOps == "+=" :> "add" @@ "-=" :> "sub" @@ "*=" :> "mul" @@ "/=" :> "div"
             @@ "%=" :> "mod" @@ "&=" :> "and" @@ "|=" :> "or" @@ "^=" :> "xor"
             @@ "<<=" :> "shl" @@ ">>=" :> "shr"
IsLvalue(n) == n.k \in {"var", "deref", "member", "index"}

\* The rules of the grammar that take each other in, by name: parse.c declares
\* their functions ahead of the first.  All but the block count as a nesting.
RECURSIVE Parse(_, _)
RECURSIVE PCastTail(_), PBinary(_, _), PPostfix(_), PArgs(_, _, _), PFields(_, _),
          PStmts(_, _), PArms(_, _), PBinds(_, _)

Then(r, s)    == Out(r.n, Expect(r.c, s))
ExprStmt(e)   == Out(Nd("exprstmt", <<e.n>>), Expect(e.c, ";"))
\* What is left out when the next token is s.
Unless(c, s)  == IF Is(c, s) THEN Out(Nil, c) ELSE Parse("expr", c)

\* call_args, and the values of a variant: from after "(" to after ")".
PArgs(c, acc, first) ==
  IF Stop(c) THEN Out(acc, c)
  ELSE IF Is(c, ")") THEN Out(acc, Adv(c))
  ELSE LET a == Parse("assign", IF first THEN c ELSE Expect(c, ","))
       IN PArgs(a.c, Append(acc, a.n), FALSE)

\* struct_lit: a comma may follow the last field.
Field(name, v) == [Nd("field", <<v.n>>) EXCEPT !.nm = name]
PFields(c, acc) ==
  LET c1 == IF acc = <<>> THEN c ELSE Expect(c, ",")
      v  == Parse("assign", Expect(ExpectId(c1), ":"))
  IN IF Stop(c) THEN Out(acc, c)
     ELSE IF Is(c, "}") THEN Out(acc, Adv(c))
     ELSE IF Is(c1, "}") THEN Out(acc, Adv(c1))
     ELSE PFields(v.c, Append(acc, Field(Tok(c1).t, v)))

InternStr(c, s) == [c EXCEPT !.strs = Append(@, s)]

\* An identifier: a variant of an enum, a struct literal, a type, a call, or
\* a variable.
Filled(n, r) == Out([n EXCEPT !.sub = r.n], r.c)
PVariant(n, c) == IF Stop(c) \/ ~Is(c, "(") THEN Out(n, c)
                  ELSE Filled(n, PArgs(Adv(c), <<>>, TRUE))
PCall(name, args) ==
  IF ~Stop(args.c) /\ name = "syscall" /\ Len(args.n) \notin 1..7
  THEN Out(Nil, Fail(args.c, "syscall"))
  ELSE Filled([Nd(IF name = "syscall" THEN "syscall" ELSE "call", <<>>) EXCEPT !.nm = name], args)
PVarOf(c, name, v) ==
  IF v = 0 THEN Out(Nil, Fail(c, "undefined variable")) ELSE Out(VarNode(v, name), Adv(c))
PNamed(c, c1, tl, tt) ==
  IF KindOf(c.types, tl) = "enum" /\ Is(c1, ".")
  THEN PVariant([Nd("enumlit", <<>>) EXCEPT !.ty = tl, !.nm = TokAt(c1, 2).t], ExpectId(Adv(c1)))
  ELSE IF KindOf(c.types, tt) = "struct" /\ Is(c1, "{")
  THEN Filled([Nd("structlit", <<>>) EXCEPT !.ty = tt], PFields(Adv(c1), <<>>))
  ELSE IF Is(c1, "(") THEN PCall(Tok(c).t, PArgs(Adv(c1), <<>>, TRUE))
  ELSE IF tt # NoTy THEN Out([Nd("typeexpr", <<>>) EXCEPT !.tv = tt], c1)
  ELSE PVarOf(c, Tok(c).t, FindVar(c, Tok(c).t))
OrTypeVar(tl, tv) == IF tl = NoTy /\ tv # <<>> THEN tv[1] ELSE tl
PName(c, tl) == PNamed(c, Adv(c), tl, OrTypeVar(tl, TypeVarNamed(c, Tok(c).t)))

PSizeof(y) == Out([Nd("sizeof", <<>>) EXCEPT !.tv = y.ty], Expect(y.c, ")"))
PComptime(b) == Out(Nd("comptime", <<b.n>>), b.c)
PPrimary(c) ==
  LET t == Tok(c)
  IN IF Stop(c) THEN Out(Nil, c)
     ELSE IF t.t = "(" THEN Then(Parse("expr", Adv(c)), ")")
     ELSE IF t.k = "num" THEN Out(Num(t.v), Adv(c))
     ELSE IF t.t \in {"true", "false"}
     THEN Out(Typed(Num(Truth(t.t = "true")), Bool), Adv(c))
     ELSE IF t.t = "null" THEN Out(Num(0), Adv(c))
     ELSE IF t.k = "str"
     THEN Out([Nd("str", <<>>) EXCEPT !.v = Len(c.strs) + 1], Adv(InternStr(c, t.s)))
     ELSE IF t.t = "comptime" THEN PComptime(Parse("block", Adv(c)))
     ELSE IF t.t = "sizeof" THEN PSizeof(PType(Expect(Adv(c), "(")))
     ELSE IF t.k = "id" THEN PName(c, TypeLookup(c.types, t.t))
     ELSE Out(Nil, Fail(c, "expected an expression"))

\* Index, slice and member suffixes.
PSliceTo(n, lo, hi) == Out(Nd("slice", <<n, lo, hi.n>>), Expect(hi.c, "]"))
PIndex(n, lo) ==
  IF ~Stop(lo.c) /\ Is(lo.c, "..") THEN PSliceTo(n, lo.n, Unless(Adv(lo.c), "]"))
  ELSE Out(Binary("index", n, lo.n), Expect(lo.c, "]"))
PMember(n, c) == Out([Nd("member", <<n>>) EXCEPT !.nm = Tok(c).t], ExpectId(c))
PPostfix(r) ==
  IF Stop(r.c) THEN r
  ELSE IF Is(r.c, "[") THEN PPostfix(PIndex(r.n, Unless(Adv(r.c), "..")))
  ELSE IF Is(r.c, ".") THEN PPostfix(PMember(r.n, Adv(r.c)))
  ELSE r

PUnary(c) ==
  IF Tok(c).t \in DOMAIN UnaryOps
  THEN LET e == Parse("unary", Adv(c)) IN Out(Nd(UnaryOps[Tok(c).t], <<e.n>>), e.c)
  ELSE IF Is(c, "+") THEN Parse("unary", Adv(c))
  ELSE PPostfix(PPrimary(c))

PCast(c) == PCastTail(Parse("unary", c))
PCastTail(r) ==
  IF Stop(r.c) \/ ~Is(r.c, "as") THEN r
  ELSE LET y == PType(Adv(r.c)) IN PCastTail(Out(CastNode(r.n, y.ty), y.c))

\* mul, add, relational, equality, logand and logor are one loop each over
\* the level below, all to the left: after an operand, an operator of level
\* lev or tighter takes what binds tighter than it on its right.
LevelOf(t) == FirstIn({l \in DOMAIN Levels : t \in DOMAIN Levels[l]})
Joined(l, at, r) == Out(Join(Levels[at][Tok(l.c).t], l.n, r.n), r.c)
PBinary(lev, l) ==
  LET at == LevelOf(Tok(l.c).t)
  IN IF Stop(l.c) \/ at < lev THEN l
     ELSE PBinary(lev, Joined(l, at, PBinary(at + 1, PCast(Adv(l.c)))))

\* Assignments associate to the right.
PAssigned(l, op, r) ==
  Out(IF op = "=" THEN Binary("assign", l, r.n)
      ELSE [Binary("opassign", l, r.n) EXCEPT !.v = AssignOps[op]], r.c)
PAssign(l) ==
  LET op == Tok(l.c).t
  IN IF Stop(l.c) \/ ~(op = "=" \/ op \in DOMAIN AssignOps) THEN l
     ELSE IF ~IsLvalue(l.n) THEN Out(Nil, Fail(l.c, "cannot assign"))
     ELSE PAssigned(l.n, op, Parse("assign", Adv(l.c)))

PExpr(l) ==
  IF Stop(l.c) \/ ~Is(l.c, ",") THEN l
  ELSE LET r == Parse("expr", Adv(l.c)) IN Out(Nd("comma", <<l.n, r.n>>), r.c)

\* ------------------------------------------------------------- statements
PStmtAfter(s, acc) == PStmts(s.c, Append(acc, s.n))
PStmtOr(c, acc) ==
  IF Is(c, "}") THEN Out(acc, c)
  ELSE IF Stop(c) \/ Tok(c).k = "eof" THEN Out(acc, Fail(c, "unclosed block"))
  ELSE PStmtAfter(Parse("stmt", c), acc)
PStmts(c, acc) == PStmtOr(ResolveComptime(c), acc)

BlockOf(b) == Out(Nd("block", b.n), Expect(LeaveScope(b.c), "}"))
PBlock(c) == IF Stop(c) THEN Out(Nil, c) ELSE BlockOf(PStmts(EnterScope(Expect(c, "{")), <<>>))

\* declaration: the initialiser is parsed, and for `let` typed, before the
\* name is in scope.
DeclType(c, c1) ==
  IF Is(c, "var") /\ ~Is(c1, "=") THEN PType(c1) ELSE TypeOut(NoTy, c1)
Declared(d, name) == IF Stop(d) THEN Nil ELSE VarNode(LastDeclared(d), name)
PInit(d, name, n) == ExprStmt(Out(Binary("assign", Declared(d, name), n), d))
PZero(d, name)    == ExprStmt(Out([Declared(d, name) EXCEPT !.k = "zero"], d))
PInferred(name, e) ==
  IF ~Stop(e.c) /\ e.n.ty.k = "void" THEN Out(Nil, Fail(e.c, "void"))
  ELSE PInit(Declare(e.c, name, e.n.ty), name, e.n)
PGiven(name, ty, e) == PInit(Declare(e.c, name, ty), name, e.n)
CheckOut(e) == Check(e.n, e.c)
PDeclare(name, y) ==
  IF Stop(y.c) THEN Out(Nil, y.c)
  ELSE IF y.ty = NoTy
  THEN IF Is(y.c, "=") THEN PInferred(name, CheckOut(Parse("assign", Adv(y.c))))
       ELSE Out(Nil, Fail(y.c, "'let' requires an initializer"))
  ELSE IF Is(y.c, "=") THEN PGiven(name, y.ty, Parse("assign", Adv(y.c)))
  ELSE PZero(Declare(y.c, name, y.ty), name)
PDecl(c) == PDeclare(TokAt(c, 2).t, DeclType(c, ExpectId(Adv(c))))

\* for x in lo..hi: x is declared after both bounds, and the upper bound is
\* the expression itself, looked at on every round.
ForHead(init, cond, step, c) == [init |-> init, cond |-> cond, step |-> step, c |-> c]
PRange(v, lo, hi, d) ==
  ForHead(Nd("exprstmt", <<Binary("assign", v, lo)>>), Binary("lt", v, hi),
          [Binary("opassign", v, Num(1)) EXCEPT !.v = "add"], d)
PForOver(name, lo, hi, d) == PRange(Declared(d, name), lo, hi, d)
PForHigh(name, lo, hi) == PForOver(name, lo, hi.n, Declare(hi.c, name, TI64))
PForLow(name, lo) == PForHigh(name, lo.n, Parse("assign", Expect(lo.c, "..")))
PForIn(c) == PForLow(Tok(c).t, Parse("assign", Adv(Adv(c))))

PForInit(c) ==
  IF Is(c, ";") THEN Out(Nil, Adv(c))
  ELSE IF Tok(c).t \in {"let", "var"} THEN PDecl(c)
  ELSE ExprStmt(Parse("expr", c))
PForStep(init, cond, step) == ForHead(init, cond, step.n, Expect(step.c, ")"))
PForCond(init, cond) == PForStep(init, cond.n, Unless(Expect(cond.c, ";"), ")"))
PForHead(init) == PForCond(init.n, Unless(init.c, ";"))

ForBody(h, b) == Out(Nd("for", <<h.init, h.cond, h.step, b.n>>), b.c)
PForBody(h) == ForBody(h, Parse("stmt", h.c))
Scoped(r) == Out(r.n, LeaveScope(r.c))
PFor(c) == Scoped(PForBody(IF Tok(c).k = "id" /\ TokAt(c, 2).t = "in" THEN PForIn(c)
                           ELSE PForHead(PForInit(Expect(c, "(")))))

\* defer: the flag that forbids return, break and continue in the body is
\* cleared at its end, whatever it was at its start.
DeferBegin(c) == [c EXCEPT !.indefer = TRUE]
\* Mutant: the flag is never put down.
DeferEndKeeps(c) == c
DeferEnd(c)   == [c EXCEPT !.indefer = FALSE]
PDefer(c) ==
  LET b == Parse("stmt", DeferBegin(Adv(c)))
  IN Out(Nd("defer", <<b.n>>), DeferEnd(b.c))

\* The bindings of an arm are i64 until the match is typed.
PBind(d, acc, name) == PBinds(d, IF Stop(d) THEN acc ELSE Append(acc, Declared(d, name)))
PBinds(c, acc) ==
  LET c1 == IF acc = <<>> THEN c ELSE Expect(c, ",")
  IN IF Stop(c) THEN Out(acc, c)
     ELSE IF Is(c, ")") THEN Out(acc, Adv(c))
     ELSE PBind(Declare(ExpectId(c1), Tok(c1).t, TI64), acc, Tok(c1).t)

PArm(name, binds, b) == [Nd("arm", <<b.n>> \o binds) EXCEPT !.nm = name]
PArmBody(acc, name, binds, b) == PArms(LeaveScope(b.c), Append(acc, PArm(name, binds, b)))
PArmBinds(acc, name, bs) == PArmBody(acc, name, bs.n, Parse("stmt", Expect(bs.c, "=>")))
PArms(c, acc) ==
  LET c1 == EnterScope(ExpectId(c))
  IN IF Stop(c) THEN Out(acc, c)
     ELSE IF Is(c, "}") THEN Out(acc, Adv(c))
     ELSE IF Tok(c).k = "eof" THEN Out(acc, Fail(c, "unclosed match"))
     ELSE PArmBinds(acc, IF Is(c, "_") THEN "" ELSE Tok(c).t,
                    IF Is(c1, "(") THEN PBinds(Adv(c1), <<>>) ELSE Out(<<>>, c1))

PMatchArms(e, a) ==
  IF ~Stop(a.c) /\ a.n = <<>> THEN Out(Nil, Fail(a.c, "match needs an arm"))
  ELSE Out(Nd("match", <<e>> \o a.n), a.c)
PMatch(e) == PMatchArms(e.n, PArms(Expect(e.c, "{"), <<>>))

PRet(c) ==
  IF c.indefer THEN Out(Nil, Fail(c, "return from a defer body"))
  ELSE LET e == Unless(Adv(c), ";") IN Out(Nd("ret", <<e.n>>), Expect(e.c, ";"))

PJump(c) ==
  IF c.indefer THEN Out(Nil, Fail(c, "jump from a defer body"))
  ELSE Out(Nd(Tok(c).t, <<>>), Expect(Adv(c), ";"))

PCond(c) == Then(Parse("expr", Expect(Adv(c), "(")), ")")
IfNode(cond, then, els) == Out(Nd("if", <<cond, then, els.n>>), els.c)
PElse(cond, then) ==
  IfNode(cond, then.n, IF ~Stop(then.c) /\ Is(then.c, "else") THEN Parse("stmt", Adv(then.c))
                       ELSE Out(Nil, then.c))
PIf(cond) == PElse(cond.n, Parse("stmt", cond.c))

PWhile(cond) == PForBody(ForHead(Nil, cond.n, Nil, cond.c))

PStmt(c) ==
  CASE Is(c, "{") -> Parse("block", c)
    [] Is(c, "return") -> PRet(c)
    [] Is(c, "if") -> PIf(PCond(c))
    [] Is(c, "while") -> PWhile(PCond(c))
    [] Tok(c).t \in {"break", "continue"} -> PJump(c)
    [] Is(c, "for") -> PFor(EnterScope(Adv(c)))
    [] Is(c, "defer") -> PDefer(c)
    [] Is(c, "match") -> PMatch(PCond(c))
    [] Tok(c).t \in {"let", "var"} -> PDecl(c)
    [] OTHER -> ExprStmt(Parse("expr", c))

Nested(rule, c) ==
  IF Stop(c) THEN Out(Nil, c)
  ELSE Leave(CASE rule = "expr"   -> PExpr(Parse("assign", c))
               [] rule = "assign" -> PAssign(PBinary(1, PCast(c)))
               [] rule = "unary"  -> PUnary(c)
               [] rule = "stmt"   -> PStmt(c))
Parse(rule, c) == IF rule = "block" THEN PBlock(c) ELSE Nested(rule, Enter(c))
=============================================================================
