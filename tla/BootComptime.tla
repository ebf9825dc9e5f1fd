---------------------------- MODULE BootComptime ----------------------------
(***************************************************************************)
(* The compile-time evaluator of stage0 (comptime.c): it walks the tree    *)
(* of a comptime block with variables found by name through every frame    *)
(* that is open, whoever opened it, and with one set of flags for return,  *)
(* break and continue.                                                     *)
(*                                                                         *)
(* An evaluator state s: fr the frames, innermost first, each a sequence   *)
(* of [name, val]; ret, brk and cont the flags and rv the returned value;  *)
(* fuel bounds the iterations, err stops everything (error_at).            *)
(***************************************************************************)
EXTENDS BootTypes

CONSTANT CtFuel      \* bound on loop iterations and calls of one evaluation

ASSUME CtFuelAssumption == CtFuel \in Nat

CtVoid == [k |-> "void", num |-> 0]
CtInt(v) == [k |-> "int", num |-> v]
CtStart == [fr |-> <<>>, ret |-> FALSE, rv |-> CtVoid, brk |-> FALSE,
            cont |-> FALSE, fuel |-> CtFuel, err |-> ""]

CtErr(s, why) == IF s.err # "" THEN s ELSE [s EXCEPT !.err = why]
CtPush(s) == [s EXCEPT !.fr = <<<<>>>> \o @]
CtPop(s)  == [s EXCEPT !.fr = Tail(@)]
CtBurn(s) == IF s.fuel = 0 THEN CtErr(s, "hang") ELSE [s EXCEPT !.fuel = @ - 1]
CtStopped(s) == s.ret \/ s.brk \/ s.cont \/ s.err # ""
CtOut(v, s) == [v |-> v, s |-> s]

\* The frame and the place in it that a name resolves to: the innermost
\* frame that has it, and there the variable declared last.
CtFind(s, name) ==
  LET f == FirstIn({k \in DOMAIN s.fr : \E i \in DOMAIN s.fr[k] : s.fr[k][i].name = name})
  IN IF f = 0 THEN <<0, 0>>
     ELSE <<f, LastIn({i \in DOMAIN s.fr[f] : s.fr[f][i].name = name})>>

CtDeclare(s, name, val) ==
  [s EXCEPT !.fr[1] = Append(@, [name |-> name, val |-> val])]

\* An assignment reaches whatever variable of that name is found, and
\* declares one in the innermost frame when there is none.
CtSet(s, at, name, val) ==
  IF at[1] = 0 THEN CtDeclare(s, name, val)
  ELSE [s EXCEPT !.fr[at[1]][at[2]].val = val]

CtFail(s, why) == CtOut(CtVoid, CtErr(s, why))

\* An expression, a statement or a block, evaluated: one inside the other.
RECURSIVE Ct(_, _, _, _)
RECURSIVE CtBody(_, _, _, _), CtArgs(_, _, _, _, _), CtLoop(_, _, _)

CtBody(stmts, i, s, c) ==
  IF i > Len(stmts) \/ CtStopped(s) THEN s
  ELSE CtBody(stmts, i + 1, Ct("stmt", stmts[i], s, c).s, c)

\* ct_eval_block: a frame of its own and the flags cleared on entry, so that
\* what it leaves in them is for the statement around it.
CtValueOf(s) == CtOut(IF s.ret THEN s.rv ELSE CtVoid, s)
CtBlock(n, s, c) ==
  CtValueOf(CtPop(CtBody(n.sub, 1, [CtPush(s) EXCEPT !.ret = FALSE, !.brk = FALSE,
                                                     !.cont = FALSE], c)))

\* ct_eval_for's while.  A continue is still up when the step is run, which
\* then does nothing, and stays up after the last iteration.
CtAfterBody(n, s, c) ==
  IF s.brk THEN [s EXCEPT !.brk = FALSE]
  ELSE IF s.ret \/ s.err # "" THEN s
  ELSE CtLoop(n, Ct("stmt", n.sub[3], s, c).s, c)
CtRound(n, r, c) ==
  IF r.v.num = 0 \/ r.s.err # "" THEN r.s
  ELSE CtAfterBody(n, Ct("stmt", n.sub[4], [CtBurn(r.s) EXCEPT !.brk = FALSE,
                                                               !.cont = FALSE], c).s, c)
CtLoop(n, s, c) ==
  IF s.ret \/ s.err # "" THEN s
  ELSE CtRound(n, IF n.sub[2].k = "nil" THEN CtOut(CtInt(1), s)
                  ELSE Ct("expr", n.sub[2], s, c), c)
CtFor(n, s, c) == CtLoop(n, Ct("stmt", n.sub[1], s, c).s, c)

\* ct_run_stmt: nothing runs while a flag is up.
CtRet(r) == [r.s EXCEPT !.ret = TRUE, !.rv = r.v]
CtIf(n, r, c) == Ct("stmt", IF r.v.num # 0 THEN n.sub[2] ELSE n.sub[3], r.s, c).s
CtStmt(n, s, c) ==
  IF n.k = "nil" \/ CtStopped(s) THEN s
  ELSE CASE n.k = "ret" -> CtRet(Ct("expr", n.sub[1], s, c))
         [] n.k = "exprstmt" -> Ct("expr", n.sub[1], s, c).s
         [] n.k = "block" -> Ct("block", n, s, c).s
         [] n.k = "if" -> CtIf(n, Ct("expr", n.sub[1], s, c), c)
         [] n.k = "for" -> CtFor(n, s, c)
         [] n.k = "break" -> [s EXCEPT !.brk = TRUE]
         [] n.k = "continue" -> [s EXCEPT !.cont = TRUE]
         [] n.k = "defer" -> s
         [] OTHER -> Ct("expr", n, s, c).s

\* ct_call: the arguments are evaluated in the callee's frame, one after the
\* other; the flags of the caller are put back when it is done.
CtArg(f, i, r) == CtDeclare(r.s, f.locals[f.params[i]].name, r.v)
CtArgs(args, i, f, s, c) ==
  IF i > Len(args) \/ i > Len(f.params) \/ s.err # "" THEN s
  ELSE CtArgs(args, i + 1, f, CtArg(f, i, Ct("expr", args[i], s, c)), c)
CtReturn(s, r) == CtOut(r.v, [CtPop(r.s) EXCEPT !.ret = s.ret, !.brk = s.brk,
                                                !.cont = s.cont, !.rv = s.rv])
CtCall(f, args, s, c) ==
  CtReturn(s, Ct("block", f.body, CtArgs(args, 1, f, CtPush(CtBurn(s)), c), c))

\* The operands of a division are evaluated divisor first.
CtApply(op, l, r, s) ==
  IF s.err # "" THEN CtOut(CtVoid, s)
  ELSE IF Overflows(op, l, r) THEN CtFail(s, "crash")
  ELSE CtOut(CtInt(I64(op, l, r)), s)
CtDivide(n, b, c) ==
  IF b.v.num = 0 THEN CtFail(b.s, "divzero")
  ELSE LET a == Ct("expr", n.sub[1], b.s, c) IN CtApply(n.k, a.v.num, b.v.num, a.s)
CtCombine(n, a, c) ==
  LET b == Ct("expr", n.sub[2], a.s, c) IN CtApply(n.k, a.v.num, b.v.num, b.s)
CtBinary(n, s, c) ==
  IF n.k \in {"div", "mod"} THEN CtDivide(n, Ct("expr", n.sub[2], s, c), c)
  ELSE CtCombine(n, Ct("expr", n.sub[1], s, c), c)

CtStore(name, at, r) == CtOut(r.v, IF r.s.err # "" THEN r.s ELSE CtSet(r.s, at, name, r.v))
CtAssign(n, s, c) ==
  IF n.sub[1].k # "var" THEN CtFail(s, "comptime target")
  ELSE CtStore(n.sub[1].nm, CtFind(s, n.sub[1].nm), Ct("expr", n.sub[2], s, c))

CtOpStore(n, at, a, r) ==
  IF r.s.err # "" THEN r
  ELSE IF DivError(n.v, a, r.v.num) # "" THEN CtFail(r.s, DivError(n.v, a, r.v.num))
  ELSE CtStore(n.sub[1].nm, at, CtOut(CtInt(I64(n.v, a, r.v.num)), r.s))
CtOpThen(n, at, r) == CtOpStore(n, at, r.s.fr[at[1]][at[2]].val.num, r)
CtOpAssign(n, s, c) ==
  LET at == CtFind(s, n.sub[1].nm)
  IN IF n.sub[1].k # "var" \/ at[1] = 0 THEN CtFail(s, "comptime target")
     ELSE CtOpThen(n, at, Ct("expr", n.sub[2], s, c))

\* && and || decide on the left side before they look at the right one.
CtLogic(n, l, c) ==
  IF (n.k = "land") = (l.v.num = 0) THEN CtOut(CtInt(Truth(n.k = "lor")), l.s)
  ELSE LET r == Ct("expr", n.sub[2], l.s, c) IN CtOut(CtInt(Truth(r.v.num # 0)), r.s)

CtUnary(n, r) ==
  LET v == r.v.num
  IN CtOut(CASE n.k = "neg" -> CtInt(Word(-v))
             [] n.k = "bitnot" -> CtInt(-v - 1)
             [] n.k = "not" -> CtInt(Truth(v = 0))
             [] n.k = "cast" -> IF n.ty.k = "bool" THEN CtInt(Truth(v # 0))
                                ELSE IF n.ty.size = 8 THEN r.v
                                ELSE CtInt(TruncTo(v, n.ty)), r.s)

\* A name that no frame has is a global's initial value, or an error.
CtVar(n, at, s, c) ==
  IF at[1] # 0 THEN CtOut(s.fr[at[1]][at[2]].val, s)
  ELSE IF n.x < 0 THEN CtOut(CtInt(c.globals[-n.x].init), s)
  ELSE CtFail(s, "comptime variable")

CtIfValue(branch, s, c) ==
  IF branch.k = "nil" THEN CtOut(CtVoid, s)
  ELSE IF branch.k = "block" THEN Ct("block", branch, s, c)
  ELSE CtValueOf(Ct("stmt", branch, [s EXCEPT !.ret = FALSE], c).s)
CtIfExpr(n, r, c) == CtIfValue(IF r.v.num # 0 THEN n.sub[2] ELSE n.sub[3], r.s, c)

CtExpr(n, s, c) ==
  IF n.k = "nil" \/ s.err # "" THEN CtOut(CtVoid, s)
  ELSE CASE n.k = "num" -> CtOut(CtInt(n.v), s)
         [] n.k = "str" -> CtOut([k |-> "str", num |-> 0], s)
         [] n.k = "var" -> CtVar(n, CtFind(s, n.nm), s, c)
         [] n.k = "sizeof" -> CtOut(CtInt(SizeOf(c.types, n.tv)), s)
         [] n.k \in BinaryOps -> CtBinary(n, s, c)
         [] n.k \in {"neg", "bitnot", "not", "cast"} -> CtUnary(n, Ct("expr", n.sub[1], s, c))
         [] n.k \in {"land", "lor"} -> CtLogic(n, Ct("expr", n.sub[1], s, c), c)
         [] n.k = "comma" -> Ct("expr", n.sub[2], Ct("expr", n.sub[1], s, c).s, c)
         [] n.k = "assign" -> CtAssign(n, s, c)
         [] n.k = "opassign" -> CtOpAssign(n, s, c)
         [] n.k = "call" ->
              IF FindFunc(c, n.nm) = 0 THEN CtFail(s, "no function")
              ELSE CtCall(c.funcs[FindFunc(c, n.nm)], n.sub, s, c)
         [] n.k = "if" -> CtIfExpr(n, Ct("expr", n.sub[1], s, c), c)
         [] n.k = "block" -> Ct("block", n, s, c)
         [] n.k = "comptime" -> Ct("block", n.sub[1], s, c)
         [] OTHER -> CtFail(s, "comptime expression")

Ct(what, n, s, c) ==
  CASE what = "expr"  -> CtExpr(n, s, c)
    [] what = "stmt"  -> CtOut(CtVoid, CtStmt(n, s, c))
    [] what = "block" -> CtBlock(n, s, c)

\* comptime_eval: a fresh evaluation in a frame of its own.
ComptimeEval(n, c) == Ct("expr", n, CtPush(CtStart), c)
=============================================================================
