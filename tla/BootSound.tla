------------------------------ MODULE BootSound ------------------------------
(***************************************************************************)
(* What the code generator of stage0 relies on in what the parser and the  *)
(* type checker hand it: well-typed trees, and places that are apart.      *)
(***************************************************************************)
EXTENDS BootUnit

\* ---------------------------------------------------------------- types
RECURSIVE Concrete(_)
Concrete(ty) == ty.k # "tvar" /\ (ty.base # <<>> => Concrete(ty.base[1]))

\* A scalar goes where its very type is wanted, an aggregate where one like it is.
Exact(types, got, want) == got = want \/ (IsAggregate(want) /\ SameType(types, got, want))
ExactAll(types, kids, wants) ==
  Len(kids) = Len(wants) /\ \A i \in DOMAIN kids : Exact(types, kids[i].ty, wants[i])

TempHolds(c, f, n) == n.tmp # 0 /\ SizeOf(c.types, f.locals[n.tmp].ty) = SizeOf(c.types, n.ty)

\* The types of a node and of what is directly below it fit together.
NodeTyped(c, f, n) ==
  LET is(i) == n.sub[i].ty
      callee == c.funcs[FindFunc(c, n.nm)]
      vr == VariantOf(c.types, n.ty, n.nm)[1]
  IN CASE n.k \in ArithOps \ {"shl", "shr"} /\ is(1).k # "ptr" -> is(1) = n.ty /\ is(2) = n.ty
       [] n.k \in {"shl", "shr"} -> is(1) = n.ty /\ IsInteger(is(2))
       [] n.k \in {"add", "sub"} /\ is(1).k = "ptr" ->
            IF is(2).k = "ptr" THEN n.ty = TI64 ELSE n.ty = is(1) /\ IsInteger(is(2))
       [] n.k \in CompareOps -> n.ty = Bool /\ (BothIntegers(n) => is(1) = is(2))
       [] n.k = "assign" -> n.ty = is(1) /\ Exact(c.types, is(2), is(1))
       [] n.k = "var" -> n.ty = IF n.x < 0 THEN c.globals[-n.x].ty ELSE f.locals[n.x].ty
       [] n.k = "call" ->
            /\ callee.nct = 0 /\ Exact(c.types, n.ty, callee.ret)
            /\ ExactAll(c.types, n.sub, [i \in DOMAIN callee.params |-> callee.locals[callee.params[i]].ty])
            /\ IsAggregate(n.ty) => TempHolds(c, f, n)
            /\ \A i \in DOMAIN n.sub : ByRefTy(c.types, n.sub[i].ty) => TempHolds(c, f, n.sub[i])
       [] n.k = "enumlit" ->
            /\ TempHolds(c, f, n)
            /\ ExactAll(c.types, n.sub, [i \in DOMAIN vr.fields |-> vr.fields[i].ty])
       [] n.k = "structlit" -> TempHolds(c, f, n)
       [] n.k = "field" -> Exact(c.types, is(1), n.ty)
       [] n.k = "slice" -> TempHolds(c, f, n)
       [] n.k = "ret" -> n.sub[1].k # "nil" => Exact(c.types, is(1), f.ret)
       [] OTHER -> TRUE

RECURSIVE TreeTyped(_, _, _)
TreeTyped(c, f, n) ==
  /\ n.k # "nil" => (n.k = "ret" \/ n.ty # NoTy) /\ Concrete(n.ty) /\ Concrete(n.tv) /\ NodeTyped(c, f, n)
  /\ n.k # "comptime" => \A i \in DOMAIN n.sub : TreeTyped(c, f, n.sub[i])

\* A parameter is received the way its callers pass it.
ParamsAgree(c, f) ==
  \A i \in DOMAIN f.params : LET v == f.locals[f.params[i]]
                             IN v.byref = ByRefTy(c.types, v.ty)

\* --------------------------------------------------------------- places
Apart(a, b) == a.hi <= b.lo \/ b.hi <= a.lo
AllApart(places) == \A i, j \in DOMAIN places : i # j => Apart(places[i], places[j])
Aligned(places) == \A i \in DOMAIN places : places[i].lo % places[i].al = 0

\* What is stored at a variable: its bytes, never less than a word; two words
\* when it came or comes in two registers.
Reach(types, f, id) ==
  LET v == f.locals[id]
      size == SlotSize(types, v)
      received == id \in ToSet(f.params) \/ v.name = ""
  IN IF ~v.byref /\ IsAggregate(v.ty) /\ size \in 9..16 /\ received THEN 16 ELSE size

FrameApart(types, f) ==
  LET place(id) == [lo |-> -f.locals[id].off, hi |-> -f.locals[id].off + Reach(types, f, id),
                    al |-> SlotAlign(types, f.locals[id])]
      places == [id \in DOMAIN f.locals |-> place(id)]
  IN /\ AllApart(places) /\ Aligned(places)
     /\ \A id \in DOMAIN places : places[id].lo >= -StackSize(f) /\ places[id].hi <= 0

FieldsApart(types, fields, from, size) ==
  LET places == [i \in DOMAIN fields |->
                   [lo |-> fields[i].off, hi |-> fields[i].off + SizeOf(types, fields[i].ty),
                    al |-> AlignOf(types, fields[i].ty)]]
  IN /\ AllApart(places) /\ Aligned(places)
     /\ \A i \in DOMAIN places : places[i].lo >= from /\ places[i].hi <= size

\* Fields in their type, payloads behind the tag; a type ends where the next
\* one of an array may start.
TypeApart(types, t) ==
  /\ t.size % t.align = 0
  /\ FieldsApart(types, t.members, 0, t.size)
  /\ \A i \in DOMAIN t.members : t.align % AlignOf(types, t.members[i].ty) = 0
  /\ \A i \in DOMAIN t.variants : FieldsApart(types, t.variants[i].fields, 8, t.size)

\* --------------------------------------------------------------- imports
\* What stands between each `before` of a file's text and the next `after`.
Between(text, before, after) ==
  {SubSeq(text, i + Len(before), SkipTo(text, i + Len(before), after) - 1) :
     i \in {j \in 1..Len(text) : StartsWith(text, j, before)}}
ImportsOf(path, text) ==
  {IF StartsWith(s, 1, "std/") THEN s ELSE DirOf(path) \o s : s \in Between(text, "import \"", "\"")}
FunctionsOf(text) == Between(text, "fn ", "(")

\* The files an import leads to, directly or not.
RECURSIVE Reached(_)
Reached(paths) ==
  LET more == UNION {ImportsOf(p, Files[p]) : p \in paths}
  IN IF more \subseteq paths THEN paths ELSE Reached(paths \cup more)
=============================================================================
