----------------------------- MODULE BootTypes -----------------------------
(***************************************************************************)
(* The data stage0, the C bootstrap compiler of src/src, works on: words,  *)
(* types and their layout, syntax trees, and the conversions the type      *)
(* checker inserts (type.c, comp.h).  Sizes are the real ones in bytes; a  *)
(* byte has ByteBits bits, so that a 64-bit word of the compiled program   *)
(* is one of 8 * ByteBits bits here and TLC can walk over its corners.     *)
(***************************************************************************)
EXTENDS Integers, Sequences, SequencesExt, Bitwise

CONSTANT ByteBits

ASSUME ByteBitsAssumption == ByteBits \in 1..8

\* ---------------------------------------------------------------- words
WordBits == 8 * ByteBits
Modulus(bits) == 2 ^ bits
Unsigned(v, bits) == v % Modulus(bits)
Signed(v, bits) == LET u == Unsigned(v, bits)
                   IN IF u < Modulus(bits - 1) THEN u ELSE u - Modulus(bits)
Word(v) == Signed(v, WordBits)
UWord(v) == Unsigned(v, WordBits)

Magnitude(a) == IF a < 0 THEN -a ELSE a
Quotient(a, b) == LET q == Magnitude(a) \div Magnitude(b)
                  IN IF (a < 0) # (b < 0) THEN -q ELSE q
Truth(p) == IF p THEN 1 ELSE 0

\* The first and the last of a set of positions of a sequence, 0 for none.
FirstIn(S) == IF S = {} THEN 0 ELSE Min(S)
LastIn(S) == IF S = {} THEN 0 ELSE Max(S)

\* C's operators on the i64 values of the compiler itself.  A shift count is
\* taken modulo the width, as the shift instruction does.
I64(op, a, b) ==
  CASE op = "add" -> Word(a + b)
    [] op = "sub" -> Word(a - b)
    [] op = "mul" -> Word(a * b)
    [] op = "div" -> Word(Quotient(a, b))
    [] op = "mod" -> a - b * Quotient(a, b)
    [] op = "and" -> Word(UWord(a) & UWord(b))
    [] op = "or"  -> Word(UWord(a) | UWord(b))
    [] op = "xor" -> Word(UWord(a) ^^ UWord(b))
    [] op = "shl" -> Word(a * 2 ^ (UWord(b) % WordBits))
    [] op = "shr" -> a \div (2 ^ (UWord(b) % WordBits))
    [] op = "eq"  -> Truth(a = b)
    [] op = "ne"  -> Truth(a # b)
    [] op = "lt"  -> Truth(a < b)
    [] op = "le"  -> Truth(a <= b)

\* What the division instruction refuses, in the compiler as in its output.
Overflows(op, a, b) == op \in {"div", "mod"} /\ b = -1 /\ a = Word(Modulus(WordBits - 1))
DivError(op, a, b) ==
  IF op \in {"div", "mod"} /\ b = 0 THEN "division by zero"
  ELSE IF Overflows(op, a, b) THEN "crash" ELSE ""

\* ---------------------------------------------------------------- types
\* One shape for every type: base holds the element type of a pointer, array
\* or slice; id is the entry of a struct or enum in the table of named types,
\* which is how two pointers to one Type of the C code are the same type.
MkType(k, size, align, uns, base, len, name) ==
  [k |-> k, size |-> size, align |-> align, uns |-> uns, base |-> base,
   len |-> len, name |-> name]

NoTy     == MkType("none", 0, 1, FALSE, <<>>, 0, "")
Void     == MkType("void", 1, 1, FALSE, <<>>, 0, "void")
Bool     == MkType("bool", 1, 1, FALSE, <<>>, 0, "bool")
TypeTy   == MkType("type", 8, 8, FALSE, <<>>, 0, "type")
IntTy(size, uns, name) == MkType("int", size, size, uns, <<>>, 0, name)
TI64     == IntTy(8, FALSE, "i64")
TU64     == IntTy(8, TRUE, "u64")
TU8      == IntTy(1, TRUE, "u8")

TypePtr(b)        == MkType("ptr", 8, 8, TRUE, <<b>>, 0, "")
TypeArray(b, sz, al, n) == MkType("array", sz * n, al, FALSE, <<b>>, n, "")
TypeSlice(b)      == MkType("slice", 16, 8, FALSE, <<b>>, 0, "")
TypeVar(name)     == MkType("tvar", 8, 8, FALSE, <<>>, 0, name)
Named(id)         == MkType("named", 0, 1, FALSE, <<>>, id, "")
TypeStr           == TypeSlice(TU8)

PrimTable ==
  [void |-> Void, bool |-> Bool, type |-> TypeTy,
   i8 |-> IntTy(1, FALSE, "i8"), i16 |-> IntTy(2, FALSE, "i16"),
   i32 |-> IntTy(4, FALSE, "i32"), i64 |-> TI64,
   u8 |-> TU8, u16 |-> IntTy(2, TRUE, "u16"),
   u32 |-> IntTy(4, TRUE, "u32"), u64 |-> TU64,
   int |-> TI64, uint |-> TU64, usize |-> TU64, str |-> TypeStr]

\* The table of named types, in order of definition; the latest wins.
\* An entry: [name, k, size, align, members, variants].
NamedIds(types, name) == {i \in DOMAIN types : types[i].name = name}
TypeLookup(types, name) ==
  IF name \in DOMAIN PrimTable THEN PrimTable[name]
  ELSE LET ids == NamedIds(types, name)
       IN IF ids = {} THEN NoTy
          ELSE Named(CHOOSE i \in ids : \A j \in ids : j <= i)

KindOf(types, ty)  == IF ty.k = "named" THEN types[ty.len].k ELSE ty.k
SizeOf(types, ty)  == IF ty.k = "named" THEN types[ty.len].size ELSE ty.size
AlignOf(types, ty) == IF ty.k = "named" THEN types[ty.len].align ELSE ty.align

\* (pointer, length): the fields every slice has.
SliceMembers(ty) == << [name |-> "ptr", ty |-> TypePtr(ty.base[1]), off |-> 0],
                       [name |-> "len", ty |-> TI64, off |-> 8] >>
MembersOf(types, ty) == IF ty.k = "slice" THEN SliceMembers(ty)
                        ELSE IF ty.k = "named" THEN types[ty.len].members ELSE <<>>
FieldOf(members, name) == SelectSeq(members, LAMBDA m : m.name = name)
VariantOf(types, ty, name) ==
  SelectSeq(types[ty.len].variants, LAMBDA v : v.name = name)

IsInteger(ty)   == ty.k \in {"int", "bool"}
IsNumeric(ty)   == IsInteger(ty) \/ ty.k = "ptr"
IsAggregate(ty) == ty.k \in {"array", "slice", "named"}
Decayed(ty)     == IF ty.k = "array" THEN TypePtr(ty.base[1]) ELSE ty

RECURSIVE SameType(_, _, _)
SameType(types, a, b) ==
  \/ a = b
  \/ /\ KindOf(types, a) = KindOf(types, b)
     /\ CASE KindOf(types, a) \in {"ptr", "slice"} ->
               SameType(types, a.base[1], b.base[1])
          [] KindOf(types, a) = "array" ->
               a.len = b.len /\ SameType(types, a.base[1], b.base[1])
          [] KindOf(types, a) = "struct" -> FALSE
          [] OTHER -> SizeOf(types, a) = SizeOf(types, b) /\ a.uns = b.uns

\* Both operands of an arithmetic operator are brought to this type.
Common(a, b) ==
  CASE a.k = "ptr" -> a
    [] a.k # "ptr" /\ b.k = "ptr" -> b
    [] a.k # "ptr" /\ b.k # "ptr" ->
         IF a.size < 8 /\ b.size < 8 THEN TI64
         ELSE IF a.size > b.size THEN a
         ELSE IF b.size > a.size THEN b
         ELSE IF a.uns THEN a ELSE b

Bits(ty) == ty.size * ByteBits
IntFits(v, ty) ==
  IF ty.uns THEN v >= 0 /\ (ty.size = 8 \/ v < Modulus(Bits(ty)))
  ELSE ty.size = 8 \/ v \in (-Modulus(Bits(ty) - 1))..(Modulus(Bits(ty) - 1) - 1)

\* What a store of that size keeps and a load of it gives back.
TruncTo(v, ty) ==
  IF ty.size = 8 THEN v
  ELSE IF ty.uns \/ (ty.size = 1 /\ ty.k = "bool") THEN Unsigned(v, Bits(ty))
  ELSE Signed(v, Bits(ty))

RoundUp(off, align) == ((off + align - 1) \div align) * align

\* ---------------------------------------------------------------- trees
\* One shape for every node: its kind, whether add_type was here, its type,
\* a number (literal, operator or string index), a name, a type operand, the
\* variable it names, its temporary, and its children in order.
Nd(k, sub) == [k |-> k, td |-> FALSE, ty |-> NoTy, v |-> 0, nm |-> "",
               tv |-> NoTy, x |-> 0, tmp |-> 0, sub |-> sub]
Nil == Nd("nil", <<>>)
Num(v) == [Nd("num", <<>>) EXCEPT !.v = v]
VarNode(id, name) == [Nd("var", <<>>) EXCEPT !.x = id, !.nm = name]
Binary(op, l, r) == Nd(op, <<l, r>>)
CastNode(n, ty) == [Nd("cast", <<n>>) EXCEPT !.ty = ty]

ArithOps   == {"add", "sub", "mul", "div", "mod", "and", "or", "xor", "shl", "shr"}
CompareOps == {"eq", "ne", "lt", "le"}
BinaryOps  == ArithOps \cup CompareOps

\* ------------------------------------------------------ compiler's state
\* c.cur is the function being parsed or typed, 0 outside of one.  A positive
\* variable number is a local of that function, a negative one a global.
Fail(c, why) == IF c.err # "" THEN c ELSE [c EXCEPT !.err = why]
VarRec(c, id) == IF id < 0 THEN c.globals[-id] ELSE c.funcs[c.cur].locals[id]
FindFunc(c, name) ==
  FirstIn({i \in DOMAIN c.funcs : c.funcs[i].listed /\ c.funcs[i].name = name})
AddLocal(c, name, ty) ==
  [c EXCEPT !.funcs[c.cur].locals =
     Append(@, [name |-> name, ty |-> ty, byref |-> FALSE, off |-> 0])]
AllocTemp(c, ty) == IF c.cur = 0 THEN c ELSE AddLocal(c, "", ty)
LastLocal(c) == IF c.cur = 0 THEN 0 ELSE Len(c.funcs[c.cur].locals)
=============================================================================
