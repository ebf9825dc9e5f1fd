------------------------------- MODULE MCBoot -------------------------------
(***************************************************************************)
(* Instances of Boot: the programs stage0 is given.  A system call with a  *)
(* number the kernel does not have makes a value visible and nothing else. *)
(***************************************************************************)
EXTENDS Boot

X86 == "TARGET" :> "x86_64"
Plain(text) == [text |-> text, defs |-> X86, nobounds |-> FALSE, legal |-> TRUE]

\* What an import finds.  b and c import each other, and d by another path.
MCFiles ==
  "a.qela" :> "fn one() int { return 1; }"
  @@ "std/s.qela" :> "// none\nfn std() int { return 2; }"
  @@ "lib/b.qela" :> "import \"c.qela\"; fn bee() int { return cee(); } let B = 6 * 7;"
  @@ "lib/c.qela" :> "import \"b.qela\"; import \"std/s.qela\"; fn cee() int { return std() + 3; }"
  @@ "bad.qela" :> "let x = @;"
  @@ "e.qela" :> "let E = 1;"

\* ------------------------------------------------------------ statements
\* Deferred statements in every block a jump can leave, and every jump.
Unwinding(inner, after, k) ==
  "fn o(n int) { syscall(7, n); } fn f(k int) int { defer o(1); for (var i int = 0; i < 2; i += 1) "
  \o "{ defer { o(2); o(i); } if (k == i) { defer o(3); defer o(4); " \o inner \o " } " \o after
  \o " } o(5); return 9; } fn main() int { return f(" \o k \o "); }"
Jumps == {"", "break;", "continue;", "return i + 6;"}
Unwindings == { Unwinding(j1, j2, "1") : j1 \in Jumps, j2 \in Jumps }

Statements == {
  "fn main() int { var n int = 0; for (var i int = 0; i < 3; i += 1) { if (i == 1) continue; n += i; } return n; }",
  "fn main() { var s int = 0; for x in 1..4 { while (true) { s += x; if (s > 2) break; else continue; } } syscall(7, s); return; }",
  "fn main(argc int, argv **u8) int { for (;;) { if (argc == 1) { defer { defer syscall(7, 2); syscall(7, 1); } break; } } if (argv[1] == null) return 4; return argc; }",
  "fn f(n int) int { if (n < 2) return n; return f(n - 1) + f(n - 2); } fn main() int { var r int = 0; for (var i int = 0; i < 5; i += 1) r += f(i); return r; }",
  "fn a() int { defer syscall(7, 1); return syscall(8, 2) + 40; } fn v(n int) { defer syscall(7, 3); if (n == 0) { return; } syscall(7, 4); } fn main() int { v(0); v(1); return a(); }"
  }

\* ----------------------------------------------------------- expressions
\* Every operator on the corners of a type, at the type's own width.
Corners(ty, lo, hi) ==
  "fn o(n int) { syscall(7, n); } fn t(a " \o ty \o ", b " \o ty \o ") { var x " \o ty \o " = a;"
  \o " x += b; o(x as int); x -= a; o(x as int); x *= b; o(x as int); x ^= a; o(x as int); x |= b; o(x as int); x &= a; o(x as int); }"
  \o " fn u(a " \o ty \o ", b " \o ty \o ") { if (b != (0 as " \o ty \o ")) { o((a / b) as int); o((a % b) as int); }"
  \o " var x " \o ty \o " = a; x <<= 1; o(x as int); x = b; x >>= 1; o(x as int); o(-a as int); o(~b as int); }"
  \o " fn v(a " \o ty \o ", b " \o ty \o ") { o((a < b) as int); o((a <= b) as int); o((a > b) as int);"
  \o " o((a >= b) as int); o((a == b) as int); t(a, b); u(a, b); }"
  \o " fn main() { let l = " \o lo \o " as " \o ty \o "; let h = " \o hi \o " as " \o ty
  \o "; v(l, h); v(h, l); v(l, 1 as " \o ty \o "); }"

Expressions == {
  Corners("i64", "(-32767 - 1)", "32767"), Corners("u64", "0", "(-1)"),
  Corners("i32", "(-128)", "127"), Corners("u32", "0", "255"), Corners("u8", "0", "3"), Corners("i8", "(-2)", "1"),
  "fn s(n int) bool { syscall(7, n); return n % 2 == 1; } fn main() int { if (s(1) && s(2) || s(3) && s(5)) syscall(7, 9); let b = s(0) || !s(4); if (b != false) return ~(-3); return 0; }",
  "fn d(a int, b int) int { return a / b; } fn main() int { syscall(7, 1); return d(3, 0); }",
  "fn d(a int, b int) int { return a % b; } fn main() int { return d(-32767 - 1, -1); }",
  "fn main() int { syscall(7, (1 + 2) * 3 - 7 / 2 % 2 << 1, 0); syscall(7, 1 && 0 || 5 > 3); syscall(7, -(3 as i8) as int); return 0x1F ^ 11; }",
  "fn main() int { let a = 200 as u8; let b = a as i64 * 2; var c i16 = 3; c <<= 2; var d u16 = 9; syscall(7, c, 1); syscall(7, d as int + b); return sizeof(u16) + sizeof([3]*u8) + 'b' - 'a'; }",
  "fn main() int { var x int = 5; let p = &x; *p = 6; let q = p + 1; syscall(7, q - p); *(q - 1) += 1; let v = (x = x + 1, x * 2); return v + (q == p) as int; }"
  }

\* ------------------------------------------------------------- aggregates
Aggregates == {
  "struct P { x u8, y int, z u8 } struct Q { p P, q *P } fn mk(a int) P { return P { y: a, x: 1 }; } fn sum(p P) int { p.y += 1; return p.x as int + p.y + p.z as int; } fn main() int { var p P = mk(3); var q Q; q.p = p; q.q = &p; q.q.z = 2; let s = sum(p); return s * 10 + q.p.y + sum(q.p) + p.y; }",
  "struct S { a i32 } struct T { a int, b i32 } fn s(x S, y T, n int) S { return S { a: (x.a as int + y.a + n) as i32 }; } fn t(n int) T { defer syscall(7, n); return T { a: n, b: 7 }; } fn main() int { let r = s(S { a: 2 }, t(3), 4); return r.a as int + t(1).b as int; }",
  "enum E { A, B(int, u8), C([3]u8) } fn e(k int) E { if (k == 0) return E.A; if (k == 1) return E.B(5, 2); var a [3]u8; a[1] = 3; return E.C(a); } fn m(x E) int { match (x) { A => return 1; B(n, b) => { return n + b as int; } C(a) => return a[1] as int; } return 0; } fn main() int { return m(e(0)) * 100 + m(e(1)) * 10 + m(e(2)); }",
  "enum F { X, Y, Z } fn main() int { var f F = F.Z; match (f) { X => syscall(7, 1); _ => syscall(7, 2); } f = F.X; match (f) { X => syscall(7, 3); _ => { syscall(7, 4); } } return 0; }",
  "fn sum(s []i32) int { var t int = 0; for i in 0..s.len { t += s[i] as int; } return t; } fn main() int { var a [4]i32; for i in 0..4 { a[i] = (i * i) as i32; } let s = a[1..]; return sum(a) * 1 + sum(s[..2]) + sum(a[2..3]) + s.len; }",
  "fn at(s []int, i int) int { return s[i]; } fn main() int { var a [2]int; a[0] = 7; syscall(7, at(a, 0)); return at(a, 2); }",
  "fn cut(s []u8, l int, h int) []u8 { return s[l..h]; } fn main() int { let s = \"abcd\"; syscall(1, 1, cut(s, 1, 3).ptr, 2); let e = cut(s, 3, 2); return 1; }",
  "fn main() int { let s = \"hi\\n\"; let t = s; syscall(1, 1, s.ptr, s.len); syscall(1, 2, t[1..].ptr, 1); syscall(60, t[0] as int); return 9; }",
  "struct L; struct N { next *N, v int } fn main() int { var a N; var b N; a.next = &b; b.next = null; b.v = 4; var p *N = &a; var t int = 0; while (p != null) { t += p.v + 1; p = p.next; } let c = b; return t + c.v + (&a == p) as int; }"
  }

\* ------------------------------------------------------ whole programs
Units == {
  "let K = 3; var g int; var h i32; let m = -2 as u8; var arr [2]int; fn bump() int { g += K; arr[1] = g; return arr[1]; } fn main() int { bump(); h = bump() as i32; return g + h as int * 10 + m as int; }",
  "fn id(comptime T: type, x T) T { return x; } fn two(comptime A: type, comptime B: type, a A, b B) B { id(A, a); return b; } fn main() int { return id(int, 4) + two(u8, i32, id(u8, 1), 9) as int + id(int, 1); }",
  "fn sz(comptime T: type, s []T) int { var t T; return s.len * sizeof(T); } fn main() int { var a [3]i32; var b [2]int; return sz(i32, a) + sz(int, b); }",
  "let Q = 5; fn fib(n int) int { if (n < 2) { return n; } return fib(n - 1) + fib(n - 2); } fn main() int { let a = comptime { let x = 2; var y int = 1; while (y < 8) { y *= x; } return y - 1; }; return comptime { return fib(4) + Q; } + a; }",
  "import \"a.qela\"; import \"lib/b.qela\"; import \"std/s.qela\"; import \"a.qela\"; fn main() int { return one() + bee() + B; }",
  "import \"a.qela\"; import \"e.qela\"; import \"a.qela\"; fn main() int { return one() + E; }",
  "$if (TARGET == \"x86_64\") { fn k() int { return 1; } } $else { fn k() int { return 2; } } $if (!DEBUG) { fn j() int { $if (DEBUG) { return 3; } $else { return 4; } } } fn main() int { return k() * 10 + j(); }"
  }

NoBounds == {
  [text |-> "fn main() int { var a [2]int; var b [2]int; let s = a[..]; s[1] = 3; return a[1] + b[0]; }", defs |-> X86 @@ ("DEBUG" :> "1"), nobounds |-> TRUE, legal |-> TRUE]
  }

\* ---------------------------------------------------------- conversions
\* GUIDE.md: a conversion of its own accord widens and is never from signed to
\* unsigned.
IntSizes == "i8" :> 1 @@ "u8" :> 1 @@ "i32" :> 4 @@ "u32" :> 4 @@ "i64" :> 8 @@ "u64" :> 8
IsSigned(t) == t \in {"i8", "i32", "i64"}
Widens(t, u) == t = u \/ (IntSizes[u] > IntSizes[t] /\ ~(IsSigned(t) /\ ~IsSigned(u)))
Conversions ==
  { [Plain("fn f(a " \o t \o ") " \o u \o " { var b " \o u \o " = a; return b; } fn main() { syscall(7, f((-1) as "
           \o t \o ") as int); }") EXCEPT !.legal = Widens(t, u)] : t, u \in DOMAIN IntSizes }

\* ------------------------------------------------------------- grouping
\* Two operators, without parentheses and with all of them.
Tightness == "||" :> 1 @@ "&&" :> 2 @@ "!=" :> 3 @@ ">" :> 4 @@ "-" :> 5 @@ "^" :> 5 @@ "/" :> 6 @@ "<<" :> 6
Grouping ==
  { Plain("fn flat(a int, b int, c int) int { return a " \o p \o " b " \o q \o " c; } fn full(a int, b int, c int) int { return "
      \o (IF Tightness[q] > Tightness[p] THEN "a " \o p \o " (b " \o q \o " c)" ELSE "(a " \o p \o " b) " \o q \o " c")
      \o "; } fn main() int { return flat(9, 4, 2) - full(9, 4, 2); }") : p, q \in DOMAIN Tightness }

\* ---------------------------------------------------------------- calls
\* Arguments of every size next to each other, made by calls.
Kinds == "int" :> "3" @@ "S" :> "mS(4)" @@ "T" :> "mT(5)" @@ "B" :> "mB(6)" @@ "[]int" :> "a"
Seen  == "int" :> "" @@ "S" :> ".x as int" @@ "T" :> ".y" @@ "B" :> ".z" @@ "[]int" :> "[1]"
CallOf(p, q) ==
  "struct S { x i32 } struct T { x int, y int } struct B { x int, y int, z int }"
  \o " fn mS(n int) S { return S { x: n as i32 }; } fn mT(n int) T { return T { x: 1, y: n }; }"
  \o " fn mB(n int) B { var b B; b.z = n; return b; }"
  \o " fn f(p " \o p \o ", n int, q " \o q \o ") " \o q \o " { syscall(7, p" \o Seen[p] \o "); syscall(7, n); return q; }"
  \o " fn main() { var a [2]int; a[1] = 8; let r = f(" \o Kinds[p] \o ", 2 + f(" \o Kinds[p] \o ", 1, " \o Kinds[q] \o ")"
  \o Seen[q] \o ", " \o Kinds[q] \o "); syscall(7, r" \o Seen[q] \o "); }"
Calls == { CallOf(p, q) : p, q \in DOMAIN Kinds }

\* ------------------------------------------------- constant expressions
Constants(a, b) ==
  FoldLeft(LAMBDA done, op : done \o "syscall(7, " \o a \o " " \o op \o " " \o b \o "); ", "fn main() int { ",
           <<"+", "-", "*", "&", "|", "^", "==", "<", ">=", "&&", "||">>)
  \o "return comptime { return " \o a \o " - " \o b \o "; }; }"
Folding == { Constants(a, b) : a \in {"0", "7", "(-5)"}, b \in {"3", "(-32767 - 1)"} }
           \cup { "fn main() int { syscall(7, -7 / 2, -7 % 2, !3); syscall(7, -17 >> 2, ~(5 << 3)); return (300 as u8) as int; }" }

\* ------------------------------------------- what the language forbids
InMain(body) == "fn main() { " \o body \o " }"
WithMain(decl) == decl \o " fn main() {}"
Bodies == {
  "let s = \"ab; ", "let c = 'ab'; ", "let c = '\\q'; ", "let n = 1x;", "let x;", "let x = (1 + 2;", "if 1 {}", "x = 1;",
  "f();", "let a = 1; let a = 2;", "1 = 2;", "let a = 3 as i32; let b = &(a + a);", "var p *int = 5;", "var n int = null as *u8;",
  "var a [2]int; var b [2]int; a = b;", "let a = 1; a.x = 2;", "let a = 1; a[0] = 2;", "let a = 1; *a = 2;", "return 1;",
  "break;", "defer { return; }", "while (true) { defer break; }", "for (;;) { defer { if (true) continue; } }",
  "let a = 1 / 0;", "var a int = comptime { var x int = 0; return 1 % x; };",
  "if (comptime { var x int = 0; 1 % x; }) {}",
  "let a = comptime { return \"s\"; };", "var v *void = null; *v;", "var a [0]int;", "var a [16]int;", "var t T;",
  "((((((((1))))))));", "let s = \"a\"; s < s;", "let p = null as *int; let q = p + p;", "let p = null as *u8; p + p;",
  "match (1) { _ => return; }", "let s = \"a\"; syscall(7, s);", "let s = \"a\"; return s;", "let a = 1; a += null as *u8;",
  "sizeof(3);", "for i in 0 { }", "let s = \"a\"; let t = s as *u8;", "var a u8 = 4;", "let a = -(null as *u8);", "/* " }
Units2 == {
  "struct S { }", "struct S { a int, a u8 }", "struct S { s S }", "enum E { }", "enum E { A, A }", "enum E { A() }",
  "fn f(a [2]int) {}", "fn f() [2]int { }", "fn f(a u8, b u8, c u8, d u8, e u8, f u8, g u8) {}", "fn f(a int, a int) {}",
  "fn f() {} fn f() {}", "let a = 1; let a = 2;", "let g = 1 / 0;", "var x int = 1; let y = x;", "let p = null as *u8;", "var g int = 3 +;",
  "fn f(a int) {} fn g() { f(); }", "fn f(a *int) {} fn g() { f(1); }", "fn f() *int { return 3; }", "fn f() int { return; }",
  "struct S { a int } struct T { a int } fn f(s S, t T) { s = t; }", "struct S { a int } fn f(s S) bool { return s == s; }",
  "struct S { a int } fn f() S { return S { b: 1 }; }", "struct S { a int } fn f() S { return S { a: 1, a: 2 }; }",
  "enum E { A(int) } fn f() E { return E.A; }", "enum E { A(int) } fn f() E { return E.B; }",
  "enum E { A, B } fn f(e E) { match (e) { A => return; } }", "enum E { A, B } fn f(e E) { match (e) { A => return; A => return; _ => return; } }",
  "enum E { A(int) } fn f(e E) { match (e) { A(x, y) => return; } }", "enum E { A } fn f(e E) { match (e) { B => return; } }",
  "enum E { A } fn f(e E) { match (e) { } }",
  "fn id(comptime T: type, x T) T { return x; } fn f() { id(3, 4); }", "fn id(comptime T: type, x T) T { return x; } fn f() { id(int, 4 as *u8); }",
  "fn f(x int, comptime T: type) {}", "import \"bad.qela\";", "import \"none.qela\";", "import 3;",
  "import \"a.qela\"; import \"lib/b.qela\"; import \"e.qela\";", "$if (X == 3) {}", "$if (TARGET) fn f() {}", "$if (X) {} $else fn f() {}",
  "main", "fn f() { }}" }
Forbidden == { InMain(b) : b \in Bodies } \cup { WithMain(d) : d \in Units2 } \cup { "fn f() {}", "fn main(a int) {}" }

MCPrograms == NoBounds \cup Conversions \cup Grouping
              \cup { [Plain(t) EXCEPT !.legal = FALSE] : t \in Forbidden }
              \cup { Plain(t) : t \in Unwindings \cup Statements \cup Expressions \cup Aggregates
                                    \cup Units \cup Calls \cup Folding }
===============================================================================
