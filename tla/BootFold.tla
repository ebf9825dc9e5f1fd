------------------------------ MODULE BootFold ------------------------------
(***************************************************************************)
(* The constant folder of stage0 (opt.c): it rewrites operators whose      *)
(* operands are literals, and && and || that one literal side decides,     *)
(* everywhere in the body of a function that was typed.                    *)
(***************************************************************************)
EXTENDS BootTypes

\* const_fold makes a node a literal of the type the node had.
Literal(n, v) == [n EXCEPT !.k = "num", !.v = v, !.sub = <<>>]
IsLit(n) == n.k = "num"

Folded(n, err) == [n |-> n, err |-> err]
FirstOf(err, then) == IF err # "" THEN err ELSE then

FoldUnary(n) ==
  LET v == n.sub[1].v
  IN IF ~IsLit(n.sub[1]) THEN n
     ELSE Literal(n, CASE n.k = "neg" -> Word(-v)
                       [] n.k = "bitnot" -> -v - 1
                       [] n.k = "not" -> Truth(v = 0)
                       [] n.k = "cast" -> IF n.ty.k = "bool" THEN Truth(v # 0)
                                          ELSE TruncTo(v, n.ty))

\* && and || on literals, or with a right side that decides on its own.
FoldLogic(n) ==
  LET l == n.sub[1]
      r == n.sub[2]
      decides == Truth(n.k = "lor")
  IN IF IsLit(l) /\ IsLit(r)
     THEN Literal(n, IF n.k = "land" THEN Truth(l.v # 0 /\ r.v # 0)
                     ELSE Truth(l.v # 0 \/ r.v # 0))
     ELSE IF IsLit(r) /\ Truth(r.v # 0) = decides THEN Literal(n, decides)
     ELSE n

FoldBinary(n) ==
  LET a == n.sub[1].v
      b == n.sub[2].v
  IN IF ~(IsLit(n.sub[1]) /\ IsLit(n.sub[2])) THEN Folded(n, "")
     ELSE IF DivError(n.k, a, b) # "" THEN Folded(n, DivError(n.k, a, b))
     ELSE Folded(Literal(n, I64(n.k, a, b)), "")

RECURSIVE ConstFold(_)
ConstFold(n) ==
  LET l  == ConstFold(n.sub[1])
      r  == ConstFold(n.sub[2])
      n1 == [n EXCEPT !.sub = <<l.n>> \o Tail(@)]
      n2 == [n EXCEPT !.sub = <<l.n, r.n>>]
  IN CASE n.k \in {"cast", "neg", "bitnot", "not"} -> Folded(FoldUnary(n1), l.err)
       [] n.k \in {"land", "lor"} ->
            IF IsLit(l.n) /\ (l.n.v = 0) = (n.k = "land")
            THEN Folded(Literal(n, Truth(n.k = "lor")), l.err)
            ELSE Folded(FoldLogic(n2), FirstOf(l.err, r.err))
       [] n.k \in BinaryOps ->
            IF l.err # "" \/ r.err # "" THEN Folded(n2, FirstOf(l.err, r.err)) ELSE FoldBinary(n2)
       [] OTHER -> Folded(n, "")

\* fold_body: every node below one that is no literal now.
RECURSIVE FoldBody(_)
FoldBody(n) ==
  LET f    == ConstFold(n)
      kids == [i \in DOMAIN f.n.sub |-> FoldBody(f.n.sub[i])]
  IN IF f.err # "" \/ IsLit(f.n) THEN f
     ELSE Folded([f.n EXCEPT !.sub = [i \in DOMAIN kids |-> kids[i].n]],
                 FoldRight(LAMBDA k, err : FirstOf(k.err, err), kids, ""))
=============================================================================
