------------------------- MODULE MCGroupingEngine -------------------------
(* Model-checking instance of GroupingEngine.  The stored matrices are    *)
(* every symmetric matrix of one to five objects with off-diagonal values *)
(* 1 or 2 (zero diagonal); variants of the four-object ones with one cell *)
(* made asymmetric or the last diagonal cell raised; and the nested       *)
(* matrices the X*Y*Z shorthand of the environment grammar generates for  *)
(* six and eight objects, whose Groups recurse two levels deep.           *)
EXTENDS GroupingEngine

MCMaxObjs == 8
MCMaxDepth == 3

Sym(n) ==
  LET Pairs == {<<a, b>> \in (0 .. n-1) \X (0 .. n-1) : a < b}
  IN { [a \in 0 .. n-1 |-> [b \in 0 .. n-1 |->
          IF a = b THEN Dist(0)
          ELSE IF a < b THEN Dist(up[<<a, b>>]) ELSE Dist(up[<<b, a>>])]]
       : up \in [Pairs -> {1, 2}] }

Flip(v) == IF v = Dist(1) THEN Dist(2) ELSE Dist(1)
Asym4 == { [m EXCEPT ![3][2] = Flip(m[3][2])] : m \in Sym(4) }
HighDiag4 == { [m EXCEPT ![3][3] = Dist(2)] : m \in Sym(4) }

\* The matrix of the "X*Y*Z" shorthand for n = x*y*z objects (lines 148-157).
Nested(n, y, z) ==
  [a \in 0 .. n-1 |-> [b \in 0 .. n-1 |->
     IF a = b THEN Dist(1)
     ELSE IF a \div z = b \div z THEN Dist(2)
     ELSE IF (a \div z) \div y = (b \div z) \div y THEN Dist(4)
     ELSE Dist(8)]]

MCInputs ==
  UNION { { [nbobjs |-> n, distances |-> m] : m \in Sym(n) } : n \in 1 .. 5 }
  \cup { [nbobjs |-> 4, distances |-> m] : m \in Asym4 \cup HighDiag4 }
  \cup { [nbobjs |-> 8, distances |-> Nested(8, 2, 2)],
         [nbobjs |-> 6, distances |-> Nested(6, 2, 1)],
         [nbobjs |-> 6, distances |-> Nested(6, 3, 1)] }
=============================================================================
