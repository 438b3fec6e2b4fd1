--------------------------- MODULE MCDistanceStore ---------------------------
(* Two object types, OS indexes {0, 1}, matrices of zero to two objects.    *)
(* The tree either holds both indexes of each type or lacks index 1 of type *)
(* 2 (an index that does not resolve).  The environment of each type is     *)
(* unset or "0,1:2*1" (a valid matrix), or else "0,1:1,2" for type 1 (too  *)
(* few values: the parser rejects it) and "1,1:1*2" for type 2 (a          *)
(* duplicate index: set rejects it).  The user's own sets are MCSets.       *)
EXTENDS DistanceStore

MCTrees == {[t \in 1 .. 2 |-> {0, 1}], [t \in 1 .. 2 |-> IF t = 1 THEN {0, 1} ELSE {0}]}
N(d) == Parser!Num(<<d>>)
C(c) == Parser!Sep(c)
Valid == <<N(0), C(","), N(1), C(":"), N(2), C("*"), N(1)>>
TooFew == <<N(0), C(","), N(1), C(":"), N(1), C(","), N(2)>>
Duplicate == <<N(1), C(","), N(1), C(":"), N(1), C("*"), N(2)>>
MCEnvs ==
  {e \in [1 .. 2 -> {NoMatrix, Valid, TooFew, Duplicate}] :
     e[1] # Duplicate /\ e[2] # TooFew}
\* The user sets an empty matrix, two objects (index 1 does not resolve in
\* type 2 of the second tree), or a duplicate index.
MCSets == {<<>>, <<0, 1>>, <<0, 0>>}
=============================================================================
